------------------------- MODULE SqPipeline_proofs -------------------------
(***************************************************************************)
(* Proofs about the send queue engine, for any jettys, WQE shapes, ring    *)
(* depth, prefetch, windows and slots, in every interleaving of the guest, *)
(* DMA callbacks, the network and its failures.                            *)
(***************************************************************************)
EXTENDS SqPipeline, FiniteSetTheorems, WellFoundedInduction, TLAPS

----------------------------------------------------------------------------
(* The inductive invariant *)

\* Calls that hold the fetch claim of their jetty, and calls that are only ever
\* on top of the stack.
Claims == {"handle", "release", "resume"}
Heads == {"fill", "decode", "handle", "pop"}

\* The call on top of the stack, if it is a call for jetty j.
Top(op, j) == stack # <<>> /\ stack[1].op = op /\ stack[1].j = j

\* WQE w of jetty j fits the window between consumer and doorbell.
Fits(j, w) ==
    /\ w \in DOMAIN posted[j]
    /\ sq[j].issue + posted[j][w].kind.bb <= sq[j].consumer + Depth
    /\ sq[j].issue + posted[j][w].kind.bb <= sq[j].target

\* A jetty that is not live has left nothing behind.
LiveOK(j) ==
    ~sq[j].live => /\ sq[j] = NoPipe(sq[j].gen)
                   /\ posted[j] = <<>> /\ sent[j] = <<>>
                   /\ \A r \in net : r.j # j
                   /\ \A f \in fetches : f.j # j

\* A queue that is not busy has nothing outstanding.
BusyOK(j) ==
    ~sq[j].busy => /\ sq[j].fetching = "no" /\ sq[j].completions = <<>>
                   /\ \A f \in fetches : f.j # j

\* The guest's WQEs, the descriptors read and the direct WQE exist.
PostedOK(j) ==
    /\ Len(posted[j]) <= MaxPosts
    /\ IsFiniteSet(sq[j].cache)
    /\ \A c \in sq[j].cache : c.w <= Len(posted[j])
    /\ sq[j].direct # 0 => /\ sq[j].direct \in DOMAIN posted[j]
                           /\ posted[j][sq[j].direct].kind.bb = 1

\* What a pending read of a WQE or of its payload relies on.
ReadOK(j) ==
    /\ sq[j].fetching \in {"cont", "payload"} => Fits(j, sq[j].cur) /\ ~sq[j].ordered
    /\ sq[j].fetching = "payload" =>
          /\ posted[j][sq[j].cur].kind.op = "SEND"
          /\ posted[j][sq[j].cur].kind.ordered => sq[j].completions = <<>>
          /\ sq[j].prepared = <<>>

\* What the running call relies on.
TopOK(j) ==
    /\ Top("fill", j) \/ Top("decode", j) =>
          /\ sq[j].fetching = "no" /\ ~sq[j].ordered
          /\ sq[j].target <= sq[j].consumer + Depth
    /\ Top("handle", j) => Fits(j, stack[1].w) /\ ~sq[j].ordered
    /\ Top("pop", j) => sq[j].live

\* An entry names a posted WQE, and its CQE is issued when it is ready.
EntryOK(j) ==
    \A k \in DOMAIN sq[j].completions :
        /\ sq[j].completions[k].w \in DOMAIN posted[j]
        /\ sq[j].completions[k].bb = posted[j][sq[j].completions[k].w].kind.bb
        /\ sq[j].completions[k].pub # "no" => sq[j].completions[k].ready

\* f gives the positions at which the entries of c start, and the end.
Tiles(c, f, from, to) ==
    /\ f \in [1..(Len(c) + 1) -> Nat]
    /\ f[1] = from /\ f[Len(c) + 1] = to
    /\ \A k \in 1..Len(c) : /\ f[k + 1] = f[k] + c[k].bb
                            /\ c[k].index = (f[k + 1] - 1) % Depth
    /\ \A k, m \in 1..(Len(c) + 1) : k < m => f[k] < f[m]

\* The unretired entries cover the window from consumer to issue without gap or
\* overlap, and the window is not longer than the ring.
TileOK(j) ==
    /\ \E f : Tiles(sq[j].completions, f, sq[j].consumer, sq[j].issue)
    /\ sq[j].issue <= sq[j].consumer + Depth
    /\ sq[j].issue <= sq[j].target

\* Whatever is in flight has an entry of its own that waits for it.
Waiting(j, w, index) ==
    \E k \in DOMAIN sq[j].completions :
        /\ sq[j].completions[k].w = w /\ sq[j].completions[k].index = index
        /\ ~sq[j].completions[k].ready
NetOK(j) ==
    /\ \A r \in net : r.j = j => Waiting(j, r.w, r.index)
    /\ \A r, q \in net : r.j = j /\ q.j = j /\ r.index = q.index => r = q
PreparedOK(j) ==
    \A k \in DOMAIN sq[j].prepared :
        /\ Waiting(j, sq[j].prepared[k].w, sq[j].prepared[k].index)
        /\ posted[j][sq[j].prepared[k].w].kind.op = "WRITE"
        /\ \A m \in DOMAIN sq[j].prepared :
              sq[j].prepared[m].index = sq[j].prepared[k].index => m = k
        /\ \A r \in net : r.j = j => r.index # sq[j].prepared[k].index

\* A fenced entry is alone, and keeps the queue closed.
FenceOK(j) ==
    \A k \in DOMAIN sq[j].completions :
        posted[j][sq[j].completions[k].w].kind.ordered =>
            Len(sq[j].completions) = 1 /\ sq[j].ordered

\* What holds of every jetty.
JettyInv ==
    \A j \in Jettys : /\ LiveOK(j) /\ BusyOK(j) /\ PostedOK(j) /\ ReadOK(j)
                      /\ TopOK(j) /\ EntryOK(j) /\ TileOK(j) /\ NetOK(j)
                      /\ PreparedOK(j) /\ FenceOK(j)

\* One call at most holds the fetch claim of a jetty.
StackInv ==
    /\ \A k \in DOMAIN stack : stack[k].op \in Heads => k = 1
    /\ \A k \in DOMAIN stack :
          stack[k].op \in Claims => sq[stack[k].j].fetching = "sync"
    /\ \A k, m \in DOMAIN stack :
          /\ stack[k].op \in Claims /\ stack[m].op \in Claims
          /\ stack[k].j = stack[m].j
          => k = m

\* A deferred destroy waits for something in flight, or is about to be retried.
DestroyInv ==
    \A j \in draining :
        /\ sq[j].live
        /\ \/ ResourceQueueBusy(j)
           \/ \E k \in DOMAIN stack : stack[k].op \in {"maybe", "drain"}

\* The inductive invariant.
IInv == TypeOK /\ JettyInv /\ StackInv /\ DestroyInv

----------------------------------------------------------------------------
(* Operators *)

\* The calls a handler may make.
FrameOps == {"enter", "loop", "fill", "decode", "handle", "release",
             "resume", "retire", "pop", "drain", "maybe"}

\* A call of a handler is a frame.
LEMMA CallType ==
    ASSUME NEW op \in FrameOps, NEW j \in Jettys
    PROVE  /\ Call(op, j) \in Frame
           /\ Call(op, j).op = op /\ Call(op, j).j = j
  BY LimitAssumption DEF Call, Frame, FrameOps

\* A call that takes a WQE is a frame.
LEMMA CallWithType ==
    ASSUME NEW op \in FrameOps, NEW j \in Jettys, NEW w \in 0..MaxPosts
    PROVE  /\ CallWith(op, j, w) \in Frame
           /\ CallWith(op, j, w).op = op /\ CallWith(op, j, w).j = j
           /\ CallWith(op, j, w).w = w
  BY DEF CallWith, Frame, FrameOps

\* The running call, and the stack without it.
LEMMA RunningTop ==
    ASSUME stack \in Seq(Frame), NEW op, NEW j, Running(op, j)
    PROVE  /\ Top(op, j) /\ Head(stack) = stack[1] /\ Len(stack) >= 1
           /\ 1 \in DOMAIN stack
           /\ stack[1] \in Frame /\ stack[1].w \in 0..MaxPosts
           /\ Rest \in Seq(Frame) /\ Len(Rest) = Len(stack) - 1
           /\ \A k \in 1..Len(Rest) : Rest[k] = stack[k + 1]
  <1>1. stack # <<>> /\ Head(stack) = stack[1] /\ Len(stack) >= 1 /\ 1 \in DOMAIN stack
    BY DEF Running
  <1>2. stack[1] \in Frame
    BY <1>1
  <1>3. stack[1].w \in 0..MaxPosts
    BY <1>2 DEF Frame
  <1>4. Top(op, j)
    BY <1>1 DEF Running, Top
  <1>5. /\ Rest \in Seq(Frame) /\ Len(Rest) = Len(stack) - 1
        /\ \A k \in 1..Len(Rest) : Rest[k] = stack[k + 1]
    BY <1>1 DEF Rest
  <1> QED BY <1>1, <1>2, <1>3, <1>4, <1>5

\* new consists of n calls on top of what was below the first n - d calls of old.
Pushed(new, old, n, d) ==
    /\ new \in Seq(Frame) /\ Len(new) = Len(old) + d
    /\ \A k \in DOMAIN new :
          k > n => k - d \in DOMAIN old /\ new[k] = old[k - d]

\* A stack left alone, and a call that returns.
LEMMA PushedNone ==
    ASSUME stack \in Seq(Frame)
    PROVE  /\ Pushed(stack, stack, 0, 0)
           /\ stack # <<>> => Pushed(Rest, stack, 0, -1)
  BY DEF Pushed, Rest

\* One call pushed, or taking the place of the running one.
LEMMA PushedOne ==
    ASSUME stack \in Seq(Frame), NEW a \in Frame
    PROVE  /\ Pushed(<<a>> \o stack, stack, 1, 1) /\ (<<a>> \o stack)[1] = a
           /\ stack # <<>> => Pushed(<<a>> \o Rest, stack, 1, 0) /\ (<<a>> \o Rest)[1] = a
           /\ <<a>> \in Seq(Frame) /\ <<a>>[1] = a /\ DOMAIN <<a>> = 1..1
  <1>1. <<a>> \in Seq(Frame) /\ Len(<<a>>) = 1 /\ <<a>>[1] = a /\ DOMAIN <<a>> = 1..1
    OBVIOUS
  <1>2. Pushed(<<a>> \o stack, stack, 1, 1) /\ (<<a>> \o stack)[1] = a
    BY <1>1 DEF Pushed
  <1>3. ASSUME stack # <<>>
        PROVE  Pushed(<<a>> \o Rest, stack, 1, 0) /\ (<<a>> \o Rest)[1] = a
    <2>1. Rest \in Seq(Frame) /\ Len(Rest) = Len(stack) - 1
          /\ \A k \in 1..Len(Rest) : Rest[k] = stack[k + 1]
      BY <1>3 DEF Rest
    <2> QED BY <1>1, <2>1 DEF Pushed
  <1> QED BY <1>1, <1>2, <1>3

\* Two calls pushed, or taking the place of the running one.
LEMMA PushedTwo ==
    ASSUME stack \in Seq(Frame), NEW a \in Frame, NEW b \in Frame
    PROVE  /\ Pushed(<<a, b>> \o stack, stack, 2, 2)
           /\ (<<a, b>> \o stack)[1] = a /\ (<<a, b>> \o stack)[2] = b
           /\ stack # <<>> => /\ Pushed(<<a, b>> \o Rest, stack, 2, 1)
                              /\ (<<a, b>> \o Rest)[1] = a /\ (<<a, b>> \o Rest)[2] = b
           /\ <<a, b>> \in Seq(Frame) /\ <<a, b>>[1] = a /\ <<a, b>>[2] = b
           /\ DOMAIN <<a, b>> = 1..2
  <1>1. /\ <<a, b>> \in Seq(Frame) /\ Len(<<a, b>>) = 2
        /\ <<a, b>>[1] = a /\ <<a, b>>[2] = b /\ DOMAIN <<a, b>> = 1..2
    OBVIOUS
  <1>2. /\ Pushed(<<a, b>> \o stack, stack, 2, 2)
        /\ (<<a, b>> \o stack)[1] = a /\ (<<a, b>> \o stack)[2] = b
    BY <1>1 DEF Pushed
  <1>3. ASSUME stack # <<>>
        PROVE  /\ Pushed(<<a, b>> \o Rest, stack, 2, 1)
               /\ (<<a, b>> \o Rest)[1] = a /\ (<<a, b>> \o Rest)[2] = b
    <2>1. Rest \in Seq(Frame) /\ Len(Rest) = Len(stack) - 1
          /\ \A k \in 1..Len(Rest) : Rest[k] = stack[k + 1]
      BY <1>3 DEF Rest
    <2> QED BY <1>1, <2>1 DEF Pushed
  <1> QED BY <1>1, <1>2, <1>3

\* Three calls take the place of the running one.
LEMMA PushedThree ==
    ASSUME stack \in Seq(Frame), stack # <<>>,
           NEW a \in Frame, NEW b \in Frame, NEW c \in Frame
    PROVE  /\ Pushed(<<a, b, c>> \o Rest, stack, 3, 2)
           /\ (<<a, b, c>> \o Rest)[1] = a /\ (<<a, b, c>> \o Rest)[2] = b
           /\ (<<a, b, c>> \o Rest)[3] = c
  <1>1. /\ <<a, b, c>> \in Seq(Frame) /\ Len(<<a, b, c>>) = 3
        /\ <<a, b, c>>[1] = a /\ <<a, b, c>>[2] = b /\ <<a, b, c>>[3] = c
    OBVIOUS
  <1>2. Rest \in Seq(Frame) /\ Len(Rest) = Len(stack) - 1
        /\ \A k \in 1..Len(Rest) : Rest[k] = stack[k + 1]
    BY DEF Rest
  <1> QED BY <1>1, <1>2 DEF Pushed

----------------------------------------------------------------------------
(* One jetty's step *)

\* The fields of a pipeline and their types.
LEMMA PipeFields ==
    ASSUME NEW s \in Pipe
    PROVE  /\ s.live \in BOOLEAN /\ s.gen \in 0..MaxGen /\ s.consumer \in Nat
           /\ s.target \in Nat /\ s.direct \in 0..MaxPosts /\ s.busy \in BOOLEAN
           /\ s.issue \in Nat /\ s.nextFetch \in Nat /\ s.cache \subseteq Cached
           /\ s.fetching \in {"no", "sync", "cont", "payload"}
           /\ s.cur \in 0..MaxPosts /\ s.ordered \in BOOLEAN /\ s.failed \in BOOLEAN
           /\ s.prepared \in Seq(PreparedWrite) /\ s.completions \in Seq(Entry)
           /\ s.kick \in BOOLEAN
  BY DEF Pipe

\* A record with the fields of a pipeline, each of its type, is a pipeline.
LEMMA NewPipeType ==
    ASSUME NEW g \in 0..MaxGen
    PROVE  NewPipe(g) \in Pipe /\ NoPipe(g) \in Pipe
  <1>1. /\ <<>> \in Seq(PreparedWrite) /\ <<>> \in Seq(Entry) /\ {} \subseteq Cached
        /\ 0 \in 0..MaxPosts
    BY LimitAssumption
  <1>2. NewPipe(g) \in Pipe
    BY <1>1 DEF NewPipe, Pipe
  <1>3. NoPipe(g) \in Pipe
    BY <1>2 DEF NoPipe, Pipe
  <1> QED BY <1>2, <1>3

\* Only jetty j, its WQEs, frames, requests and reads may change.
StepOf(j) ==
    /\ \A i \in Jettys : i # j =>
          sq'[i] = sq[i] /\ posted'[i] = posted[i] /\ sent'[i] = sent[i]
    /\ \A r \in net' : r.j # j => r \in net
    /\ \A r \in net : r.j # j => r \in net'
    /\ \A f \in fetches' : f.j # j => f \in fetches
    /\ \A f \in fetches : f.j # j => f \in fetches'
    /\ stack' # <<>> /\ stack'[1].op \in Heads => stack'[1].j = j

\* A step of jetty j keeps what holds of every other jetty.
LEMMA OtherJettys ==
    ASSUME NEW j \in Jettys, StepOf(j), JettyInv,
           LiveOK(j)', BusyOK(j)', PostedOK(j)', ReadOK(j)', TopOK(j)', EntryOK(j)',
           TileOK(j)', NetOK(j)', PreparedOK(j)', FenceOK(j)'
    PROVE  JettyInv'
  <1> SUFFICES ASSUME NEW i \in Jettys, i # j
               PROVE  /\ LiveOK(i)' /\ BusyOK(i)' /\ PostedOK(i)' /\ ReadOK(i)'
                      /\ TopOK(i)' /\ EntryOK(i)' /\ TileOK(i)' /\ NetOK(i)'
                      /\ PreparedOK(i)' /\ FenceOK(i)'
    BY DEF JettyInv
  <1>1. /\ sq'[i] = sq[i] /\ posted'[i] = posted[i] /\ sent'[i] = sent[i]
    BY DEF StepOf
  <1>2. /\ \A r \in net' : r.j = i => r \in net
        /\ \A r \in net : r.j = i => r \in net'
        /\ \A f \in fetches' : f.j = i => f \in fetches
    BY DEF StepOf
  <1>3. /\ LiveOK(i) /\ BusyOK(i) /\ PostedOK(i) /\ ReadOK(i) /\ EntryOK(i)
        /\ TileOK(i) /\ NetOK(i) /\ PreparedOK(i) /\ FenceOK(i)
    BY DEF JettyInv
  <1>4. LiveOK(i)' /\ BusyOK(i)'
    <2>1. LiveOK(i)'
      BY <1>1, <1>2, <1>3 DEF LiveOK
    <2> QED BY <1>1, <1>2, <1>3, <2>1 DEF BusyOK
  <1>5. PostedOK(i)' /\ ReadOK(i)' /\ EntryOK(i)' /\ FenceOK(i)'
    BY <1>1, <1>3 DEF PostedOK, ReadOK, EntryOK, FenceOK, Fits
  <1>6. TileOK(i)'
    BY <1>1, <1>3 DEF TileOK
  <1>7. NetOK(i)' /\ PreparedOK(i)'
    <2>1. NetOK(i)'
      BY <1>1, <1>2, <1>3 DEF NetOK, Waiting
    <2> QED BY <1>1, <1>2, <1>3, <2>1, SMTT(30) DEF PreparedOK, Waiting
  <1>8. TopOK(i)'
    <2>1. ~Top("fill", i)' /\ ~Top("decode", i)' /\ ~Top("handle", i)' /\ ~Top("pop", i)'
      BY DEF StepOf, Top, Heads
    <2> QED BY <2>1 DEF TopOK
  <1> QED BY <1>4, <1>5, <1>6, <1>7, <1>8

\* The entries of a jetty do not change.
LEMMA EntriesKept ==
    ASSUME NEW j \in Jettys, posted'[j] = posted[j],
           sq'[j].completions = sq[j].completions
    PROVE  /\ EntryOK(j) => EntryOK(j)'
           /\ \A w, index : Waiting(j, w, index)' <=> Waiting(j, w, index)
           /\ FenceOK(j) /\ (sq[j].ordered => sq'[j].ordered) => FenceOK(j)'
  BY DEF EntryOK, Waiting, FenceOK

\* The window does not move.
LEMMA TileKept ==
    ASSUME NEW j \in Jettys, TileOK(j), sq'[j].completions = sq[j].completions,
           sq'[j].consumer = sq[j].consumer, sq'[j].issue = sq[j].issue,
           sq[j].target \in Nat, sq'[j].target \in Nat, sq[j].issue \in Nat,
           sq[j].target <= sq'[j].target
    PROVE  TileOK(j)'
  <1>1. \E f : Tiles(sq[j].completions, f, sq[j].consumer, sq[j].issue)'
    BY DEF TileOK, Tiles
  <1> QED BY <1>1 DEF TileOK

\* Nothing in flight changes.
LEMMA FlightKept ==
    ASSUME NEW j \in Jettys, posted'[j] = posted[j],
           sq'[j].completions = sq[j].completions, sq'[j].prepared = sq[j].prepared,
           net' = net
    PROVE  /\ NetOK(j) => NetOK(j)'
           /\ PreparedOK(j) => PreparedOK(j)'
  BY DEF NetOK, PreparedOK, Waiting

\* One pipeline is replaced by another.
LEMMA SqUpdated ==
    ASSUME sq \in [Jettys -> Pipe], NEW j \in Jettys, NEW t \in Pipe,
           sq' = [sq EXCEPT ![j] = t]
    PROVE  /\ sq' \in [Jettys -> Pipe] /\ sq'[j] = t
           /\ \A i \in Jettys : i # j => sq'[i] = sq[i]
  OBVIOUS

\* The parts of the invariant about one jetty.
LEMMA JettyParts ==
    ASSUME IInv, NEW j \in Jettys
    PROVE  /\ LiveOK(j) /\ BusyOK(j) /\ PostedOK(j) /\ ReadOK(j) /\ TopOK(j)
           /\ EntryOK(j) /\ TileOK(j) /\ NetOK(j) /\ PreparedOK(j) /\ FenceOK(j)
           /\ sq \in [Jettys -> Pipe] /\ sq[j] \in Pipe
           /\ posted \in [Jettys -> Seq(Wqe)] /\ posted[j] \in Seq(Wqe)
           /\ stack \in Seq(Frame) /\ net \subseteq Request /\ fetches \subseteq Fetch
           /\ sent \in [Jettys -> Seq(Numbers)] /\ sent[j] \in Seq(Numbers)
           /\ draining \subseteq Jettys
  BY DEF IInv, TypeOK, JettyInv

\* Entries, window and requests of jetty j stay; the doorbell may move on.
Quiet(j) ==
    /\ sq'[j].live = sq[j].live /\ sq'[j].consumer = sq[j].consumer
    /\ sq'[j].issue = sq[j].issue /\ sq'[j].completions = sq[j].completions
    /\ sq'[j].prepared = sq[j].prepared /\ sq'[j].ordered = sq[j].ordered
    /\ sq[j].target <= sq'[j].target
    /\ posted' = posted /\ sent' = sent /\ net' = net

\* The reads of jetty j stay too.
Steady(j) ==
    /\ sq'[j].busy = sq[j].busy /\ sq'[j].fetching = sq[j].fetching
    /\ sq'[j].cur = sq[j].cur /\ sq'[j].cache = sq[j].cache
    /\ sq'[j].direct = sq[j].direct \/ sq'[j].direct = 0
    /\ fetches' = fetches

\* Entries, window and requests that stay keep their part of the invariant.
LEMMA QuietParts ==
    ASSUME IInv, NEW j \in Jettys, sq'[j] \in Pipe, Quiet(j)
    PROVE  EntryOK(j)' /\ TileOK(j)' /\ NetOK(j)' /\ PreparedOK(j)' /\ FenceOK(j)'
  <1>1. /\ EntryOK(j) /\ TileOK(j) /\ NetOK(j) /\ PreparedOK(j) /\ FenceOK(j)
        /\ sq[j] \in Pipe
    BY JettyParts
  <1>2. sq[j].target \in Nat /\ sq'[j].target \in Nat /\ sq[j].issue \in Nat
    BY <1>1, PipeFields
  <1>3. EntryOK(j)' /\ FenceOK(j)'
    BY <1>1, EntriesKept DEF Quiet
  <1>4. NetOK(j)' /\ PreparedOK(j)'
    BY <1>1, FlightKept DEF Quiet
  <1>5. TileOK(j)'
    BY <1>1, <1>2, TileKept DEF Quiet
  <1> QED BY <1>3, <1>4, <1>5

\* Reads that stay keep their part of the invariant.
LEMMA SteadyParts ==
    ASSUME IInv, NEW j \in Jettys, sq'[j] \in Pipe, Quiet(j), Steady(j)
    PROVE  BusyOK(j)' /\ PostedOK(j)' /\ ReadOK(j)'
  <1>1. /\ BusyOK(j) /\ PostedOK(j) /\ ReadOK(j) /\ sq[j] \in Pipe
        /\ posted[j] \in Seq(Wqe)
    BY JettyParts
  <1>2. /\ sq[j].target \in Nat /\ sq'[j].target \in Nat /\ sq[j].issue \in Nat
        /\ sq[j].consumer \in Nat
    BY <1>1, PipeFields
  <1>3. BusyOK(j)' /\ PostedOK(j)'
    BY <1>1 DEF BusyOK, PostedOK, Quiet, Steady
  <1>4. \A w : Fits(j, w) => Fits(j, w)'
    <2> SUFFICES ASSUME NEW w, Fits(j, w) PROVE Fits(j, w)'
      OBVIOUS
    <2>1. posted[j][w] \in Wqe
      BY <1>1 DEF Fits
    <2>2. posted[j][w].kind.bb \in Nat
      BY <2>1, KindAssumption DEF Wqe, Kind
    <2> QED BY <1>2, <2>2 DEF Fits, Quiet
  <1>5. ReadOK(j)'
    BY <1>1, <1>4 DEF ReadOK, Quiet, Steady
  <1> QED BY <1>3, <1>5

----------------------------------------------------------------------------
(* The stack *)

\* Call m of the stack holds the fetch claim of jetty j.
Holds(m, j) == stack[m].op \in Claims /\ stack[m].j = j

\* The calls pushed by a step of jetty j keep the stack in order.
LEMMA StackStep ==
    ASSUME IInv, NEW j \in Jettys, NEW n \in 0..3, NEW d \in Int, n - d \in {0, 1},
           Pushed(stack', stack, n, d),
           n > 0 /\ n = d /\ stack # <<>> => stack[1].op \notin Heads,
           \A k \in 1..n : stack'[k].op \in Heads => k = 1,
           \A k \in 1..n : stack'[k].op \in Claims =>
                              stack'[k].j = j /\ sq'[j].fetching = "sync",
           \A k, m \in 1..n : stack'[k].op \in Claims /\ stack'[m].op \in Claims => k = m,
           \A i \in Jettys : i # j => sq'[i] = sq[i],
           \/ /\ \A k \in 1..n : stack'[k].op \notin Claims
              /\ sq[j].fetching = "sync" => sq'[j].fetching = "sync"
           \/ \A m \in DOMAIN stack : m > n - d => ~Holds(m, j)
    PROVE  StackInv'
  <1>1. stack \in Seq(Frame) /\ stack' \in Seq(Frame) /\ StackInv
    BY DEF IInv, TypeOK, Pushed
  <1>2. \A k \in DOMAIN stack' : k > n => k - d \in DOMAIN stack /\ stack'[k] = stack[k - d]
    BY DEF Pushed
  <1>3. \A k \in DOMAIN stack' : k \in 1..n \/ k > n
    BY <1>1
  <1>4. ASSUME NEW k \in DOMAIN stack', stack'[k].op \in Heads PROVE k = 1
    <2>1. CASE k > n
      <3>1. k - d = 1
        BY <1>1, <1>2, <1>4, <2>1 DEF StackInv
      <3>2. stack # <<>> /\ stack[1].op \in Heads
        BY <1>1, <1>2, <1>4, <2>1, <3>1
      <3> QED BY <2>1, <3>1, <3>2, <1>1
    <2> QED BY <1>3, <1>4, <2>1
  <1>5. ASSUME NEW k \in DOMAIN stack', stack'[k].op \in Claims
        PROVE  sq'[stack'[k].j].fetching = "sync"
    <2>1. CASE k > n
      <3>1. k - d \in DOMAIN stack /\ stack'[k] = stack[k - d] /\ k - d > n - d
        BY <1>1, <1>2, <2>1
      <3>a. stack[k - d] \in Frame
        BY <1>1, <3>1
      <3>b. stack[k - d].j \in Jettys
        BY <3>a DEF Frame
      <3>c. sq[stack[k - d].j].fetching = "sync"
        BY <1>1, <1>5, <3>1 DEF StackInv
      <3>2. sq[stack[k - d].j].fetching = "sync" /\ stack[k - d].j \in Jettys
        BY <3>b, <3>c
      <3>3. CASE stack[k - d].j = j
        BY <1>5, <3>1, <3>2, <3>3 DEF Holds
      <3> QED BY <3>1, <3>2, <3>3
    <2> QED BY <1>3, <1>5, <2>1
  <1>6. ASSUME NEW k \in DOMAIN stack', NEW m \in DOMAIN stack',
               stack'[k].op \in Claims, stack'[m].op \in Claims,
               stack'[k].j = stack'[m].j
        PROVE  k = m
    <2>1. CASE k > n /\ m > n
      <3>1. /\ k - d \in DOMAIN stack /\ stack'[k] = stack[k - d]
            /\ m - d \in DOMAIN stack /\ stack'[m] = stack[m - d]
        BY <1>2, <2>1
      <3>2. k - d = m - d
        BY <1>1, <1>6, <3>1 DEF StackInv
      <3> QED BY <1>1, <3>2
    <2>2. CASE k \in 1..n /\ m > n
      BY <1>1, <1>2, <1>6, <2>2 DEF Holds
    <2>3. CASE k > n /\ m \in 1..n
      BY <1>1, <1>2, <1>6, <2>3 DEF Holds
    <2>4. CASE k \in 1..n /\ m \in 1..n
      BY <1>6, <2>4
    <2> QED BY <1>3, <2>1, <2>2, <2>3, <2>4
  <1> QED BY <1>4, <1>5, <1>6 DEF StackInv

\* A step of jetty j leaves a call of jetty j on top, or none that relies on it.
LEMMA TopStep ==
    ASSUME IInv, NEW j \in Jettys, NEW n \in 0..3, NEW d \in Int, n - d \in {0, 1},
           Pushed(stack', stack, n, d),
           n = 0 /\ d = 0 /\ stack # <<>> => stack[1].j = j,
           n > 0 => stack'[1].j = j,
           stack' # <<>>, stack'[1].op \in Heads
    PROVE  stack'[1].j = j
  <1>1. stack \in Seq(Frame) /\ stack' \in Seq(Frame) /\ StackInv
    BY DEF IInv, TypeOK, Pushed
  <1>2. CASE n = 0
    <2>1. 1 \in DOMAIN stack' /\ 1 - d \in DOMAIN stack /\ stack'[1] = stack[1 - d]
      BY <1>1, <1>2 DEF Pushed
    <2>2. 1 - d = 1
      BY <1>1, <2>1 DEF StackInv
    <2>3. d = 0 /\ stack # <<>>
      BY <1>1, <2>1, <2>2
    <2> QED BY <1>2, <2>1, <2>3
  <1> QED BY <1>2

\* A jetty whose queue is not in a call holds no claim.
LEMMA NoClaim ==
    ASSUME IInv, NEW j \in Jettys
    PROVE  /\ sq[j].fetching # "sync" => \A m \in DOMAIN stack : ~Holds(m, j)
           /\ stack # <<>> /\ Holds(1, j) =>
                 /\ sq[j].fetching = "sync"
                 /\ \A m \in DOMAIN stack : m > 1 => ~Holds(m, j)
  BY SMTT(30) DEF IInv, TypeOK, StackInv, Holds

\* Calls pushed when the device is idle.
LEMMA PushedIdle ==
    ASSUME Idle, NEW a \in Frame
    PROVE  Pushed(<<a>>, stack, 1, 1) /\ <<a>>[1] = a /\ stack \in Seq(Frame)
  BY DEF Idle, Pushed

\* Two calls made when the device is idle.
LEMMA PushedIdleTwo ==
    ASSUME Idle, NEW a \in Frame, NEW b \in Frame
    PROVE  Pushed(<<a, b>>, stack, 2, 2) /\ <<a, b>>[1] = a /\ <<a, b>>[2] = b
  BY DEF Idle, Pushed

\* A deferred destroy is not forgotten by a step of jetty j.
Retries == \E k \in DOMAIN stack : stack[k].op \in {"maybe", "drain"}

\* A call that retries the destroy stays, unless it was the running one.
LEMMA RetriesKept ==
    ASSUME IInv, NEW n \in 0..3, NEW d \in Int, n - d \in {0, 1},
           Pushed(stack', stack, n, d), Retries,
           n - d = 1 => stack[1].op \notin {"maybe", "drain"}
    PROVE  Retries'
  <1>1. stack \in Seq(Frame) /\ stack' \in Seq(Frame) /\ Len(stack') = Len(stack) + d
    BY DEF IInv, TypeOK, Pushed
  <1>2. PICK k \in DOMAIN stack : stack[k].op \in {"maybe", "drain"}
    BY DEF Retries
  <1>3. k + d \in DOMAIN stack' /\ k + d > n
    BY <1>1, <1>2
  <1>4. stack'[k + d] = stack[(k + d) - d]
    BY <1>3 DEF Pushed
  <1>5. (k + d) - d = k
    BY <1>1
  <1>6. stack'[k + d].op \in {"maybe", "drain"}
    BY <1>2, <1>4, <1>5
  <1> QED BY <1>3, <1>6 DEF Retries

\* Whatever a step of jetty j ends, the destroy is still awaited or retried.
LEMMA DestroyStep ==
    ASSUME IInv, NEW j \in Jettys, StepOf(j), draining' = draining,
           sq[j].live => sq'[j].live,
           Retries => Retries',
           ResourceQueueBusy(j) => ResourceQueueBusy(j)' \/ Retries'
    PROVE  DestroyInv'
  <1>1. draining \subseteq Jettys
    BY DEF IInv, TypeOK
  <1> SUFFICES ASSUME NEW i \in draining
               PROVE  sq'[i].live /\ (ResourceQueueBusy(i)' \/ Retries')
    BY DEF DestroyInv, Retries
  <1>2. sq[i].live /\ (ResourceQueueBusy(i) \/ Retries)
    BY DEF IInv, DestroyInv, Retries
  <1>3. CASE i = j
    BY <1>2, <1>3
  <1>4. CASE i # j
    <2>1. sq'[i] = sq[i] /\ (\A r \in net : r.j = i => r \in net')
      BY <1>1, <1>4 DEF StepOf
    <2>2. ResourceQueueBusy(i) => ResourceQueueBusy(i)'
      BY <2>1 DEF ResourceQueueBusy, IsRma
    <2> QED BY <1>2, <2>1, <2>2
  <1> QED BY <1>3, <1>4

\* The parts of the invariant after a step of jetty j.
LEMMA StepInv ==
    ASSUME IInv, NEW j \in Jettys, StepOf(j), TypeOK', StackInv', DestroyInv',
           LiveOK(j)', BusyOK(j)', PostedOK(j)', ReadOK(j)', TopOK(j)', EntryOK(j)',
           TileOK(j)', NetOK(j)', PreparedOK(j)', FenceOK(j)'
    PROVE  IInv'
  <1>1. JettyInv
    BY DEF IInv
  <1>2. JettyInv'
    BY <1>1, OtherJettys
  <1> QED BY <1>2 DEF IInv

\* A step that leaves entries, requests and reads alone.
LEMMA QuietStep ==
    ASSUME IInv, NEW j \in Jettys, StepOf(j), TypeOK', StackInv', TopOK(j)',
           Quiet(j), Steady(j), draining' = draining,
           sq[j].live \/ sq'[j] = sq[j], Retries => Retries'
    PROVE  IInv'
  <1>1. sq'[j] \in Pipe
    BY DEF TypeOK
  <1>2. LiveOK(j)'
    BY JettyParts DEF LiveOK, Quiet, Steady
  <1>3. ResourceQueueBusy(j) => ResourceQueueBusy(j)'
    BY DEF ResourceQueueBusy, Quiet, Steady, IsRma
  <1>4. DestroyInv'
    BY <1>3, DestroyStep DEF Quiet
  <1> QED BY <1>1, <1>2, <1>4, QuietParts, SteadyParts, StepInv

----------------------------------------------------------------------------
(* Steps that leave entries, requests and reads alone *)

\* Types after a step that changes only a pipeline and the stack.
LEMMA QuietType ==
    ASSUME IInv, sq' \in [Jettys -> Pipe], stack' \in Seq(Frame),
           UNCHANGED <<posted, fetches, net, route, draining, faults, sent>>
    PROVE  TypeOK'
  BY DEF IInv, TypeOK

\* Calls pushed or returned from that hold no claim.
LEMMA PlainStack ==
    ASSUME IInv, NEW j \in Jettys, NEW n \in 0..3, NEW d \in Int, n - d \in {0, 1},
           Pushed(stack', stack, n, d), n # 0 \/ d # 0,
           n = d /\ stack # <<>> => stack[1].op \notin Heads,
           \A k \in 1..n : /\ stack'[k].op \notin Claims /\ stack'[k].j = j
                           /\ stack'[k].op \in Heads => k = 1,
           \A i \in Jettys : i # j => sq'[i] = sq[i],
           sq'[j].fetching = sq[j].fetching
    PROVE  /\ StackInv' /\ stack' \in Seq(Frame)
           /\ stack' # <<>> /\ stack'[1].op \in Heads => n > 0 /\ stack'[1].j = j
           /\ (n - d = 1 /\ stack[1].op \notin {"maybe", "drain"}) \/ n = d =>
                 (Retries => Retries')
  <1>1. StackInv'
    BY StackStep
  <1>2. stack' \in Seq(Frame) /\ stack \in Seq(Frame) /\ StackInv
    BY DEF Pushed, IInv, TypeOK
  <1>3. ASSUME stack' # <<>>, stack'[1].op \in Heads PROVE n > 0 /\ stack'[1].j = j
    <2>1. CASE n = 0
      <3>1. d = -1
        BY <2>1
      <3>2. 1 \in DOMAIN stack'
        BY <1>2, <1>3
      <3>3. 1 - d \in DOMAIN stack /\ stack'[1] = stack[1 - d]
        BY <2>1, <3>2 DEF Pushed
      <3>4. 1 - d = 2
        BY <3>1
      <3> QED BY <1>2, <1>3, <3>3, <3>4 DEF StackInv
    <2>2. CASE n > 0
      BY <2>2
    <2> QED BY <2>1, <2>2
  <1>4. ASSUME (n - d = 1 /\ stack[1].op \notin {"maybe", "drain"}) \/ n = d, Retries
        PROVE  Retries'
    BY <1>4, RetriesKept
  <1> QED BY <1>1, <1>2, <1>3, <1>4

\* The pipelines s and t differ only in kick, failure, fetch position or
\* doorbell, or t has no direct WQE any more.
QuietPipe(s, t) ==
    /\ t.live = s.live /\ t.consumer = s.consumer /\ t.issue = s.issue
    /\ t.completions = s.completions /\ t.prepared = s.prepared
    /\ t.ordered = s.ordered /\ s.target <= t.target
    /\ t.busy = s.busy /\ t.fetching = s.fetching /\ t.cur = s.cur
    /\ t.cache = s.cache /\ (t.direct = s.direct \/ t.direct = 0)

\* A call that pushes or returns to calls without a claim.
LEMMA QuietCall ==
    ASSUME IInv, NEW j \in Jettys, NEW n \in 0..3, NEW d \in Int, n - d \in {0, 1},
           Pushed(stack', stack, n, d), n # 0 \/ d # 0,
           n = d /\ stack # <<>> => stack[1].op \notin Heads,
           n - d = 1 => stack[1].op \notin {"maybe", "drain"},
           \A k \in 1..n : /\ stack'[k].op \notin Claims /\ stack'[k].j = j
                           /\ stack'[k].op \in Heads => k = 1,
           sq' \in [Jettys -> Pipe], \A i \in Jettys : i # j => sq'[i] = sq[i],
           QuietPipe(sq[j], sq'[j]), sq[j].live \/ sq'[j] = sq[j],
           UNCHANGED <<posted, fetches, net, route, draining, faults, sent>>,
           n > 0 /\ stack'[1].op \in Heads => TopOK(j)'
    PROVE  IInv'
  <1>1. sq'[j].fetching = sq[j].fetching
    BY DEF QuietPipe
  <1>2. /\ StackInv' /\ stack' \in Seq(Frame)
        /\ stack' # <<>> /\ stack'[1].op \in Heads => n > 0 /\ stack'[1].j = j
    BY <1>1, PlainStack
  <1>3. Retries => Retries'
    BY RetriesKept
  <1>4. TopOK(j)'
    <2>1. CASE stack' # <<>> /\ stack'[1].op \in Heads
      BY <1>2, <2>1
    <2>2. CASE ~(stack' # <<>> /\ stack'[1].op \in Heads)
      BY <2>2 DEF TopOK, Top, Heads
    <2> QED BY <2>1, <2>2
  <1>5. StepOf(j)
    BY <1>2 DEF StepOf
  <1>6. TypeOK'
    BY <1>2, QuietType
  <1>7. Quiet(j) /\ Steady(j)
    BY DEF QuietPipe, Quiet, Steady
  <1> QED BY <1>2, <1>3, <1>4, <1>5, <1>6, <1>7, QuietStep

\* A pipeline that stays is quiet.
LEMMA SameQuiet ==
    ASSUME IInv, NEW j \in Jettys
    PROVE  /\ QuietPipe(sq[j], sq[j]) /\ sq \in [Jettys -> Pipe] /\ sq[j] \in Pipe
           /\ stack \in Seq(Frame)
  <1>1. sq \in [Jettys -> Pipe] /\ sq[j] \in Pipe /\ stack \in Seq(Frame)
    BY DEF IInv, TypeOK
  <1>2. sq[j].target \in Nat
    BY <1>1, PipeFields
  <1> QED BY <1>1, <1>2 DEF QuietPipe

\* A pipeline whose kick, failure or fetch position changes.
LEMMA MarkedQuiet ==
    ASSUME IInv, NEW j \in Jettys, NEW b \in BOOLEAN, NEW p \in Nat
    PROVE  /\ [sq[j] EXCEPT !.kick = b] \in Pipe
           /\ QuietPipe(sq[j], [sq[j] EXCEPT !.kick = b])
           /\ [sq[j] EXCEPT !.failed = b] \in Pipe
           /\ QuietPipe(sq[j], [sq[j] EXCEPT !.failed = b])
           /\ [sq[j] EXCEPT !.kick = b, !.direct = 0] \in Pipe
           /\ QuietPipe(sq[j], [sq[j] EXCEPT !.kick = b, !.direct = 0])
           /\ [sq[j] EXCEPT !.kick = b, !.nextFetch = p] \in Pipe
           /\ QuietPipe(sq[j], [sq[j] EXCEPT !.kick = b, !.nextFetch = p])
  <1>1. sq[j] \in Pipe
    BY DEF IInv, TypeOK
  <1>2. sq[j].target \in Nat /\ 0 \in 0..MaxPosts
    BY <1>1, PipeFields, LimitAssumption
  <1>3. /\ [sq[j] EXCEPT !.kick = b] \in Pipe
        /\ QuietPipe(sq[j], [sq[j] EXCEPT !.kick = b])
    <2> DEFINE t == [sq[j] EXCEPT !.kick = b]
    <2>1. t \in Pipe
      BY <1>1, <1>2 DEF Pipe
    <2>2.  /\ t.live = sq[j].live /\ t.consumer = sq[j].consumer
          /\ t.target = sq[j].target /\ t.direct = sq[j].direct /\ t.busy = sq[j].busy
          /\ t.issue = sq[j].issue /\ t.nextFetch = sq[j].nextFetch
          /\ t.cache = sq[j].cache /\ t.fetching = sq[j].fetching /\ t.cur = sq[j].cur
          /\ t.ordered = sq[j].ordered /\ t.failed = sq[j].failed
          /\ t.prepared = sq[j].prepared /\ t.completions = sq[j].completions
          /\ t.kick = b
      BY <1>1 DEF Pipe
    <2> HIDE DEF t
    <2>3. QuietPipe(sq[j], t)
      BY <1>2, <2>2 DEF QuietPipe
    <2> QED BY <2>1, <2>3 DEF t
  <1>4. /\ [sq[j] EXCEPT !.failed = b] \in Pipe
        /\ QuietPipe(sq[j], [sq[j] EXCEPT !.failed = b])
    <2> DEFINE t == [sq[j] EXCEPT !.failed = b]
    <2>1. t \in Pipe
      BY <1>1, <1>2 DEF Pipe
    <2>2.  /\ t.live = sq[j].live /\ t.consumer = sq[j].consumer
          /\ t.target = sq[j].target /\ t.direct = sq[j].direct /\ t.busy = sq[j].busy
          /\ t.issue = sq[j].issue /\ t.nextFetch = sq[j].nextFetch
          /\ t.cache = sq[j].cache /\ t.fetching = sq[j].fetching /\ t.cur = sq[j].cur
          /\ t.ordered = sq[j].ordered /\ t.failed = b /\ t.prepared = sq[j].prepared
          /\ t.completions = sq[j].completions /\ t.kick = sq[j].kick
      BY <1>1 DEF Pipe
    <2> HIDE DEF t
    <2>3. QuietPipe(sq[j], t)
      BY <1>2, <2>2 DEF QuietPipe
    <2> QED BY <2>1, <2>3 DEF t
  <1>5. /\ [sq[j] EXCEPT !.kick = b, !.direct = 0] \in Pipe
        /\ QuietPipe(sq[j], [sq[j] EXCEPT !.kick = b, !.direct = 0])
    <2> DEFINE t == [sq[j] EXCEPT !.kick = b, !.direct = 0]
    <2>1. t \in Pipe
      BY <1>1, <1>2 DEF Pipe
    <2>2.  /\ t.live = sq[j].live /\ t.consumer = sq[j].consumer
          /\ t.target = sq[j].target /\ t.direct = 0 /\ t.busy = sq[j].busy
          /\ t.issue = sq[j].issue /\ t.nextFetch = sq[j].nextFetch
          /\ t.cache = sq[j].cache /\ t.fetching = sq[j].fetching /\ t.cur = sq[j].cur
          /\ t.ordered = sq[j].ordered /\ t.failed = sq[j].failed
          /\ t.prepared = sq[j].prepared /\ t.completions = sq[j].completions
          /\ t.kick = b
      BY <1>1 DEF Pipe
    <2> HIDE DEF t
    <2>3. QuietPipe(sq[j], t)
      BY <1>2, <2>2 DEF QuietPipe
    <2> QED BY <2>1, <2>3 DEF t
  <1>6. /\ [sq[j] EXCEPT !.kick = b, !.nextFetch = p] \in Pipe
        /\ QuietPipe(sq[j], [sq[j] EXCEPT !.kick = b, !.nextFetch = p])
    <2> DEFINE t == [sq[j] EXCEPT !.kick = b, !.nextFetch = p]
    <2>1. t \in Pipe
      BY <1>1, <1>2 DEF Pipe
    <2>2.  /\ t.live = sq[j].live /\ t.consumer = sq[j].consumer
          /\ t.target = sq[j].target /\ t.direct = sq[j].direct /\ t.busy = sq[j].busy
          /\ t.issue = sq[j].issue /\ t.nextFetch = p /\ t.cache = sq[j].cache
          /\ t.fetching = sq[j].fetching /\ t.cur = sq[j].cur
          /\ t.ordered = sq[j].ordered /\ t.failed = sq[j].failed
          /\ t.prepared = sq[j].prepared /\ t.completions = sq[j].completions
          /\ t.kick = b
      BY <1>1 DEF Pipe
    <2> HIDE DEF t
    <2>3. QuietPipe(sq[j], t)
      BY <1>2, <2>2 DEF QuietPipe
    <2> QED BY <2>1, <2>3 DEF t
  <1> QED BY <1>3, <1>4, <1>5, <1>6

\* The dispatch loop ends.
LEMMA LeaveStep ==
    ASSUME IInv, NEW j \in Jettys, LeaveSq(j)
    PROVE  IInv'
  <1>2. Running("loop", j) /\ stack' = Rest
        /\ UNCHANGED <<sq, posted, fetches, net, route, draining, faults, sent>>
    BY DEF LeaveSq
  <1>3. stack # <<>> /\ Pushed(stack', stack, 0, -1)
    BY <1>2, SameQuiet, PushedNone DEF Running
  <1>4. stack[1].op = "loop" /\ stack[1].j = j
    BY <1>2, SameQuiet, RunningTop DEF Top
  <1> QED BY <1>2, <1>3, <1>4, SameQuiet, QuietCall

\* ProcessSq is called.
LEMMA EnterStep ==
    ASSUME IInv, NEW j \in Jettys, EnterSq(j)
    PROVE  IInv'
  <1>1. Running("enter", j)
        /\ UNCHANGED <<posted, fetches, net, route, draining, faults, sent>>
    BY DEF EnterSq
  <1>2. stack # <<>> /\ stack[1].op = "enter" /\ stack[1].j = j /\ Pushed(Rest, stack, 0, -1)
    BY <1>1, SameQuiet, RunningTop, PushedNone DEF Top
  <1>3. CASE ~sq[j].live
    <2>1. stack' = Rest /\ sq' = sq
      BY <1>3 DEF EnterSq
    <2> QED BY <1>1, <1>2, <2>1, SameQuiet, QuietCall
  <1>4. CASE sq[j].live
    <2>1. /\ sq' = [sq EXCEPT ![j] = [sq[j] EXCEPT !.kick = TRUE]]
          /\ stack' = Rest \/ stack' = <<Call("loop", j)>> \o Rest
      BY <1>4 DEF EnterSq
    <2>2. /\ sq' \in [Jettys -> Pipe] /\ \A i \in Jettys : i # j => sq'[i] = sq[i]
          /\ QuietPipe(sq[j], sq'[j])
      BY <2>1, SameQuiet, MarkedQuiet, SqUpdated
    <2>3. CASE stack' = Rest
      BY <1>1, <1>2, <1>4, <2>2, <2>3, QuietCall
    <2>4. CASE stack' = <<Call("loop", j)>> \o Rest
      <3>1. Call("loop", j) \in Frame /\ Call("loop", j).op = "loop" /\ Call("loop", j).j = j
        BY CallType DEF FrameOps
      <3>2. Pushed(stack', stack, 1, 0) /\ stack'[1] = Call("loop", j)
        BY <1>2, <2>4, <3>1, SameQuiet, PushedOne
      <3>3. stack'[1].op = "loop" /\ stack'[1].j = j
        BY <3>1, <3>2
      <3>4. "loop" \notin Heads /\ "loop" \notin Claims
        BY DEF Heads, Claims
      <3> QED BY <1>1, <1>2, <1>4, <2>2, <3>2, <3>3, <3>4, QuietCall
    <2> QED BY <2>1, <2>3, <2>4
  <1> QED BY <1>3, <1>4

\* A step that leaves the stack alone while a call of jetty j runs.
LEMMA SameStack ==
    ASSUME IInv, NEW j \in Jettys, stack' = stack, stack # <<>>, stack[1].j = j,
           \A i \in Jettys : i # j => sq'[i] = sq[i],
           sq'[j].fetching = sq[j].fetching
    PROVE  /\ StackInv' /\ stack' \in Seq(Frame) /\ (Retries => Retries')
           /\ stack'[1].j = j
  <1>1. stack \in Seq(Frame) /\ StackInv
    BY DEF IInv, TypeOK
  <1>2. \A k \in DOMAIN stack : stack[k].j \in Jettys
    <2> SUFFICES ASSUME NEW k \in DOMAIN stack PROVE stack[k].j \in Jettys
      OBVIOUS
    <2>1. stack[k] \in Frame
      BY <1>1
    <2> QED BY <2>1 DEF Frame
  <1>3. \A k \in DOMAIN stack : sq'[stack[k].j].fetching = sq[stack[k].j].fetching
    BY <1>2
  <1> QED BY <1>1, <1>3 DEF StackInv, Retries

\* A step of the running call that leaves the stack alone.
LEMMA QuietSame ==
    ASSUME IInv, NEW j \in Jettys, stack' = stack, stack # <<>>, stack[1].j = j,
           stack[1].op \notin Heads,
           sq' \in [Jettys -> Pipe], \A i \in Jettys : i # j => sq'[i] = sq[i],
           QuietPipe(sq[j], sq'[j]), sq[j].live \/ sq'[j] = sq[j],
           UNCHANGED <<posted, fetches, net, route, draining, faults, sent>>
    PROVE  IInv'
  <1>1. sq'[j].fetching = sq[j].fetching
    BY DEF QuietPipe
  <1>2. StackInv' /\ stack' \in Seq(Frame) /\ (Retries => Retries') /\ stack'[1].j = j
    BY <1>1, SameStack
  <1>3. TopOK(j)'
    BY DEF TopOK, Top, Heads
  <1>4. StepOf(j)
    BY <1>2 DEF StepOf
  <1>5. TypeOK'
    BY <1>2, QuietType
  <1>6. Quiet(j) /\ Steady(j)
    BY DEF QuietPipe, Quiet, Steady
  <1> QED BY <1>2, <1>3, <1>4, <1>5, <1>6, QuietStep

\* One call pushed on the running one.
LEMMA OneCall ==
    ASSUME IInv, NEW op \in FrameOps, NEW j \in Jettys, stack # <<>>
    PROVE  /\ Pushed(<<Call(op, j)>> \o stack, stack, 1, 1)
           /\ (<<Call(op, j)>> \o stack)[1] = Call(op, j)
           /\ Pushed(<<Call(op, j)>> \o Rest, stack, 1, 0)
           /\ (<<Call(op, j)>> \o Rest)[1] = Call(op, j)
           /\ Call(op, j).op = op /\ Call(op, j).j = j
  <1>1. Call(op, j) \in Frame /\ Call(op, j).op = op /\ Call(op, j).j = j
    BY CallType
  <1>2. stack \in Seq(Frame)
    BY DEF IInv, TypeOK
  <1> QED BY <1>1, <1>2, PushedOne

\* Two calls in place of the running one.
LEMMA TwoCalls ==
    ASSUME IInv, NEW op \in FrameOps, NEW o2 \in FrameOps, NEW j \in Jettys, stack # <<>>
    PROVE  /\ Pushed(<<Call(op, j), Call(o2, j)>> \o Rest, stack, 2, 1)
           /\ (<<Call(op, j), Call(o2, j)>> \o Rest)[1] = Call(op, j)
           /\ (<<Call(op, j), Call(o2, j)>> \o Rest)[2] = Call(o2, j)
           /\ Call(op, j).op = op /\ Call(op, j).j = j
           /\ Call(o2, j).op = o2 /\ Call(o2, j).j = j
  <1>1. /\ Call(op, j) \in Frame /\ Call(op, j).op = op /\ Call(op, j).j = j
        /\ Call(o2, j) \in Frame /\ Call(o2, j).op = o2 /\ Call(o2, j).j = j
    BY CallType
  <1>2. stack \in Seq(Frame)
    BY DEF IInv, TypeOK
  <1> QED BY <1>1, <1>2, PushedTwo

\* The running call of jetty j.
LEMMA RunningCall ==
    ASSUME IInv, NEW op, NEW j, Running(op, j)
    PROVE  /\ stack # <<>> /\ stack[1].op = op /\ stack[1].j = j /\ 1 \in DOMAIN stack
           /\ stack[1].w \in 0..MaxPosts /\ Head(stack) = stack[1]
           /\ Pushed(Rest, stack, 0, -1) /\ Top(op, j)
  <1>1. stack \in Seq(Frame)
    BY DEF IInv, TypeOK
  <1> QED BY <1>1, RunningTop, PushedNone DEF Top

\* ProcessSqOnce finds the queue draining, blocked or empty, or starts to fill
\* the descriptor cache.
LEMMA ProcessQuiet ==
    ASSUME IInv, NEW j \in Jettys, ProcessSqOnce(j),
           \/ j \in draining
           \/ LET s == [sq[j] EXCEPT !.kick = FALSE] IN
              Blocked(s) \/ s.issue = s.target \/ DepthExceeded(s) \/ ~UsesDirect(s)
    PROVE  IInv'
  <1> DEFINE s == [sq[j] EXCEPT !.kick = FALSE]
  <1>1. /\ Running("loop", j) /\ sq[j].kick
        /\ UNCHANGED <<posted, fetches, net, route, draining, faults, sent>>
    BY DEF ProcessSqOnce
  <1>2. stack # <<>> /\ stack[1].op = "loop" /\ stack[1].j = j
    BY <1>1, RunningCall
  <1>3. sq[j] \in Pipe /\ sq \in [Jettys -> Pipe] /\ LiveOK(j)
    BY JettyParts
  <1>4. sq[j].live
    BY <1>1, <1>3 DEF LiveOK, NoPipe, NewPipe
  <1>5. "loop" \notin Heads /\ "maybe" \notin Heads /\ "maybe" \notin Claims
        /\ "fill" \notin Claims
    BY DEF Heads, Claims
  <1>6. CASE sq' = [sq EXCEPT ![j] = s] /\ stack' = <<Call("maybe", j)>> \o stack
    <2>1. /\ sq' \in [Jettys -> Pipe] /\ \A i \in Jettys : i # j => sq'[i] = sq[i]
          /\ QuietPipe(sq[j], sq'[j])
      BY <1>3, <1>6, MarkedQuiet, SqUpdated
    <2>2. Pushed(stack', stack, 1, 1) /\ stack'[1].op = "maybe" /\ stack'[1].j = j
      BY <1>2, <1>6, OneCall DEF FrameOps
    <2> QED BY <1>1, <1>2, <1>4, <1>5, <2>1, <2>2, QuietCall
  <1>7. CASE /\ \/ sq' = [sq EXCEPT ![j] = s]
                \/ sq' = [sq EXCEPT ![j] = [sq[j] EXCEPT !.kick = FALSE, !.direct = 0]]
             /\ stack' = stack
    <2>1. /\ sq' \in [Jettys -> Pipe] /\ \A i \in Jettys : i # j => sq'[i] = sq[i]
          /\ QuietPipe(sq[j], sq'[j])
      BY <1>3, <1>7, MarkedQuiet, SqUpdated
    <2> QED BY <1>1, <1>2, <1>4, <1>5, <1>7, <2>1, QuietSame
  <1>8. CASE /\ \E p \in Nat : sq' = [sq EXCEPT ![j] =
                                     [sq[j] EXCEPT !.kick = FALSE, !.nextFetch = p]]
             /\ stack' = <<Call("fill", j)>> \o stack
             /\ ~Blocked(s) /\ ~DepthExceeded(s)
    <2>1. /\ sq' \in [Jettys -> Pipe] /\ \A i \in Jettys : i # j => sq'[i] = sq[i]
          /\ QuietPipe(sq[j], sq'[j])
      BY <1>3, <1>8, MarkedQuiet, SqUpdated
    <2>2. Pushed(stack', stack, 1, 1) /\ stack'[1].op = "fill" /\ stack'[1].j = j
      BY <1>2, <1>8, OneCall DEF FrameOps
    <2>3. /\ s.fetching = sq[j].fetching /\ s.ordered = sq[j].ordered
          /\ s.target = sq[j].target /\ s.consumer = sq[j].consumer
      BY <1>3 DEF Pipe
    <2>4. /\ sq[j].fetching = "no" /\ ~sq[j].ordered
          /\ ~(sq[j].target - sq[j].consumer > Depth)
      BY <1>8, <2>3 DEF Blocked, DepthExceeded
    <2>5. /\ sq[j].target \in Nat /\ sq[j].consumer \in Nat /\ Depth \in Nat
          /\ sq'[j].target \in Nat /\ sq'[j].target = sq[j].target
      <3>1. sq'[j].target = sq[j].target
        <4>1. PICK p \in Nat : sq' = [sq EXCEPT ![j] =
                                     [sq[j] EXCEPT !.kick = FALSE, !.nextFetch = p]]
          BY <1>8
        <4>2. sq'[j] = [sq[j] EXCEPT !.kick = FALSE, !.nextFetch = p]
          BY <1>3, <4>1
        <4> QED BY <1>3, <4>2 DEF Pipe
      <3> QED BY <1>3, <3>1, PipeFields, SizeAssumption
    <2>6. sq'[j].target <= sq'[j].consumer + Depth
      BY <2>1, <2>4, <2>5 DEF QuietPipe
    <2>7. TopOK(j)'
      BY <2>1, <2>2, <2>4, <2>6 DEF TopOK, Top, QuietPipe
    <2> QED BY <1>1, <1>2, <1>4, <1>5, <2>1, <2>2, <2>7, QuietCall
  <1>9. sq[j].nextFetch \in Nat /\ sq[j].issue \in Nat
    BY <1>3, PipeFields
  <1> QED
    <2>1. CASE j \in draining
      BY <2>1, <1>6 DEF ProcessSqOnce
    <2>2. CASE j \notin draining /\ (Blocked(s) \/ s.issue = s.target \/ DepthExceeded(s))
      <3>1. [s EXCEPT !.direct = 0] = [sq[j] EXCEPT !.kick = FALSE, !.direct = 0]
        OBVIOUS
      <3> QED BY <2>2, <3>1, <1>7 DEF ProcessSqOnce
    <2>3. CASE /\ j \notin draining /\ ~Blocked(s) /\ s.issue # s.target
               /\ ~DepthExceeded(s) /\ ~UsesDirect(s)
      <3>1. /\ sq' = [sq EXCEPT ![j] =
                       [s EXCEPT !.nextFetch = IF @ < s.issue THEN s.issue ELSE @]]
            /\ stack' = <<Call("fill", j)>> \o stack
        BY <2>3 DEF ProcessSqOnce
      <3>2. s.issue = sq[j].issue /\ s.nextFetch = sq[j].nextFetch
        BY <1>3 DEF Pipe
      <3>3. \E p \in Nat : p = IF sq[j].nextFetch < sq[j].issue THEN sq[j].issue
                               ELSE sq[j].nextFetch
        BY <1>9
      <3>4. PICK p \in Nat : p = IF sq[j].nextFetch < sq[j].issue THEN sq[j].issue
                                 ELSE sq[j].nextFetch
        BY <3>3
      <3>5. sq' = [sq EXCEPT ![j] = [s EXCEPT !.nextFetch = p]]
        BY <3>1, <3>2, <3>4
      <3>6. sq' = [sq EXCEPT ![j] = [sq[j] EXCEPT !.kick = FALSE, !.nextFetch = p]]
        BY <3>5
      <3> QED BY <2>3, <3>1, <3>6, <1>8
    <2> QED BY <2>1, <2>2, <2>3

\* A jetty with anything to do is live.
LEMMA LiveFacts ==
    ASSUME IInv, NEW j \in Jettys
    PROVE  /\ sq[j].kick => sq[j].live
           /\ sq[j].fetching # "no" => sq[j].live
           /\ sq[j].completions # <<>> => sq[j].live
           /\ sq[j].prepared # <<>> => sq[j].live
           /\ sq[j].cache # {} => sq[j].live
           /\ sq[j].target # 0 => sq[j].live
           /\ \A r \in net : r.j = j => sq[j].live
           /\ \A f \in fetches : f.j = j => sq[j].live
  <1>1. LiveOK(j)
    BY JettyParts
  <1>2. CASE sq[j].live
    BY <1>2
  <1>3. CASE ~sq[j].live
    <2>1. /\ sq[j] = NoPipe(sq[j].gen)
          /\ \A r \in net : r.j # j
          /\ \A f \in fetches : f.j # j
      BY <1>1, <1>3 DEF LiveOK
    <2>2. \A g : /\ NoPipe(g).kick = FALSE /\ NoPipe(g).fetching = "no"
                 /\ NoPipe(g).completions = <<>> /\ NoPipe(g).prepared = <<>>
                 /\ NoPipe(g).cache = {} /\ NoPipe(g).target = 0
      BY DEF NoPipe, NewPipe
    <2> HIDE DEF NoPipe
    <2> QED BY <2>1, <2>2
  <1> QED BY <1>2, <1>3

\* The running call of a WQE is replaced by calls of which one keeps its claim.
LEMMA ClaimStack ==
    ASSUME IInv, NEW j \in Jettys, stack # <<>>, Holds(1, j),
           NEW n \in 1..3, NEW d \in 0..2, d = n - 1, Pushed(stack', stack, n, d),
           \A k \in 1..n : stack'[k].op \notin Heads /\ stack'[k].j = j,
           \A k, m \in 1..n : stack'[k].op \in Claims /\ stack'[m].op \in Claims => k = m,
           \A i \in Jettys : i # j => sq'[i] = sq[i],
           \/ sq'[j].fetching = "sync"
           \/ \A k \in 1..n : stack'[k].op \notin Claims
    PROVE  /\ StackInv' /\ stack' \in Seq(Frame) /\ (Retries => Retries')
           /\ stack' # <<>> /\ stack'[1].op \notin Heads
  <1>1. \A m \in DOMAIN stack : m > 1 => ~Holds(m, j)
    BY NoClaim
  <1>2. n \in 0..3 /\ d \in Int /\ n - d = 1
    OBVIOUS
  <1>3. StackInv'
    BY <1>1, <1>2, StackStep
  <1>4. stack[1].op \notin {"maybe", "drain"}
    BY DEF Holds, Claims
  <1>5. Retries => Retries'
    BY <1>2, <1>4, RetriesKept
  <1>6. stack' \in Seq(Frame) /\ Len(stack') = Len(stack) + n - 1 /\ stack \in Seq(Frame)
    BY DEF Pushed, IInv, TypeOK
  <1>7. stack' # <<>>
    BY <1>6
  <1> QED BY <1>3, <1>5, <1>6, <1>7

\* The WQE is rejected and the SQ stops.
LEMMA HandleFailsStep ==
    ASSUME IInv, NEW j \in Jettys, HandleFails(j)
    PROVE  IInv'
  <1>1. /\ Running("handle", j)
        /\ sq' = [sq EXCEPT ![j] = [sq[j] EXCEPT !.failed = TRUE]]
        /\ stack' = <<Call("release", j), Call("maybe", j)>> \o Rest
        /\ UNCHANGED <<posted, fetches, net, route, draining, faults, sent>>
    BY DEF HandleFails
  <1>2. stack # <<>> /\ Holds(1, j)
    BY <1>1, RunningCall DEF Holds, Claims
  <1>3. /\ sq' \in [Jettys -> Pipe] /\ \A i \in Jettys : i # j => sq'[i] = sq[i]
        /\ QuietPipe(sq[j], sq'[j])
    BY <1>1, JettyParts, MarkedQuiet, SqUpdated
  <1>4. /\ Pushed(stack', stack, 2, 1)
        /\ stack'[1].op = "release" /\ stack'[1].j = j
        /\ stack'[2].op = "maybe" /\ stack'[2].j = j
    <2>1. "release" \in FrameOps /\ "maybe" \in FrameOps
      BY DEF FrameOps
    <2>2. /\ Pushed(<<Call("release", j), Call("maybe", j)>> \o Rest, stack, 2, 1)
          /\ (<<Call("release", j), Call("maybe", j)>> \o Rest)[1] = Call("release", j)
          /\ (<<Call("release", j), Call("maybe", j)>> \o Rest)[2] = Call("maybe", j)
          /\ Call("release", j).op = "release" /\ Call("release", j).j = j
          /\ Call("maybe", j).op = "maybe" /\ Call("maybe", j).j = j
      BY <1>2, <2>1, TwoCalls
    <2> QED BY <1>1, <2>2
  <1>5. sq[j].fetching = "sync" /\ sq'[j].fetching = "sync" /\ sq[j].live
    <2>1. sq[j].fetching = "sync"
      BY <1>2, NoClaim
    <2> QED BY <1>3, <2>1, LiveFacts DEF QuietPipe
  <1>6. /\ StackInv' /\ stack' \in Seq(Frame) /\ (Retries => Retries')
        /\ stack' # <<>> /\ stack'[1].op \notin Heads
    BY <1>2, <1>3, <1>4, <1>5, ClaimStack DEF Heads, Claims
  <1>7. TopOK(j)'
    BY <1>6 DEF TopOK, Top, Heads
  <1>8. StepOf(j)
    BY <1>1, <1>3, <1>6 DEF StepOf
  <1>9. TypeOK'
    BY <1>1, <1>3, <1>6, QuietType
  <1>10. Quiet(j) /\ Steady(j)
    BY <1>1, <1>3 DEF QuietPipe, Quiet, Steady
  <1> QED BY <1>1, <1>5, <1>6, <1>7, <1>8, <1>9, <1>10, QuietStep

\* The WQE is given back.
LEMMA HandleWaitsStep ==
    ASSUME IInv, NEW j \in Jettys, HandleWaits(j)
    PROVE  IInv'
  <1>1. /\ Running("handle", j) /\ stack' = <<Call("release", j)>> \o Rest
        /\ UNCHANGED <<sq, posted, fetches, net, route, draining, faults, sent>>
    BY DEF HandleWaits
  <1>2. stack # <<>> /\ Holds(1, j)
    BY <1>1, RunningCall DEF Holds, Claims
  <1>4. /\ Pushed(stack', stack, 1, 0)
        /\ stack'[1].op = "release" /\ stack'[1].j = j
    BY <1>1, <1>2, OneCall DEF FrameOps
  <1>5. sq[j].fetching = "sync" /\ sq'[j].fetching = "sync"
    BY <1>1, <1>2, NoClaim
  <1>6. /\ StackInv' /\ stack' \in Seq(Frame) /\ (Retries => Retries')
        /\ stack' # <<>> /\ stack'[1].op \notin Heads
    BY <1>1, <1>2, <1>4, <1>5, ClaimStack DEF Heads, Claims
  <1>7. TopOK(j)'
    BY <1>6 DEF TopOK, Top, Heads
  <1>8. StepOf(j)
    BY <1>1, <1>6 DEF StepOf
  <1>9. TypeOK'
    BY <1>1, <1>6, SameQuiet, QuietType
  <1>10. Quiet(j) /\ Steady(j)
    BY <1>1, SameQuiet DEF QuietPipe, Quiet, Steady
  <1> QED BY <1>1, <1>6, <1>7, <1>8, <1>9, <1>10, QuietStep

----------------------------------------------------------------------------
(* Steps that read descriptors *)

\* A set of numbers up to n has a largest element.
LEMMA Largest ==
    ASSUME NEW n \in Nat, NEW S \in SUBSET (0..n), NEW x \in S
    PROVE  \E m \in S : \A y \in S : y <= m
  <1> DEFINE T == {n - y : y \in S}
  <1>1. T \subseteq Nat /\ n - x \in T
    OBVIOUS
  <1>2. PICK t \in T : \A u \in T : ~(<<u, t>> \in OpToRel(<, Nat))
    BY <1>1, NatLessThanWellFounded, WFMin
  <1>3. \A u \in T : ~(u < t)
    BY <1>1, <1>2 DEF OpToRel
  <1>4. PICK m \in S : t = n - m
    BY <1>2
  <1>5. \A y \in S : y <= m
    <2> SUFFICES ASSUME NEW y \in S PROVE y <= m
      OBVIOUS
    <2>1. n - y \in T
      OBVIOUS
    <2>2. ~(n - y < n - m)
      BY <2>1, <1>3, <1>4
    <2> QED BY <2>2
  <1> QED BY <1>4, <1>5

\* A posted WQE.
LEMMA WqeFacts ==
    ASSUME IInv, NEW j \in Jettys, NEW w \in DOMAIN posted[j]
    PROVE  /\ posted[j][w] \in Wqe /\ posted[j][w].kind \in Kinds
           /\ posted[j][w].start \in Nat
           /\ posted[j][w].kind.bb \in Nat \ {0} /\ posted[j][w].kind.bb <= Depth
           /\ posted[j][w].kind.ordered \in BOOLEAN
           /\ w \in Numbers /\ w \in 1..Len(posted[j]) /\ Len(posted[j]) \in Nat
  <1>1. posted[j] \in Seq(Wqe) /\ Len(posted[j]) <= MaxPosts
    BY JettyParts DEF PostedOK
  <1>2. posted[j][w] \in Wqe
    BY <1>1
  <1>3. posted[j][w].kind \in Kinds /\ posted[j][w].start \in Nat
    BY <1>2 DEF Wqe
  <1>4. posted[j][w].kind \in Kind /\ posted[j][w].kind.bb <= Depth
    BY <1>3, KindAssumption
  <1>5. posted[j][w].kind.bb \in Nat \ {0} /\ posted[j][w].kind.ordered \in BOOLEAN
    BY <1>4 DEF Kind
  <1>6. w \in Numbers /\ w \in 1..Len(posted[j]) /\ Len(posted[j]) \in Nat
    BY <1>1, LimitAssumption DEF Numbers
  <1> QED BY <1>2, <1>3, <1>4, <1>5, <1>6

\* WQE v of jetty j has a WQEBB in the ring slot of position p.
InSlot(j, v, p) ==
    \E q \in posted[j][v].start..(EndOf(j, v) - 1) : q % Depth = p % Depth

\* The ring slot of any position holds a WQE that was posted, or none.
LEMMA InRingType ==
    ASSUME IInv, NEW j \in Jettys, NEW p
    PROVE  InRing(j, p) \in 0..Len(posted[j])
  <1> DEFINE S == {w \in 1..Len(posted[j]) : InSlot(j, w, p)}
             P(w) == \/ /\ w > 0
                        /\ InSlot(j, w, p)
                        /\ \A v \in (w + 1)..Len(posted[j]) : ~InSlot(j, v, p)
                     \/ /\ w = 0
                        /\ \A v \in 1..Len(posted[j]) : ~InSlot(j, v, p)
  <1>1. Len(posted[j]) \in Nat
    BY JettyParts
  <1>2. \E w \in 0..Len(posted[j]) : P(w)
    <2>1. CASE S = {}
      BY <1>1, <2>1
    <2>2. CASE S # {}
      <3>1. PICK x \in S : TRUE
        BY <2>2
      <3>2. S \in SUBSET (0..Len(posted[j]))
        BY <1>1
      <3>3. PICK m \in S : \A y \in S : y <= m
        BY <1>1, <3>1, <3>2, Largest
      <3>4. P(m)
        BY <1>1, <3>3
      <3> QED BY <1>1, <3>3, <3>4
    <2> QED BY <2>1, <2>2
  <1>3. InRing(j, p) = CHOOSE w \in 0..Len(posted[j]) : P(w)
    BY DEF InRing, InSlot
  <1> QED BY <1>2, <1>3

\* The smallest of four positive numbers is one of them.
LEMMA SmallestOfFour ==
    ASSUME NEW a \in Nat \ {0}, NEW b \in Nat \ {0}, NEW c \in Nat \ {0},
           NEW d \in Nat \ {0}
    PROVE  /\ Smallest({a, b, c, d}) \in Nat \ {0}
           /\ Smallest({a, b, c, d}) <= a
  <1>1. \E n \in {a, b, c, d} : \A m \in {a, b, c, d} : n <= m
    OBVIOUS
  <1>2. /\ Smallest({a, b, c, d}) \in {a, b, c, d}
        /\ \A m \in {a, b, c, d} : Smallest({a, b, c, d}) <= m
    BY <1>1 DEF Smallest
  <1> QED BY <1>2

\* A ring slot is below the depth.
LEMMA ModRange ==
    ASSUME NEW a \in Int, NEW b \in Nat \ {0}
    PROVE  a % b \in 0..(b - 1)
  OBVIOUS

\* A fetch that is possible reads at least one WQEBB and none beyond the doorbell.
LEMMA FetchSizeType ==
    ASSUME IInv, NEW j \in Jettys, CanFetch(j)
    PROVE  /\ FetchSize(sq[j]) \in Nat \ {0}
           /\ sq[j].nextFetch + FetchSize(sq[j]) <= sq[j].target
           /\ sq[j].target # 0
  <1>1. /\ sq[j].nextFetch \in Nat /\ sq[j].target \in Nat /\ Depth \in Nat \ {0}
        /\ Burst \in Nat \ {0} /\ Prefetch \in Nat \ {0}
    BY JettyParts, PipeFields, SizeAssumption
  <1>2. Available(sq[j]) \in Nat \ {0}
    BY <1>1 DEF CanFetch
  <1>3. sq[j].nextFetch % Depth \in 0..(Depth - 1)
    BY <1>1
  <1>4. Depth - (sq[j].nextFetch % Depth) \in Nat \ {0}
    BY <1>1, <1>3
  <1>5. Room(sq[j]) \in Nat \ {0}
    <2>1. IsFiniteSet(sq[j].cache)
      BY JettyParts DEF PostedOK
    <2>2. Cardinality(sq[j].cache) \in Nat
      BY <2>1, FS_CardinalityType
    <2>3. Prefetch - Cardinality(sq[j].cache) > 0
      BY DEF CanFetch, Room
    <2> QED BY <1>1, <2>2, <2>3 DEF Room
  <1>6. /\ FetchSize(sq[j]) \in Nat \ {0}
        /\ FetchSize(sq[j]) <= Available(sq[j])
    BY <1>1, <1>2, <1>4, <1>5, SmallestOfFour DEF FetchSize
  <1> QED BY <1>1, <1>6 DEF Available

\* A WQE still fits when the window stays.
LEMMA FitsKept ==
    ASSUME IInv, NEW j \in Jettys, sq'[j] \in Pipe, Quiet(j), NEW w, Fits(j, w)
    PROVE  Fits(j, w)'
  <1>1. posted[j][w].kind.bb \in Nat \ {0}
    BY WqeFacts DEF Fits
  <1>2. /\ sq[j].target \in Nat /\ sq'[j].target \in Nat /\ sq[j].issue \in Nat
        /\ sq[j].consumer \in Nat
    BY JettyParts, PipeFields
  <1> QED BY <1>1, <1>2 DEF Fits, Quiet

\* A step that reads descriptors or payload.
LEMMA ReadStep ==
    ASSUME IInv, NEW j \in Jettys, StepOf(j), TypeOK', StackInv', TopOK(j)',
           Quiet(j), draining' = draining, sq[j].live, Retries => Retries',
           BusyOK(j)', PostedOK(j)', ReadOK(j)',
           sq[j].busy => sq'[j].busy \/ Retries'
    PROVE  IInv'
  <1>1. sq'[j] \in Pipe
    BY DEF TypeOK
  <1>2. LiveOK(j)'
    BY DEF LiveOK, Quiet
  <1>3. ResourceQueueBusy(j) => ResourceQueueBusy(j)' \/ Retries'
    BY DEF ResourceQueueBusy, Quiet, IsRma
  <1>4. DestroyInv'
    BY <1>3, DestroyStep DEF Quiet
  <1> QED BY <1>1, <1>2, <1>4, QuietParts, StepInv

\* A call of HandleSqWqe on top of the stack.
LEMMA HandleTop ==
    ASSUME NEW j \in Jettys, NEW w, stack'[1].op = "handle", stack'[1].w = w,
           Fits(j, w)', ~sq'[j].ordered
    PROVE  TopOK(j)'
  BY DEF TopOK, Top, Fits

\* The claim of a jetty is taken: HandleSqWqe is called.
LEMMA TakenStack ==
    ASSUME IInv, NEW j \in Jettys, NEW w \in 0..MaxPosts, sq[j].fetching # "sync",
           \/ stack' = <<CallWith("handle", j, w)>> \o stack
              /\ (stack # <<>> => stack[1].op \notin Heads)
           \/ stack # <<>> /\ stack[1].op \notin {"maybe", "drain"}
              /\ stack' = <<CallWith("handle", j, w)>> \o Rest
           \/ Idle /\ stack' = <<CallWith("handle", j, w)>>,
           \A i \in Jettys : i # j => sq'[i] = sq[i],
           sq'[j].fetching = "sync"
    PROVE  /\ StackInv' /\ stack' \in Seq(Frame) /\ (Retries => Retries')
           /\ stack' # <<>> /\ stack'[1].op = "handle" /\ stack'[1].j = j
           /\ stack'[1].w = w
  <1> DEFINE a == CallWith("handle", j, w)
  <1>1. a \in Frame /\ a.op = "handle" /\ a.j = j /\ a.w = w
    BY CallWithType DEF FrameOps
  <1>2. stack \in Seq(Frame)
    BY DEF IInv, TypeOK
  <1> HIDE DEF a
  <1>3. \E d \in {0, 1} :
           /\ Pushed(stack', stack, 1, d) /\ stack'[1] = a
           /\ d = 1 /\ stack # <<>> => stack[1].op \notin Heads
           /\ d = 0 => stack # <<>> /\ stack[1].op \notin {"maybe", "drain"}
    <2>1. CASE stack' = <<a>> \o stack /\ (stack # <<>> => stack[1].op \notin Heads)
      BY <1>1, <1>2, <2>1, PushedOne
    <2>2. CASE /\ stack # <<>> /\ stack[1].op \notin {"maybe", "drain"}
               /\ stack' = <<a>> \o Rest
      BY <1>1, <1>2, <2>2, PushedOne
    <2>3. CASE Idle /\ stack' = <<a>>
      BY <1>1, <1>2, <2>3, PushedIdle DEF Idle
    <2> QED BY <2>1, <2>2, <2>3 DEF a
  <1>4. PICK d \in {0, 1} :
           /\ Pushed(stack', stack, 1, d) /\ stack'[1] = a
           /\ d = 1 /\ stack # <<>> => stack[1].op \notin Heads
           /\ d = 0 => stack # <<>> /\ stack[1].op \notin {"maybe", "drain"}
    BY <1>3
  <1>5. \A m \in DOMAIN stack : ~Holds(m, j)
    BY NoClaim
  <1>6. d \in Int /\ 1 - d \in {0, 1} /\ 1 \in 0..3
    OBVIOUS
  <1>7. StackInv'
    BY <1>1, <1>4, <1>5, <1>6, StackStep
  <1>8. Retries => Retries'
    BY <1>4, <1>6, RetriesKept
  <1>9. stack' \in Seq(Frame) /\ Len(stack') >= 1
    BY <1>2, <1>4 DEF Pushed
  <1> QED BY <1>1, <1>4, <1>7, <1>8, <1>9

\* ProcessSqOnce hands over the direct WQE.
LEMMA ProcessDirect ==
    ASSUME IInv, NEW j \in Jettys, ProcessSqOnce(j), j \notin draining,
           LET s == [sq[j] EXCEPT !.kick = FALSE] IN
           ~Blocked(s) /\ s.issue # s.target /\ ~DepthExceeded(s) /\ UsesDirect(s)
    PROVE  IInv'
  <1> DEFINE s == [sq[j] EXCEPT !.kick = FALSE]
  <1>p. /\ sq \in [Jettys -> Pipe] /\ sq[j] \in Pipe /\ posted[j] \in Seq(Wqe)
        /\ stack \in Seq(Frame)
    BY JettyParts
  <1>1. /\ Running("loop", j) /\ sq[j].kick
        /\ UNCHANGED <<posted, fetches, net, route, draining, faults, sent>>
    BY DEF ProcessSqOnce
  <1>2. stack # <<>> /\ stack[1].op = "loop" /\ stack[1].j = j /\ "loop" \notin Heads
    BY <1>1, RunningCall DEF Heads
  <1>3. /\ s.fetching = sq[j].fetching /\ s.ordered = sq[j].ordered
        /\ s.target = sq[j].target /\ s.consumer = sq[j].consumer
        /\ s.direct = sq[j].direct /\ s.issue = sq[j].issue
    BY <1>p DEF Pipe
  <1>4. /\ sq' = [sq EXCEPT ![j] = [s EXCEPT !.busy = TRUE, !.fetching = "sync",
                                            !.direct = 0]]
        /\ stack' = <<CallWith("handle", j, s.direct)>> \o stack
    BY DEF ProcessSqOnce
  <1>t. 0 \in 0..MaxPosts
    BY LimitAssumption
  <1>5a. sq' = [sq EXCEPT ![j] = [sq[j] EXCEPT !.kick = FALSE, !.busy = TRUE, !.fetching = "sync", !.direct = 0]]
    BY <1>4
  <1>5b. [sq[j] EXCEPT !.kick = FALSE, !.busy = TRUE, !.fetching = "sync", !.direct = 0] \in Pipe
    BY <1>p, <1>t DEF Pipe
  <1>5c. /\ sq' \in [Jettys -> Pipe] /\ sq'[j] \in Pipe
       /\ sq'[j] = [sq[j] EXCEPT !.kick = FALSE, !.busy = TRUE, !.fetching = "sync", !.direct = 0]
       /\ \A i \in Jettys : i # j => sq'[i] = sq[i]
    BY <1>p, <1>5a, <1>5b, SqUpdated
  <1>5d. /\ sq'[j].live = sq[j].live /\ sq'[j].consumer = sq[j].consumer
       /\ sq'[j].target = sq[j].target /\ sq'[j].direct = 0 /\ sq'[j].busy = TRUE
       /\ sq'[j].issue = sq[j].issue /\ sq'[j].nextFetch = sq[j].nextFetch
       /\ sq'[j].cache = sq[j].cache /\ sq'[j].fetching = "sync"
       /\ sq'[j].cur = sq[j].cur /\ sq'[j].ordered = sq[j].ordered
       /\ sq'[j].failed = sq[j].failed /\ sq'[j].prepared = sq[j].prepared
       /\ sq'[j].completions = sq[j].completions /\ sq'[j].kick = FALSE
    BY <1>p, <1>5c DEF Pipe
  <1>6. sq[j].fetching = "no" /\ ~sq[j].ordered
        /\ ~(sq[j].target - sq[j].consumer > Depth)
        /\ sq[j].direct # 0 /\ sq[j].issue + 1 = sq[j].target
    BY <1>3 DEF Blocked, DepthExceeded, UsesDirect
  <1>7. /\ sq[j].target \in Nat /\ sq[j].consumer \in Nat /\ Depth \in Nat
        /\ sq[j].direct \in 0..MaxPosts /\ sq[j].issue \in Nat
    BY <1>p, PipeFields, SizeAssumption
  <1>8. Quiet(j)
    BY <1>1, <1>5d, <1>7 DEF Quiet
  <1>9. /\ StackInv' /\ stack' \in Seq(Frame) /\ (Retries => Retries')
        /\ stack' # <<>> /\ stack'[1].op = "handle" /\ stack'[1].j = j
        /\ stack'[1].w = sq[j].direct
    BY <1>2, <1>3, <1>4, <1>5c, <1>5d, <1>6, <1>7, TakenStack, SMTT(30)
  <1>10. PICK w \in 0..MaxPosts : w = sq[j].direct
    BY <1>7
  <1>11. Fits(j, w)'
    <2>1. sq[j].direct \in DOMAIN posted[j] /\ posted[j][sq[j].direct].kind.bb = 1
      BY <1>6, JettyParts DEF PostedOK
    <2>2. Fits(j, w)
      BY <1>6, <1>7, <1>10, <2>1 DEF Fits
    <2> QED BY <1>5c, <1>8, <2>2, FitsKept
  <1>12. TopOK(j)'
    BY <1>5d, <1>6, <1>9, <1>10, <1>11, HandleTop
  <1>13. StepOf(j)
    BY <1>1, <1>5c, <1>9 DEF StepOf
  <1>14. TypeOK'
    BY <1>1, <1>5c, <1>9, QuietType
  <1>15. sq[j].live
    BY <1>1, LiveFacts
  <1>16. BusyOK(j)' /\ PostedOK(j)' /\ ReadOK(j)'
    <2>1. PostedOK(j)
      BY JettyParts
    <2> QED BY <1>1, <1>5d, <2>1 DEF BusyOK, PostedOK, ReadOK
  <1> QED BY <1>1, <1>5d, <1>8, <1>9, <1>12, <1>13, <1>14, <1>15, <1>16, ReadStep

\* A descriptor DMA is issued, or the decoder is called.
LEMMA FillStep ==
    ASSUME IInv, NEW j \in Jettys, FillSqCache(j)
    PROVE  IInv'
  <1>p. /\ sq \in [Jettys -> Pipe] /\ sq[j] \in Pipe /\ posted[j] \in Seq(Wqe)
        /\ stack \in Seq(Frame)
    BY JettyParts
  <1>1. /\ Running("fill", j)
        /\ UNCHANGED <<posted, net, route, draining, faults, sent>>
    BY DEF FillSqCache
  <1>2. stack # <<>> /\ stack[1].op = "fill" /\ stack[1].j = j
    BY <1>1, RunningCall
  <1>3. sq[j].fetching = "no" /\ ~sq[j].ordered /\ sq[j].target <= sq[j].consumer + Depth
    BY <1>2, JettyParts DEF TopOK, Top
  <1>4. CASE ~CanFetch(j)
    <2>1. /\ stack' = <<Call("decode", j)>> \o Rest /\ sq' = sq /\ fetches' = fetches
      BY <1>4 DEF FillSqCache
    <2>2. Pushed(stack', stack, 1, 0) /\ stack'[1].op = "decode" /\ stack'[1].j = j
      BY <1>2, <2>1, OneCall DEF FrameOps
    <2>3. TopOK(j)'
      BY <1>3, <2>1, <2>2 DEF TopOK, Top
    <2>4. "decode" \notin Claims
      BY DEF Claims
    <2> QED BY <1>1, <1>2, <2>1, <2>2, <2>3, <2>4, SameQuiet, QuietCall
  <1>5. CASE CanFetch(j)
    <2> DEFINE n == FetchSize(sq[j])
               new == {[at |-> sq[j].nextFetch + i, w |-> 0] : i \in 0..(n - 1)}
               f == [j |-> j, gen |-> sq[j].gen, start |-> sq[j].nextFetch, count |-> n]
    <2>1. /\ sq' = [sq EXCEPT ![j].nextFetch = @ + n, ![j].busy = TRUE,
                              ![j].cache = @ \cup new]
          /\ fetches' = fetches \cup {f}
          /\ stack' = stack
      BY <1>5 DEF FillSqCache
    <2>2. /\ n \in Nat \ {0} /\ sq[j].target # 0 /\ sq[j].nextFetch \in Nat
          /\ sq[j].gen \in 0..MaxGen /\ sq[j].cache \subseteq Cached
          /\ sq[j].target \in Nat
      BY <1>5, <1>p, FetchSizeType, PipeFields
    <2>3. new \subseteq Cached /\ \A c \in new : c.w = 0
      BY <2>2, LimitAssumption DEF Cached
    <2>4. f \in Fetch /\ f.j = j
      BY <2>2 DEF Fetch
    <2>5. IsFiniteSet(new)
      <3>1. IsFiniteSet(0..(n - 1))
        BY <2>2, FS_Interval
      <3>2. [i \in 0..(n - 1) |-> [at |-> sq[j].nextFetch + i, w |-> 0]]
               \in Surjection(0..(n - 1), new)
        BY DEF Surjection
      <3> QED BY <3>1, <3>2, FS_Surjection
    <2>6. IsFiniteSet(sq[j].cache \cup new)
      BY <2>5, JettyParts, FS_Union DEF PostedOK
    <2>7. sq[j].nextFetch + n \in Nat /\ sq[j].cache \cup new \in SUBSET Cached
      BY <2>2, <2>3
    <2> HIDE DEF n, new, f
    <2>8a. sq' = [sq EXCEPT ![j] = [sq[j] EXCEPT !.nextFetch = sq[j].nextFetch + n, !.busy = TRUE, !.cache = sq[j].cache \cup new]]
      BY <2>1
    <2>8b. [sq[j] EXCEPT !.nextFetch = sq[j].nextFetch + n, !.busy = TRUE, !.cache = sq[j].cache \cup new] \in Pipe
      BY <1>p, <2>7 DEF Pipe
    <2>8c. /\ sq' \in [Jettys -> Pipe] /\ sq'[j] \in Pipe
         /\ sq'[j] = [sq[j] EXCEPT !.nextFetch = sq[j].nextFetch + n, !.busy = TRUE, !.cache = sq[j].cache \cup new]
         /\ \A i \in Jettys : i # j => sq'[i] = sq[i]
      BY <1>p, <2>8a, <2>8b, SqUpdated
    <2>8d. /\ sq'[j].live = sq[j].live /\ sq'[j].consumer = sq[j].consumer
         /\ sq'[j].target = sq[j].target /\ sq'[j].direct = sq[j].direct
         /\ sq'[j].busy = TRUE /\ sq'[j].issue = sq[j].issue
         /\ sq'[j].nextFetch = sq[j].nextFetch + n
         /\ sq'[j].cache = sq[j].cache \cup new /\ sq'[j].fetching = sq[j].fetching
         /\ sq'[j].cur = sq[j].cur /\ sq'[j].ordered = sq[j].ordered
         /\ sq'[j].failed = sq[j].failed /\ sq'[j].prepared = sq[j].prepared
         /\ sq'[j].completions = sq[j].completions /\ sq'[j].kick = sq[j].kick
      BY <1>p, <2>8c DEF Pipe
    <2>9. Quiet(j)
      BY <1>1, <2>2, <2>8d DEF Quiet
    <2>10. StackInv' /\ stack' \in Seq(Frame) /\ (Retries => Retries') /\ stack'[1].j = j
      BY <1>2, <2>1, <2>8c, <2>8d, SameStack
    <2>11. TypeOK'
      <3>1. fetches' \subseteq Fetch
        BY <2>1, <2>4, JettyParts
      <3> QED BY <1>1, <2>8c, <2>10, <3>1 DEF IInv, TypeOK
    <2>12. TopOK(j)'
      BY <1>2, <1>3, <2>1, <2>8d DEF TopOK, Top
    <2>13. StepOf(j)
      BY <1>1, <2>1, <2>4, <2>8c, <2>10 DEF StepOf
    <2>14. BusyOK(j)' /\ PostedOK(j)' /\ ReadOK(j)'
      <3>1. BusyOK(j)' /\ ReadOK(j)'
        BY <1>3, <2>8d DEF BusyOK, ReadOK
      <3>2. PostedOK(j) /\ Len(posted[j]) \in Nat
        BY <1>p, JettyParts
      <3>3. \A c \in sq[j].cache \cup new : c.w <= Len(posted[j])
        BY <2>3, <3>2 DEF PostedOK
      <3>4. PostedOK(j)'
        BY <1>1, <2>6, <2>8d, <3>2, <3>3 DEF PostedOK
      <3> QED BY <3>1, <3>4
    <2>15. sq[j].live
      BY <2>2, LiveFacts
    <2> QED BY <1>1, <2>8d, <2>9, <2>10, <2>11, <2>12, <2>13, <2>14, <2>15, ReadStep
  <1> QED BY <1>4, <1>5

\* The head of the cache is missing, torn, incomplete, or taken.
LEMMA DecodeStep ==
    ASSUME IInv, NEW j \in Jettys, DecodeHead(j)
    PROVE  IInv'
  <1>p. /\ sq \in [Jettys -> Pipe] /\ sq[j] \in Pipe /\ posted[j] \in Seq(Wqe)
        /\ stack \in Seq(Frame)
    BY JettyParts
  <1>1. /\ Running("decode", j)
        /\ UNCHANGED <<posted, fetches, net, route, draining, faults, sent>>
    BY DEF DecodeHead
  <1>2. /\ stack # <<>> /\ stack[1].op = "decode" /\ stack[1].j = j
        /\ Pushed(Rest, stack, 0, -1)
    BY <1>1, RunningCall
  <1>3. sq[j].fetching = "no" /\ ~sq[j].ordered /\ sq[j].target <= sq[j].consumer + Depth
    BY <1>2, JettyParts DEF TopOK, Top
  <1>4. CASE stack' = Rest /\ sq' = sq
    BY <1>1, <1>2, <1>4, SameQuiet, QuietCall
  <1>5. CASE /\ \E c \in sq[j].cache : TRUE
             /\ stack' = Rest /\ sq' = [sq EXCEPT ![j] = [sq[j] EXCEPT !.failed = TRUE]]
    <2>1. /\ sq' \in [Jettys -> Pipe] /\ \A i \in Jettys : i # j => sq'[i] = sq[i]
          /\ QuietPipe(sq[j], sq'[j])
      BY <1>5, <1>p, MarkedQuiet, SqUpdated
    <2>2. sq[j].live
      BY <1>5, LiveFacts
    <2>3. Pushed(stack', stack, 0, -1)
      BY <1>2, <1>5
    <2> QED BY <1>1, <1>2, <2>1, <2>2, <2>3, QuietCall
  <1>6. ASSUME NEW c \in sq[j].cache, c.at = sq[j].issue, c.w # 0,
               KindOf(j, c.w).bb <= sq[j].target - sq[j].issue,
               \/ /\ sq' = [sq EXCEPT ![j].fetching = "sync", ![j].busy = TRUE]
                  /\ stack' = <<CallWith("handle", j, c.w)>> \o Rest
               \/ /\ sq' = [sq EXCEPT ![j].fetching = "cont", ![j].busy = TRUE,
                                      ![j].cur = c.w]
                  /\ stack' = Rest
        PROVE  IInv'
    <2>1. /\ sq[j].issue \in Nat /\ sq[j].target \in Nat /\ sq[j].consumer \in Nat
          /\ sq[j].cache \subseteq Cached /\ Depth \in Nat
      BY <1>p, PipeFields, SizeAssumption
    <2>2. c.w \in 0..MaxPosts
      BY <2>1 DEF Cached
    <2>3. PICK w \in 0..MaxPosts : w = c.w
      BY <2>2
    <2>4. PostedOK(j) /\ Len(posted[j]) \in Nat
      BY <1>p, JettyParts
    <2>5. w \in DOMAIN posted[j]
      <3>1. w <= Len(posted[j]) /\ w # 0
        BY <1>6, <2>3, <2>4 DEF PostedOK
      <3> QED BY <1>p, <2>4, <3>1
    <2>6. posted[j][w].kind.bb \in Nat \ {0}
      BY <2>5, WqeFacts
    <2>7. Fits(j, w)
      BY <1>3, <1>6, <2>1, <2>3, <2>5, <2>6, SMTT(30) DEF Fits, KindOf
    <2>8. sq[j].live
      BY LiveFacts
    <2>9. CASE /\ sq' = [sq EXCEPT ![j].fetching = "sync", ![j].busy = TRUE]
               /\ stack' = <<CallWith("handle", j, c.w)>> \o Rest
      <3>1a. sq' = [sq EXCEPT ![j] = [sq[j] EXCEPT !.fetching = "sync", !.busy = TRUE]]
        BY <2>9
      <3>1b. [sq[j] EXCEPT !.fetching = "sync", !.busy = TRUE] \in Pipe
        BY <1>p, <1>p DEF Pipe
      <3>1c. /\ sq' \in [Jettys -> Pipe] /\ sq'[j] \in Pipe
           /\ sq'[j] = [sq[j] EXCEPT !.fetching = "sync", !.busy = TRUE]
           /\ \A i \in Jettys : i # j => sq'[i] = sq[i]
        BY <1>p, <3>1a, <3>1b, SqUpdated
      <3>1d. /\ sq'[j].live = sq[j].live /\ sq'[j].consumer = sq[j].consumer
           /\ sq'[j].target = sq[j].target /\ sq'[j].direct = sq[j].direct
           /\ sq'[j].busy = TRUE /\ sq'[j].issue = sq[j].issue
           /\ sq'[j].nextFetch = sq[j].nextFetch /\ sq'[j].cache = sq[j].cache
           /\ sq'[j].fetching = "sync" /\ sq'[j].cur = sq[j].cur
           /\ sq'[j].ordered = sq[j].ordered /\ sq'[j].failed = sq[j].failed
           /\ sq'[j].prepared = sq[j].prepared /\ sq'[j].completions = sq[j].completions
           /\ sq'[j].kick = sq[j].kick
        BY <1>p, <3>1c DEF Pipe
      <3>2. Quiet(j)
        BY <1>1, <2>1, <3>1d DEF Quiet
      <3>3. /\ StackInv' /\ stack' \in Seq(Frame) /\ (Retries => Retries')
            /\ stack' # <<>> /\ stack'[1].op = "handle" /\ stack'[1].j = j
            /\ stack'[1].w = w
        BY <1>2, <1>3, <2>3, <2>9, <3>1c, <3>1d, TakenStack
      <3>4. TopOK(j)'
        BY <1>3, <2>7, <3>1c, <3>1d, <3>2, <3>3, FitsKept, HandleTop
      <3>5. StepOf(j)
        BY <1>1, <3>1c, <3>3 DEF StepOf
      <3>6. TypeOK'
        BY <1>1, <3>1c, <3>3, QuietType
      <3>7. BusyOK(j)' /\ PostedOK(j)' /\ ReadOK(j)'
        BY <1>1, <2>4, <3>1d DEF BusyOK, PostedOK, ReadOK
      <3> QED BY <1>1, <2>8, <3>1d, <3>2, <3>3, <3>4, <3>5, <3>6, <3>7, ReadStep
    <2>10. CASE /\ sq' = [sq EXCEPT ![j].fetching = "cont", ![j].busy = TRUE,
                                    ![j].cur = c.w]
                /\ stack' = Rest
      <3>1a. sq' = [sq EXCEPT ![j] = [sq[j] EXCEPT !.fetching = "cont", !.busy = TRUE, !.cur = w]]
        BY <2>3, <2>10
      <3>1b. [sq[j] EXCEPT !.fetching = "cont", !.busy = TRUE, !.cur = w] \in Pipe
        BY <1>p, <2>3 DEF Pipe
      <3>1c. /\ sq' \in [Jettys -> Pipe] /\ sq'[j] \in Pipe
           /\ sq'[j] = [sq[j] EXCEPT !.fetching = "cont", !.busy = TRUE, !.cur = w]
           /\ \A i \in Jettys : i # j => sq'[i] = sq[i]
        BY <1>p, <3>1a, <3>1b, SqUpdated
      <3>1d. /\ sq'[j].live = sq[j].live /\ sq'[j].consumer = sq[j].consumer
           /\ sq'[j].target = sq[j].target /\ sq'[j].direct = sq[j].direct
           /\ sq'[j].busy = TRUE /\ sq'[j].issue = sq[j].issue
           /\ sq'[j].nextFetch = sq[j].nextFetch /\ sq'[j].cache = sq[j].cache
           /\ sq'[j].fetching = "cont" /\ sq'[j].cur = w
           /\ sq'[j].ordered = sq[j].ordered /\ sq'[j].failed = sq[j].failed
           /\ sq'[j].prepared = sq[j].prepared /\ sq'[j].completions = sq[j].completions
           /\ sq'[j].kick = sq[j].kick
        BY <1>p, <3>1c DEF Pipe
      <3>2. Quiet(j)
        BY <1>1, <2>1, <3>1d DEF Quiet
      <3>3. \A m \in DOMAIN stack : ~Holds(m, j)
        BY <1>3, NoClaim
      <3>4. Pushed(stack', stack, 0, -1) /\ 0 - (-1) = 1
        BY <1>2, <2>10
      <3>5. StackInv' /\ (Retries => Retries')
        BY <1>2, <3>1c, <3>3, <3>4, StackStep, RetriesKept
      <3>6. stack' # <<>> => stack'[1].op \notin Heads
        BY <1>p, <3>4 DEF Pushed, IInv, StackInv
      <3>7. TopOK(j)'
        BY <3>6 DEF TopOK, Top, Heads
      <3>8. StepOf(j)
        BY <1>1, <3>1c, <3>6 DEF StepOf
      <3>9. TypeOK'
        BY <1>1, <3>1c, <3>4, QuietType DEF Pushed
      <3>10. BusyOK(j)' /\ PostedOK(j)'
        BY <1>1, <2>4, <3>1d DEF BusyOK, PostedOK
      <3>11. ReadOK(j)'
        <4>1. Fits(j, w)'
          BY <2>7, <3>1c, <3>2, FitsKept
        <4>2. sq'[j].cur = w /\ ~sq'[j].ordered /\ sq'[j].fetching = "cont"
          BY <1>3, <3>1d
        <4> QED BY <4>1, <4>2 DEF ReadOK, Fits
      <3> QED BY <1>1, <2>8, <3>1d, <3>2, <3>5, <3>7, <3>8, <3>9, <3>10, <3>11, ReadStep
    <2> QED BY <1>6, <2>9, <2>10
  <1> DEFINE heads == {c \in sq[j].cache : c.at = sq[j].issue /\ c.w # 0}
  <1>7. CASE sq[j].failed \/ heads = {}
    <2>1. stack' = Rest /\ sq' = sq
      BY <1>7 DEF DecodeHead
    <2> QED BY <2>1, <1>4
  <1>8. CASE ~(sq[j].failed \/ heads = {})
    <2>1. PICK c \in heads :
             LET bb == KindOf(j, c.w).bb
                 whole == \A i \in 1..(bb - 1) :
                             \E d \in sq[j].cache : d.at = sq[j].issue + i /\ d.w # 0
                 short == KindOf(j, c.w).op = "TORN" \/ bb > sq[j].target - sq[j].issue
             IN \/ /\ short
                   /\ sq' = [sq EXCEPT ![j].failed = TRUE]
                   /\ stack' = Rest
                \/ /\ ~short /\ bb <= Prefetch /\ ~whole
                   /\ stack' = Rest /\ UNCHANGED sq
                \/ /\ ~short /\ bb <= Prefetch /\ whole
                   /\ sq' = [sq EXCEPT ![j].fetching = "sync", ![j].busy = TRUE]
                   /\ stack' = <<CallWith("handle", j, c.w)>> \o Rest
                \/ /\ ~short /\ bb > Prefetch
                   /\ sq' = [sq EXCEPT ![j].fetching = "cont", ![j].busy = TRUE,
                                       ![j].cur = c.w]
                   /\ stack' = Rest
      BY <1>8 DEF DecodeHead
    <2>2. c \in sq[j].cache /\ c.at = sq[j].issue /\ c.w # 0
      OBVIOUS
    <2>3. CASE stack' = Rest /\ sq' = [sq EXCEPT ![j].failed = TRUE]
      BY <2>2, <2>3, <1>5
    <2>4. CASE stack' = Rest /\ sq' = sq
      BY <2>4, <1>4
    <2>5. KindOf(j, c.w).bb \in Nat /\ sq[j].target \in Nat /\ sq[j].issue \in Nat
      <3>1. PostedOK(j) /\ Len(posted[j]) \in Nat /\ c \in Cached
        BY <1>p, <2>2, JettyParts, PipeFields
      <3>2. c.w \in DOMAIN posted[j]
        BY <1>p, <2>2, <3>1 DEF PostedOK, Cached
      <3> QED BY <1>p, <3>2, WqeFacts, PipeFields DEF KindOf
    <2>6. CASE ~(KindOf(j, c.w).bb > sq[j].target - sq[j].issue) /\
               (\/ /\ sq' = [sq EXCEPT ![j].fetching = "sync", ![j].busy = TRUE]
                   /\ stack' = <<CallWith("handle", j, c.w)>> \o Rest
                \/ /\ sq' = [sq EXCEPT ![j].fetching = "cont", ![j].busy = TRUE,
                                       ![j].cur = c.w]
                   /\ stack' = Rest)
      <3>1. KindOf(j, c.w).bb <= sq[j].target - sq[j].issue
        BY <2>5, <2>6
      <3> QED BY <2>2, <2>6, <3>1, <1>6
    <2> QED BY <2>1, <2>3, <2>4, <2>6
  <1> QED BY <1>7, <1>8

\* The reads in progress of a jetty still fit.
LEMMA ReadKept ==
    ASSUME IInv, NEW j \in Jettys, sq'[j] \in Pipe, Quiet(j),
           sq'[j].fetching = sq[j].fetching, sq'[j].cur = sq[j].cur
    PROVE  ReadOK(j)'
  <1>1. ReadOK(j)
    BY JettyParts
  <1>2. PICK w : w = sq[j].cur
    OBVIOUS
  <1>3. Fits(j, w) => Fits(j, w)'
    BY FitsKept
  <1>4. (Fits(j, w)' <=> Fits(j, sq[j].cur)') /\ sq'[j].cur = w
    BY <1>2
  <1>5. Fits(j, sq[j].cur) => Fits(j, sq[j].cur)'
    BY <1>2, <1>3, <1>4 DEF Fits
  <1> QED BY <1>1, <1>5 DEF ReadOK, Quiet

\* Calls made by a callback.
LEMMA IdleStack ==
    ASSUME IInv, Idle, NEW j \in Jettys, stack' \in Seq(Frame),
           \A k \in DOMAIN stack' :
              /\ stack'[k].j = j
              /\ stack'[k].op \in Heads => k = 1
              /\ stack'[k].op \in Claims => k = 1 /\ sq'[j].fetching = "sync"
    PROVE  /\ StackInv' /\ (Retries => Retries')
           /\ stack' # <<>> /\ stack'[1].op \in Heads => stack'[1].j = j
  <1>1. StackInv'
    BY DEF StackInv
  <1>2. ~Retries
    BY DEF Idle, Retries
  <1>3. stack' # <<>> => stack'[1].j = j
    BY DEF Idle
  <1> QED BY <1>1, <1>2, <1>3

\* One or two calls made by a callback.
LEMMA IdleCalls ==
    ASSUME NEW op \in FrameOps, NEW o2 \in FrameOps, NEW j \in Jettys
    PROVE  /\ <<Call(op, j)>> \in Seq(Frame) /\ DOMAIN <<Call(op, j)>> = {1}
           /\ <<Call(op, j)>>[1].op = op /\ <<Call(op, j)>>[1].j = j
           /\ <<Call(op, j), Call(o2, j)>> \in Seq(Frame)
           /\ DOMAIN <<Call(op, j), Call(o2, j)>> = {1, 2}
           /\ <<Call(op, j), Call(o2, j)>>[1].op = op
           /\ <<Call(op, j), Call(o2, j)>>[1].j = j
           /\ <<Call(op, j), Call(o2, j)>>[2].op = o2
           /\ <<Call(op, j), Call(o2, j)>>[2].j = j
  <1>1. /\ Call(op, j) \in Frame /\ Call(op, j).op = op /\ Call(op, j).j = j
        /\ Call(o2, j) \in Frame /\ Call(o2, j).op = o2 /\ Call(o2, j).j = j
    BY CallType
  <1> QED BY <1>1

\* The count of failures stays within its bound.
LEMMA FaultType ==
    ASSUME IInv
    PROVE  /\ Fault => faults' \in 0..MaxFaults
           /\ \A ok \in BOOLEAN : Outcome(ok) => faults' \in 0..MaxFaults
  BY LimitAssumption DEF IInv, TypeOK, Fault, Outcome

\* The claim of a jetty is given back.
LEMMA ReleaseStep ==
    ASSUME IInv, NEW j \in Jettys, ReleaseSqFetch(j)
    PROVE  IInv'
  <1>p. /\ sq \in [Jettys -> Pipe] /\ sq[j] \in Pipe /\ posted[j] \in Seq(Wqe)
        /\ stack \in Seq(Frame)
    BY JettyParts
  <1>1. /\ UNCHANGED <<posted, fetches, net, route, draining, faults, sent>>
        /\ sq' = [sq EXCEPT ![j].fetching = "no",
                     ![j].busy = Fetching(j) \/ sq[j].completions # <<>>]
    BY DEF ReleaseSqFetch
  <1>2. stack # <<>> /\ Holds(1, j)
    <2>1. CASE Running("release", j)
      BY <2>1, RunningCall DEF Holds, Claims
    <2>2. CASE Running("resume", j)
      BY <2>2, RunningCall DEF Holds, Claims
    <2> QED BY <2>1, <2>2 DEF ReleaseSqFetch
  <1>3. sq[j].fetching = "sync" /\ sq[j].live
    BY <1>2, NoClaim, LiveFacts
  <1> DEFINE b == Fetching(j) \/ sq[j].completions # <<>>
  <1>t. b \in BOOLEAN
    OBVIOUS
  <1>b. ~b => sq[j].completions = <<>> /\ \A f \in fetches : f.j # j
    BY DEF Fetching
  <1>u. sq' = [sq EXCEPT ![j].fetching = "no", ![j].busy = b]
    BY <1>1
  <1> HIDE DEF b
  <1>4a. sq' = [sq EXCEPT ![j] = [sq[j] EXCEPT !.fetching = "no", !.busy = b]]
    BY <1>u
  <1>4b. [sq[j] EXCEPT !.fetching = "no", !.busy = b] \in Pipe
    BY <1>p, <1>t DEF Pipe
  <1>4c. /\ sq' \in [Jettys -> Pipe] /\ sq'[j] \in Pipe
       /\ sq'[j] = [sq[j] EXCEPT !.fetching = "no", !.busy = b]
       /\ \A i \in Jettys : i # j => sq'[i] = sq[i]
    BY <1>p, <1>4a, <1>4b, SqUpdated
  <1>4d. /\ sq'[j].live = sq[j].live /\ sq'[j].consumer = sq[j].consumer
       /\ sq'[j].target = sq[j].target /\ sq'[j].direct = sq[j].direct
       /\ sq'[j].busy = b /\ sq'[j].issue = sq[j].issue
       /\ sq'[j].nextFetch = sq[j].nextFetch /\ sq'[j].cache = sq[j].cache
       /\ sq'[j].fetching = "no" /\ sq'[j].cur = sq[j].cur
       /\ sq'[j].ordered = sq[j].ordered /\ sq'[j].failed = sq[j].failed
       /\ sq'[j].prepared = sq[j].prepared /\ sq'[j].completions = sq[j].completions
       /\ sq'[j].kick = sq[j].kick
    BY <1>p, <1>4c DEF Pipe
  <1>5. sq[j].target \in Nat
    BY <1>p, PipeFields
  <1>6. Quiet(j)
    BY <1>1, <1>4d, <1>5 DEF Quiet
  <1>7. \E n \in 1..2 : /\ Pushed(stack', stack, n, n - 1) /\ stack'[1].op = "maybe"
                        /\ \A k \in 1..n : /\ stack'[k].j = j
                                           /\ stack'[k].op \notin Heads \cup Claims
    <2>0. "maybe" \in FrameOps /\ "enter" \in FrameOps
      BY DEF FrameOps
    <2>n. {"maybe", "enter"} \cap (Heads \cup Claims) = {}
      BY DEF Heads, Claims
    <2>1. CASE stack' = <<Call("maybe", j), Call("enter", j)>> \o Rest
      <3>1. /\ Pushed(stack', stack, 2, 1) /\ stack'[1] = Call("maybe", j)
            /\ stack'[2] = Call("enter", j)
            /\ Call("maybe", j).op = "maybe" /\ Call("maybe", j).j = j
            /\ Call("enter", j).op = "enter" /\ Call("enter", j).j = j
        BY <1>2, <2>0, <2>1, TwoCalls
      <3>2. /\ Pushed(stack', stack, 2, 2 - 1) /\ stack'[1].op = "maybe"
            /\ stack'[1].j = j /\ stack'[2].j = j
            /\ stack'[1].op \notin Heads \cup Claims /\ stack'[2].op \notin Heads \cup Claims
        BY <2>n, <3>1
      <3> QED BY <3>2
    <2>2. CASE stack' = <<Call("maybe", j)>> \o Rest
      <3>1. /\ Pushed(stack', stack, 1, 0) /\ stack'[1] = Call("maybe", j)
            /\ Call("maybe", j).op = "maybe" /\ Call("maybe", j).j = j
        BY <1>2, <2>0, <2>2, OneCall
      <3>2. /\ Pushed(stack', stack, 1, 1 - 1) /\ stack'[1].op = "maybe"
            /\ stack'[1].j = j /\ stack'[1].op \notin Heads \cup Claims
        BY <2>n, <3>1
      <3> QED BY <3>2
    <2> QED BY <2>1, <2>2 DEF ReleaseSqFetch
  <1>8. PICK n \in 1..2 : /\ Pushed(stack', stack, n, n - 1) /\ stack'[1].op = "maybe"
                          /\ \A k \in 1..n : /\ stack'[k].j = j
                                             /\ stack'[k].op \notin Heads \cup Claims
    BY <1>7
  <1>8a. PICK d \in 0..2 : d = n - 1
    OBVIOUS
  <1>8b. n \in 1..3 /\ Pushed(stack', stack, n, d)
    BY <1>8, <1>8a
  <1>9. /\ StackInv' /\ stack' \in Seq(Frame) /\ (Retries => Retries')
        /\ stack' # <<>> /\ stack'[1].op \notin Heads
    BY <1>2, <1>4c, <1>8, <1>8a, <1>8b, ClaimStack
  <1>10. TopOK(j)'
    BY <1>9 DEF TopOK, Top, Heads
  <1>11. StepOf(j)
    BY <1>1, <1>4c, <1>9 DEF StepOf
  <1>12. TypeOK'
    BY <1>1, <1>4c, <1>9, QuietType
  <1>13. BusyOK(j)' /\ PostedOK(j)' /\ ReadOK(j)'
    <2>1. PostedOK(j)
      BY JettyParts
    <2>2. BusyOK(j)'
      BY <1>1, <1>b, <1>4d DEF BusyOK
    <2> QED BY <1>1, <1>4d, <2>1, <2>2 DEF PostedOK, ReadOK
  <1>14. Retries'
    BY <1>8, <1>9 DEF Retries
  <1> QED BY <1>1, <1>3, <1>6, <1>9, <1>10, <1>11, <1>12, <1>13, <1>14, ReadStep

\* The continuation of a large WQE has been read.
LEMMA ContinueStep ==
    ASSUME IInv, NEW j \in Jettys, NEW ok \in BOOLEAN, ContinueSqWqe(j, ok)
    PROVE  IInv'
  <1>p. /\ sq \in [Jettys -> Pipe] /\ sq[j] \in Pipe /\ posted[j] \in Seq(Wqe)
        /\ stack \in Seq(Frame)
    BY JettyParts
  <1>1. /\ Idle /\ sq[j].fetching = "cont" /\ Outcome(ok)
        /\ UNCHANGED <<posted, fetches, net, route, draining, sent>>
    BY DEF ContinueSqWqe
  <1>2. sq[j].live /\ 0 \in 0..MaxPosts /\ sq[j].target \in Nat
        /\ sq[j].failed \in BOOLEAN /\ sq[j].cur \in 0..MaxPosts
    BY <1>1, <1>p, LiveFacts, PipeFields, LimitAssumption
  <1> DEFINE b == sq[j].failed \/ ~ok
  <1>t. b \in BOOLEAN
    OBVIOUS
  <1>u. sq' = [sq EXCEPT ![j].failed = b, ![j].fetching = "sync", ![j].cur = 0]
    BY DEF ContinueSqWqe
  <1> HIDE DEF b
  <1>3a. sq' = [sq EXCEPT ![j] = [sq[j] EXCEPT !.failed = b, !.fetching = "sync", !.cur = 0]]
    BY <1>u
  <1>3b. [sq[j] EXCEPT !.failed = b, !.fetching = "sync", !.cur = 0] \in Pipe
    BY <1>p, <1>2, <1>t DEF Pipe
  <1>3c. /\ sq' \in [Jettys -> Pipe] /\ sq'[j] \in Pipe
       /\ sq'[j] = [sq[j] EXCEPT !.failed = b, !.fetching = "sync", !.cur = 0]
       /\ \A i \in Jettys : i # j => sq'[i] = sq[i]
    BY <1>p, <1>3a, <1>3b, SqUpdated
  <1>3d. /\ sq'[j].live = sq[j].live /\ sq'[j].consumer = sq[j].consumer
       /\ sq'[j].target = sq[j].target /\ sq'[j].direct = sq[j].direct
       /\ sq'[j].busy = sq[j].busy /\ sq'[j].issue = sq[j].issue
       /\ sq'[j].nextFetch = sq[j].nextFetch /\ sq'[j].cache = sq[j].cache
       /\ sq'[j].fetching = "sync" /\ sq'[j].cur = 0 /\ sq'[j].ordered = sq[j].ordered
       /\ sq'[j].failed = b /\ sq'[j].prepared = sq[j].prepared
       /\ sq'[j].completions = sq[j].completions /\ sq'[j].kick = sq[j].kick
    BY <1>p, <1>3c DEF Pipe
  <1>4. Quiet(j)
    BY <1>1, <1>2, <1>3d DEF Quiet
  <1>5. faults' \in 0..MaxFaults
    BY <1>1, FaultType
  <1>6. BusyOK(j)' /\ PostedOK(j)' /\ ReadOK(j)' /\ (sq[j].busy => sq'[j].busy)
    <2>1. PostedOK(j) /\ BusyOK(j)
      BY JettyParts
    <2>2. BusyOK(j)'
      BY <1>1, <1>3d, <2>1 DEF BusyOK
    <2> QED BY <1>1, <1>3d, <2>1, <2>2 DEF PostedOK, ReadOK
  <1>7. CASE ok
    <2>1. stack' = <<CallWith("handle", j, sq[j].cur)>>
      BY <1>7 DEF ContinueSqWqe
    <2>2. PICK w \in 0..MaxPosts : w = sq[j].cur
      BY <1>2
    <2>2a. /\ Idle /\ stack' = <<CallWith("handle", j, w)>> /\ sq[j].fetching # "sync"
           /\ sq'[j].fetching = "sync"
      BY <1>1, <1>3d, <2>1, <2>2
    <2>2b. \A i \in Jettys : i # j => sq'[i] = sq[i]
      BY <1>3c
    <2>3. /\ StackInv' /\ stack' \in Seq(Frame) /\ (Retries => Retries')
          /\ stack' # <<>> /\ stack'[1].op = "handle" /\ stack'[1].j = j
          /\ stack'[1].w = w
      BY <2>2a, <2>2b, TakenStack
    <2>4. Fits(j, w) /\ ~sq[j].ordered
      BY <1>1, <2>2, JettyParts DEF ReadOK
    <2>5. TopOK(j)'
      BY <1>3c, <1>3d, <1>4, <2>3, <2>4, FitsKept, HandleTop
    <2>6. StepOf(j)
      BY <1>1, <1>3c, <2>3 DEF StepOf
    <2>7. TypeOK'
      BY <1>1, <1>3c, <1>5, <2>3 DEF IInv, TypeOK
    <2> QED BY <1>1, <1>2, <1>4, <1>6, <2>3, <2>5, <2>6, <2>7, ReadStep
  <1>8. CASE ~ok
    <2>1. stack' = <<Call("release", j), Call("maybe", j)>>
      BY <1>8 DEF ContinueSqWqe
    <2>2. "release" \in FrameOps /\ "maybe" \in FrameOps
      BY DEF FrameOps
    <2>3. /\ stack' \in Seq(Frame) /\ DOMAIN stack' = {1, 2}
          /\ stack'[1].op = "release" /\ stack'[1].j = j
          /\ stack'[2].op = "maybe" /\ stack'[2].j = j
      BY <2>1, <2>2, IdleCalls
    <2>4. stack'[1].op \notin Heads /\ stack'[2].op \notin Heads \cup Claims
      BY <2>3 DEF Heads, Claims
    <2>5. /\ StackInv' /\ (Retries => Retries')
          /\ stack' # <<>> /\ stack'[1].op \in Heads => stack'[1].j = j
      BY <1>1, <1>3d, <2>3, <2>4, IdleStack
    <2>6. TopOK(j)'
      BY <2>4 DEF TopOK, Top, Heads
    <2>7. StepOf(j)
      BY <1>1, <1>3c, <2>5 DEF StepOf
    <2>8. TypeOK'
      BY <1>1, <1>3c, <1>5, <2>3 DEF IInv, TypeOK
    <2> QED BY <1>1, <1>2, <1>4, <1>6, <2>5, <2>6, <2>7, <2>8, ReadStep
  <1> QED BY <1>7, <1>8

\* What a fetched descriptor is replaced by.
Filled(j, f, c) ==
    IF c.at \in f.start..(f.start + f.count - 1) THEN [c EXCEPT !.w = InRing(j, c.at)] ELSE c

\* The descriptor cache of jetty j once the DMA f has arrived.
FilledCache(j, f) == {Filled(j, f, c) : c \in sq[j].cache}

\* A descriptor filled by a DMA.
LEMMA FilledType ==
    ASSUME IInv, NEW j \in Jettys, NEW f, NEW c \in sq[j].cache
    PROVE  /\ Filled(j, f, c) \in Cached /\ Filled(j, f, c).w <= Len(posted[j])
           /\ Filled(j, f, c).at = c.at
           /\ Filled(j, f, c).w = c.w \/ Filled(j, f, c).w = InRing(j, c.at)
  <1>1. c \in Cached /\ c.w <= Len(posted[j])
    BY JettyParts, PipeFields DEF PostedOK
  <1>2. InRing(j, c.at) \in 0..Len(posted[j]) /\ Len(posted[j]) <= MaxPosts
        /\ Len(posted[j]) \in Nat
    BY InRingType, JettyParts DEF PostedOK
  <1>3. InRing(j, c.at) \in 0..MaxPosts /\ InRing(j, c.at) <= Len(posted[j])
    BY <1>2, LimitAssumption
  <1>4. PICK v \in 0..MaxPosts : v = InRing(j, c.at)
    BY <1>3
  <1>5. /\ [c EXCEPT !.w = v] \in Cached /\ [c EXCEPT !.w = v].w = v
        /\ [c EXCEPT !.w = v].at = c.at
    BY <1>1 DEF Cached
  <1> QED BY <1>1, <1>3, <1>4, <1>5 DEF Filled

\* The descriptor cache after a DMA.
LEMMA FilledCacheType ==
    ASSUME IInv, NEW j \in Jettys, NEW f
    PROVE  /\ FilledCache(j, f) \in SUBSET Cached /\ IsFiniteSet(FilledCache(j, f))
           /\ \A c \in FilledCache(j, f) : c.w <= Len(posted[j])
  <1> DEFINE S == FilledCache(j, f)
  <1>1. S \in SUBSET Cached /\ \A c \in S : c.w <= Len(posted[j])
    <2>1. \A c \in sq[j].cache : Filled(j, f, c) \in Cached
                                 /\ Filled(j, f, c).w <= Len(posted[j])
      BY FilledType
    <2> QED BY <2>1 DEF FilledCache
  <1>2. [c \in sq[j].cache |-> Filled(j, f, c)] \in Surjection(sq[j].cache, S)
    BY DEF Surjection, FilledCache
  <1>3. IsFiniteSet(sq[j].cache)
    BY JettyParts DEF PostedOK
  <1>4. IsFiniteSet(S)
    BY <1>2, <1>3, FS_Surjection
  <1> QED BY <1>1, <1>4

\* A descriptor DMA has ended.
LEMMA FetchedStep ==
    ASSUME IInv, NEW f \in fetches, NEW ok \in BOOLEAN, Fetched(f, ok)
    PROVE  IInv'
  <1>0. f \in Fetch /\ f.j \in Jettys
    BY DEF IInv, TypeOK, Fetch
  <1>j. PICK j \in Jettys : j = f.j
    BY <1>0
  <1>p. /\ sq \in [Jettys -> Pipe] /\ sq[j] \in Pipe /\ posted[j] \in Seq(Wqe)
        /\ stack \in Seq(Frame)
    BY JettyParts
  <1> DEFINE b == sq[j].failed \/ ~ok
             new == IF b THEN sq[j].cache ELSE FilledCache(j, f)
             o == Occupied(sq[j], \E g \in fetches' : g.j = j)
  <1>1. /\ Idle /\ Outcome(ok) /\ fetches' = fetches \ {f}
        /\ UNCHANGED <<posted, net, route, draining, sent>>
        /\ stack' = AfterFetch(j, b)
    BY <1>j DEF Fetched
  <1>2. sq' = [sq EXCEPT ![j] = [sq[j] EXCEPT !.failed = b, !.cache = new, !.busy = o]]
    BY <1>j DEF Fetched, FilledCache, Filled
  <1>3. /\ new \in SUBSET Cached /\ IsFiniteSet(new)
        /\ \A c \in new : c.w <= Len(posted[j])
    <2>1. CASE b
      BY <1>p, <2>1, JettyParts, PipeFields DEF PostedOK
    <2>2. CASE ~b
      <3>1. new = FilledCache(j, f)
        BY <2>2
      <3> QED BY <3>1, FilledCacheType
    <2> QED BY <2>1, <2>2
  <1>4. /\ b \in BOOLEAN /\ o \in BOOLEAN
        /\ ~o => /\ sq[j].fetching = "no" /\ sq[j].completions = <<>>
                 /\ \A g \in fetches' : g.j # j
    <2>1. sq[j].failed \in BOOLEAN
      BY <1>p, PipeFields
    <2> QED BY <2>1 DEF Occupied
  <1>5. /\ stack' \in Seq(Frame) /\ 1 \in DOMAIN stack' /\ stack'[1].op = "maybe"
        /\ \A k \in DOMAIN stack' :
              stack'[k].j = j /\ stack'[k].op \notin Heads \cup Claims
    <2>0. "maybe" \in FrameOps /\ "enter" \in FrameOps
          /\ {"maybe", "enter"} \cap (Heads \cup Claims) = {}
      BY DEF FrameOps, Heads, Claims
    <2>1. CASE stack' = <<Call("maybe", j)>>
      BY <2>0, <2>1, IdleCalls
    <2>2. CASE stack' = <<Call("maybe", j), Call("enter", j)>>
      <3>1. /\ stack' \in Seq(Frame) /\ DOMAIN stack' = {1, 2}
            /\ stack'[1].op = "maybe" /\ stack'[1].j = j
            /\ stack'[2].op = "enter" /\ stack'[2].j = j
        BY <2>0, <2>2, IdleCalls
      <3> QED BY <2>0, <3>1
    <2> QED BY <1>1, <2>1, <2>2 DEF AfterFetch
  <1> HIDE DEF b, new, o
  <1>6a. sq' = [sq EXCEPT ![j] = [sq[j] EXCEPT !.failed = b, !.cache = new, !.busy = o]]
    BY <1>2
  <1>6b. [sq[j] EXCEPT !.failed = b, !.cache = new, !.busy = o] \in Pipe
    BY <1>p, <1>3, <1>4 DEF Pipe
  <1>6c. /\ sq' \in [Jettys -> Pipe] /\ sq'[j] \in Pipe
       /\ sq'[j] = [sq[j] EXCEPT !.failed = b, !.cache = new, !.busy = o]
       /\ \A i \in Jettys : i # j => sq'[i] = sq[i]
    BY <1>p, <1>6a, <1>6b, SqUpdated
  <1>6d. /\ sq'[j].live = sq[j].live /\ sq'[j].consumer = sq[j].consumer
       /\ sq'[j].target = sq[j].target /\ sq'[j].direct = sq[j].direct
       /\ sq'[j].busy = o /\ sq'[j].issue = sq[j].issue
       /\ sq'[j].nextFetch = sq[j].nextFetch /\ sq'[j].cache = new
       /\ sq'[j].fetching = sq[j].fetching /\ sq'[j].cur = sq[j].cur
       /\ sq'[j].ordered = sq[j].ordered /\ sq'[j].failed = b
       /\ sq'[j].prepared = sq[j].prepared /\ sq'[j].completions = sq[j].completions
       /\ sq'[j].kick = sq[j].kick
    BY <1>p, <1>6c DEF Pipe
  <1>7. sq[j].target \in Nat
    BY <1>p, PipeFields
  <1>8. Quiet(j)
    BY <1>1, <1>6d, <1>7 DEF Quiet
  <1>9. faults' \in 0..MaxFaults
    BY <1>1, FaultType
  <1>10. BusyOK(j)' /\ PostedOK(j)' /\ ReadOK(j)'
    <2>1. PostedOK(j)
      BY JettyParts
    <2>2. BusyOK(j)'
      BY <1>4, <1>6d DEF BusyOK
    <2>3. PostedOK(j)'
      BY <1>1, <1>3, <1>6d, <2>1 DEF PostedOK
    <2> QED BY <1>6c, <1>6d, <1>8, <2>2, <2>3, ReadKept
  <1>11. /\ StackInv' /\ (Retries => Retries')
         /\ stack' # <<>> /\ stack'[1].op \in Heads => stack'[1].j = j
    BY <1>1, <1>5, IdleStack
  <1>12. Retries'
    BY <1>5 DEF Retries
  <1>13. TopOK(j)'
    BY <1>5 DEF TopOK, Top, Heads
  <1>14. StepOf(j)
    BY <1>1, <1>j, <1>6c, <1>11 DEF StepOf
  <1>15. TypeOK'
    BY <1>1, <1>5, <1>6c, <1>9 DEF IInv, TypeOK
  <1>16. sq[j].live
    BY <1>j, LiveFacts
  <1> QED BY <1>1, <1>8, <1>10, <1>11, <1>12, <1>13, <1>14, <1>15, <1>16, ReadStep

\* The producer index of the guest.
LEMMA TipType ==
    ASSUME IInv, NEW j \in Jettys
    PROVE  Tip(j) \in Nat /\ (Tip(j) # 0 => Len(posted[j]) \in DOMAIN posted[j])
           /\ Len(posted[j]) \in Nat /\ Len(posted[j]) \in 0..MaxPosts
  <1>1. posted[j] \in Seq(Wqe) /\ Len(posted[j]) \in 0..MaxPosts
    BY JettyParts, LimitAssumption DEF PostedOK
  <1>2. CASE posted[j] = <<>>
    BY <1>1, <1>2 DEF Tip
  <1>3. CASE posted[j] # <<>>
    <2>1. Len(posted[j]) \in DOMAIN posted[j]
      BY <1>1, <1>3
    <2>2. /\ posted[j][Len(posted[j])].start \in Nat
          /\ posted[j][Len(posted[j])].kind.bb \in Nat
      BY <2>1, WqeFacts
    <2> QED BY <1>1, <1>3, <2>1, <2>2 DEF Tip, EndOf
  <1> QED BY <1>2, <1>3

\* The guest rings the doorbell.
LEMMA DoorbellStep ==
    ASSUME IInv, NEW j \in Jettys, Doorbell(j)
    PROVE  IInv'
  <1>p. /\ sq \in [Jettys -> Pipe] /\ sq[j] \in Pipe /\ posted[j] \in Seq(Wqe)
        /\ stack \in Seq(Frame)
    BY JettyParts
  <1>1. /\ Idle /\ sq[j].live /\ sq[j].target < Tip(j)
        /\ sq' = [sq EXCEPT ![j].target = Tip(j)] /\ stack' = <<Call("enter", j)>>
        /\ UNCHANGED <<posted, fetches, net, route, draining, faults, sent>>
    BY DEF Doorbell
  <1>2. PICK p \in Nat : p = Tip(j)
    BY TipType
  <1>3a. sq' = [sq EXCEPT ![j] = [sq[j] EXCEPT !.target = p]]
    BY <1>1, <1>2
  <1>3b. [sq[j] EXCEPT !.target = p] \in Pipe
    BY <1>p, <1>2 DEF Pipe
  <1>3c. /\ sq' \in [Jettys -> Pipe] /\ sq'[j] \in Pipe
       /\ sq'[j] = [sq[j] EXCEPT !.target = p]
       /\ \A i \in Jettys : i # j => sq'[i] = sq[i]
    BY <1>p, <1>3a, <1>3b, SqUpdated
  <1>3d. /\ sq'[j].live = sq[j].live /\ sq'[j].consumer = sq[j].consumer
       /\ sq'[j].target = p /\ sq'[j].direct = sq[j].direct /\ sq'[j].busy = sq[j].busy
       /\ sq'[j].issue = sq[j].issue /\ sq'[j].nextFetch = sq[j].nextFetch
       /\ sq'[j].cache = sq[j].cache /\ sq'[j].fetching = sq[j].fetching
       /\ sq'[j].cur = sq[j].cur /\ sq'[j].ordered = sq[j].ordered
       /\ sq'[j].failed = sq[j].failed /\ sq'[j].prepared = sq[j].prepared
       /\ sq'[j].completions = sq[j].completions /\ sq'[j].kick = sq[j].kick
    BY <1>p, <1>3c DEF Pipe
  <1>4. sq[j].target \in Nat
    BY <1>p, PipeFields
  <1>5. QuietPipe(sq[j], sq'[j])
    <2>1. sq[j].target <= sq'[j].target
      BY <1>1, <1>2, <1>3d, <1>4
    <2> QED BY <1>3d, <2>1 DEF QuietPipe
  <1>6. "enter" \in FrameOps /\ "enter" \notin Heads /\ "enter" \notin Claims
    BY DEF FrameOps, Heads, Claims
  <1>7. /\ Pushed(stack', stack, 1, 1) /\ stack'[1].op = "enter" /\ stack'[1].j = j
    BY <1>1, <1>6, CallType, PushedIdle
  <1>8. stack = <<>>
    BY <1>1 DEF Idle
  <1> QED BY <1>1, <1>3c, <1>5, <1>6, <1>7, <1>8, QuietCall

\* The guest writes a direct WQE.
LEMMA DirectStep ==
    ASSUME IInv, NEW j \in Jettys, DirectDoorbell(j)
    PROVE  IInv'
  <1>p. /\ sq \in [Jettys -> Pipe] /\ sq[j] \in Pipe /\ posted[j] \in Seq(Wqe)
        /\ stack \in Seq(Frame)
    BY JettyParts
  <1>1. /\ Idle /\ sq[j].live /\ sq[j].target < Tip(j)
        /\ KindOf(j, Len(posted[j])).bb = 1
        /\ sq' = [sq EXCEPT ![j].target = Tip(j), ![j].direct = Len(posted[j])]
        /\ stack' = <<Call("enter", j)>>
        /\ UNCHANGED <<posted, fetches, net, route, draining, faults, sent>>
    BY DEF DirectDoorbell
  <1>2. PICK p \in Nat : p = Tip(j)
    BY TipType
  <1>l. PICK l \in 0..MaxPosts : l = Len(posted[j])
    BY TipType
  <1>3a. sq' = [sq EXCEPT ![j] = [sq[j] EXCEPT !.target = p, !.direct = l]]
    BY <1>1, <1>2, <1>l
  <1>3b. [sq[j] EXCEPT !.target = p, !.direct = l] \in Pipe
    BY <1>p, <1>2, <1>l DEF Pipe
  <1>3c. /\ sq' \in [Jettys -> Pipe] /\ sq'[j] \in Pipe
       /\ sq'[j] = [sq[j] EXCEPT !.target = p, !.direct = l]
       /\ \A i \in Jettys : i # j => sq'[i] = sq[i]
    BY <1>p, <1>3a, <1>3b, SqUpdated
  <1>3d. /\ sq'[j].live = sq[j].live /\ sq'[j].consumer = sq[j].consumer
       /\ sq'[j].target = p /\ sq'[j].direct = l /\ sq'[j].busy = sq[j].busy
       /\ sq'[j].issue = sq[j].issue /\ sq'[j].nextFetch = sq[j].nextFetch
       /\ sq'[j].cache = sq[j].cache /\ sq'[j].fetching = sq[j].fetching
       /\ sq'[j].cur = sq[j].cur /\ sq'[j].ordered = sq[j].ordered
       /\ sq'[j].failed = sq[j].failed /\ sq'[j].prepared = sq[j].prepared
       /\ sq'[j].completions = sq[j].completions /\ sq'[j].kick = sq[j].kick
    BY <1>p, <1>3c DEF Pipe
  <1>4. sq[j].target \in Nat /\ l \in DOMAIN posted[j]
    BY <1>p, <1>1, <1>2, <1>l, PipeFields, TipType
  <1>5. Quiet(j)
    <2>1. sq[j].target <= sq'[j].target
      BY <1>1, <1>2, <1>3d, <1>4
    <2> QED BY <1>1, <1>3d, <2>1 DEF Quiet
  <1>6. "enter" \in FrameOps /\ "enter" \notin Heads /\ "enter" \notin Claims
    BY DEF FrameOps, Heads, Claims
  <1>7. /\ stack' \in Seq(Frame) /\ DOMAIN stack' = {1}
        /\ stack'[1].op = "enter" /\ stack'[1].j = j
    BY <1>1, <1>6, IdleCalls
  <1>8. /\ StackInv' /\ (Retries => Retries')
        /\ stack' # <<>> /\ stack'[1].op \in Heads => stack'[1].j = j
    BY <1>1, <1>6, <1>7, IdleStack
  <1>9. TopOK(j)'
    BY <1>6, <1>7 DEF TopOK, Top, Heads
  <1>10. StepOf(j)
    BY <1>1, <1>3c, <1>8 DEF StepOf
  <1>11. TypeOK'
    BY <1>1, <1>3c, <1>7, QuietType
  <1>12. BusyOK(j)' /\ PostedOK(j)' /\ ReadOK(j)'
    <2>1. PostedOK(j) /\ BusyOK(j)
      BY JettyParts
    <2>2. BusyOK(j)'
      BY <1>1, <1>3d, <2>1 DEF BusyOK
    <2>3. posted[j][l].kind.bb = 1
      BY <1>1, <1>l DEF KindOf
    <2>4. PostedOK(j)'
      BY <1>1, <1>3d, <1>4, <2>1, <2>3 DEF PostedOK
    <2> QED BY <1>3c, <1>3d, <1>5, <2>2, <2>4, ReadKept
  <1> QED BY <1>1, <1>3d, <1>5, <1>8, <1>9, <1>10, <1>11, <1>12, ReadStep

\* The route of the TP goes down or is removed.
LEMMA TpStep ==
    ASSUME IInv, DeactivateTp \/ RemoveTp
    PROVE  IInv'
  <1>1. /\ UNCHANGED <<sq, posted, fetches, net, draining, stack, faults, sent>>
        /\ route' \in {"up", "down", "none"}
    BY DEF DeactivateTp, RemoveTp
  <1>2. TypeOK'
    BY <1>1 DEF IInv, TypeOK
  <1>3. JettyInv'
    <2> SUFFICES ASSUME NEW j \in Jettys
                 PROVE  /\ LiveOK(j)' /\ BusyOK(j)' /\ PostedOK(j)' /\ ReadOK(j)'
                        /\ TopOK(j)' /\ EntryOK(j)' /\ TileOK(j)' /\ NetOK(j)'
                        /\ PreparedOK(j)' /\ FenceOK(j)'
      BY DEF JettyInv
    <2>1. /\ LiveOK(j) /\ BusyOK(j) /\ PostedOK(j) /\ ReadOK(j) /\ TopOK(j)
          /\ EntryOK(j) /\ TileOK(j) /\ NetOK(j) /\ PreparedOK(j) /\ FenceOK(j)
      BY JettyParts
    <2>2. LiveOK(j)' /\ BusyOK(j)' /\ PostedOK(j)'
      BY <1>1, <2>1 DEF LiveOK, BusyOK, PostedOK
    <2>3. ReadOK(j)' /\ TopOK(j)'
      <3>1. ReadOK(j)'
        BY <1>1, <2>1 DEF ReadOK, Fits
      <3> QED BY <1>1, <2>1, <3>1 DEF TopOK, Fits, Top
    <2>4. EntryOK(j)' /\ FenceOK(j)' /\ NetOK(j)' /\ PreparedOK(j)'
      <3>1. EntryOK(j)' /\ FenceOK(j)'
        BY <1>1, <2>1 DEF EntryOK, FenceOK
      <3>2. NetOK(j)'
        BY <1>1, <2>1 DEF NetOK, Waiting
      <3> QED BY <1>1, <2>1, <3>1, <3>2 DEF PreparedOK, Waiting
    <2>5. TileOK(j)'
      BY <1>1, <2>1 DEF TileOK, Tiles
    <2> QED BY <2>2, <2>3, <2>4, <2>5
  <1>4. StackInv' /\ DestroyInv'
    BY <1>1 DEF IInv, StackInv, DestroyInv, ResourceQueueBusy, IsRma
  <1> QED BY <1>2, <1>3, <1>4 DEF IInv

\* The guest writes a WQE to its ring.
LEMMA PostStep ==
    ASSUME IInv, NEW j \in Jettys, NEW kind \in Kinds, Post(j, kind)
    PROVE  IInv'
  <1>p. /\ sq \in [Jettys -> Pipe] /\ sq[j] \in Pipe /\ posted[j] \in Seq(Wqe)
        /\ stack \in Seq(Frame)
    BY JettyParts
  <1>1. /\ Idle /\ sq[j].live /\ Len(posted[j]) < MaxPosts
        /\ posted' = [posted EXCEPT ![j] = Append(posted[j], [kind |-> kind, start |-> Tip(j)])]
        /\ UNCHANGED <<sq, fetches, net, route, draining, stack, faults, sent>>
    BY DEF Post
  <1>2. PICK e : e = [kind |-> kind, start |-> Tip(j)]
    OBVIOUS
  <1>3. e \in Wqe
    BY <1>2, TipType DEF Wqe
  <1>4. /\ posted \in [Jettys -> Seq(Wqe)] /\ Len(posted[j]) \in Nat
        /\ posted'[j] = Append(posted[j], e)
        /\ \A i \in Jettys : i # j => posted'[i] = posted[i]
    BY <1>1, <1>2, JettyParts
  <1>5. /\ posted' \in [Jettys -> Seq(Wqe)] /\ Len(posted'[j]) = Len(posted[j]) + 1
        /\ \A w \in DOMAIN posted[j] : w \in DOMAIN posted'[j]
                                       /\ posted'[j][w] = posted[j][w]
    <2>1. /\ Append(posted[j], e) \in Seq(Wqe)
          /\ Len(Append(posted[j], e)) = Len(posted[j]) + 1
          /\ \A w \in DOMAIN posted[j] : w \in DOMAIN Append(posted[j], e)
                                         /\ Append(posted[j], e)[w] = posted[j][w]
      BY <1>p, <1>3
    <2>2. posted' \in [Jettys -> Seq(Wqe)]
      BY <1>1, <1>2, <1>4, <2>1
    <2> QED BY <1>4, <2>1, <2>2
  <1>6. TypeOK'
    BY <1>1, <1>5 DEF IInv, TypeOK
  <1>7. StackInv' /\ DestroyInv'
    BY <1>1 DEF IInv, StackInv, DestroyInv, ResourceQueueBusy, IsRma
  <1>8. StepOf(j)
    BY <1>1, <1>4 DEF StepOf, Idle
  <1>9. /\ LiveOK(j) /\ BusyOK(j) /\ PostedOK(j) /\ ReadOK(j) /\ TopOK(j)
        /\ EntryOK(j) /\ TileOK(j) /\ NetOK(j) /\ PreparedOK(j) /\ FenceOK(j)
    BY JettyParts
  <1>10. LiveOK(j)' /\ BusyOK(j)' /\ TopOK(j)' /\ NetOK(j)'
    BY <1>1, <1>9 DEF LiveOK, BusyOK, TopOK, Top, Idle, NetOK, Waiting
  <1>11. TileOK(j)'
    <2>1. sq[j].target \in Nat /\ sq[j].issue \in Nat
      BY <1>p, PipeFields
    <2> QED BY <1>1, <1>9, <2>1, TileKept
  <1>12. PostedOK(j)'
    <2>1. \A c \in sq[j].cache : c.w \in Nat
      BY <1>p, PipeFields DEF Cached
    <2>2. Len(posted'[j]) <= MaxPosts
      BY <1>1, <1>4, <1>5, LimitAssumption
    <2>3. \A c \in sq[j].cache : c.w <= Len(posted'[j])
      BY <1>4, <1>5, <1>9, <2>1 DEF PostedOK
    <2>4. sq[j].direct # 0 => /\ sq[j].direct \in DOMAIN posted'[j]
                              /\ posted'[j][sq[j].direct].kind.bb = 1
      BY <1>5, <1>9 DEF PostedOK
    <2> QED BY <1>1, <1>9, <2>2, <2>3, <2>4 DEF PostedOK
  <1>13. ReadOK(j)'
    <2>1. Fits(j, sq[j].cur) => Fits(j, sq[j].cur)'
      BY <1>1, <1>5 DEF Fits
    <2>2. sq[j].fetching = "payload" => sq[j].cur \in DOMAIN posted[j]
      BY <1>9 DEF ReadOK, Fits
    <2> QED BY <1>1, <1>5, <1>9, <2>1, <2>2 DEF ReadOK
  <1>14. EntryOK(j)'
    BY <1>1, <1>5, <1>9 DEF EntryOK
  <1>15. FenceOK(j)'
    BY <1>1, <1>5, <1>9 DEF EntryOK, FenceOK
  <1>16. PreparedOK(j)'
    <2>1. \A k \in DOMAIN sq[j].prepared : sq[j].prepared[k].w \in DOMAIN posted[j]
      BY <1>9 DEF EntryOK, PreparedOK, Waiting
    <2> QED BY <1>1, <1>5, <1>9, <2>1, SMTT(30) DEF PreparedOK, Waiting
  <1> QED BY <1>6, <1>7, <1>8, <1>10, <1>11, <1>12, <1>13, <1>14, <1>15, <1>16, StepInv

\* The payload of a WRITE has been read.
LEMMA PayloadStep ==
    ASSUME IInv, NEW j \in Jettys, NEW k, NEW ok \in BOOLEAN, WritePayloadRead(j, k, ok)
    PROVE  IInv'
  <1>p. /\ sq \in [Jettys -> Pipe] /\ sq[j] \in Pipe /\ posted[j] \in Seq(Wqe)
        /\ stack \in Seq(Frame)
    BY JettyParts
  <1>1. /\ Idle /\ k \in DOMAIN sq[j].prepared /\ Outcome(ok)
        /\ stack' = <<Call("drain", j)>>
        /\ UNCHANGED <<posted, fetches, net, route, draining, sent>>
    BY DEF WritePayloadRead
  <1>2. PICK x : x = IF ok THEN "ready" ELSE "failed"
    OBVIOUS
  <1>3. PICK q : q = [sq[j].prepared EXCEPT ![k].state = x]
    OBVIOUS
  <1>4. sq' = [sq EXCEPT ![j].prepared = q]
    BY <1>2, <1>3 DEF WritePayloadRead
  <1>5. /\ q \in Seq(PreparedWrite) /\ DOMAIN q = DOMAIN sq[j].prepared
        /\ \A m \in DOMAIN q : /\ q[m].w = sq[j].prepared[m].w
                               /\ q[m].index = sq[j].prepared[m].index
    <2>1. sq[j].prepared \in Seq(PreparedWrite) /\ x \in {"reading", "ready", "failed"}
      BY <1>p, <1>2, PipeFields
    <2>2. sq[j].prepared[k] \in PreparedWrite
      BY <1>1, <2>1
    <2>3. PICK y : y = [sq[j].prepared[k] EXCEPT !.state = x]
      OBVIOUS
    <2>4. y \in PreparedWrite /\ y.w = sq[j].prepared[k].w
          /\ y.index = sq[j].prepared[k].index
      BY <2>1, <2>2, <2>3 DEF PreparedWrite
    <2>5. q = [sq[j].prepared EXCEPT ![k] = y]
      BY <1>3, <2>3
    <2> QED BY <1>1, <2>1, <2>4, <2>5
  <1>6a. sq' = [sq EXCEPT ![j] = [sq[j] EXCEPT !.prepared = q]]
    BY <1>4
  <1>6b. [sq[j] EXCEPT !.prepared = q] \in Pipe
    BY <1>p, <1>5 DEF Pipe
  <1>6c. /\ sq' \in [Jettys -> Pipe] /\ sq'[j] \in Pipe
       /\ sq'[j] = [sq[j] EXCEPT !.prepared = q]
       /\ \A i \in Jettys : i # j => sq'[i] = sq[i]
    BY <1>p, <1>6a, <1>6b, SqUpdated
  <1>6d. /\ sq'[j].live = sq[j].live /\ sq'[j].consumer = sq[j].consumer
       /\ sq'[j].target = sq[j].target /\ sq'[j].direct = sq[j].direct
       /\ sq'[j].busy = sq[j].busy /\ sq'[j].issue = sq[j].issue
       /\ sq'[j].nextFetch = sq[j].nextFetch /\ sq'[j].cache = sq[j].cache
       /\ sq'[j].fetching = sq[j].fetching /\ sq'[j].cur = sq[j].cur
       /\ sq'[j].ordered = sq[j].ordered /\ sq'[j].failed = sq[j].failed
       /\ sq'[j].prepared = q /\ sq'[j].completions = sq[j].completions
       /\ sq'[j].kick = sq[j].kick
    BY <1>p, <1>6c DEF Pipe
  <1>7. "drain" \in FrameOps /\ "drain" \notin Heads /\ "drain" \notin Claims
    BY DEF FrameOps, Heads, Claims
  <1>8. /\ stack' \in Seq(Frame) /\ DOMAIN stack' = {1}
        /\ stack'[1].op = "drain" /\ stack'[1].j = j
    BY <1>1, <1>7, IdleCalls
  <1>9. /\ StackInv' /\ (Retries => Retries')
        /\ stack' # <<>> /\ stack'[1].op \in Heads => stack'[1].j = j
    BY <1>1, <1>7, <1>8, IdleStack
  <1>10. TopOK(j)' /\ Retries'
    BY <1>7, <1>8 DEF TopOK, Top, Heads, Retries
  <1>11. StepOf(j)
    BY <1>1, <1>6c, <1>9 DEF StepOf
  <1>12. TypeOK'
    <2>1. faults' \in 0..MaxFaults
      BY <1>1, FaultType
    <2> QED BY <1>1, <1>6c, <1>8, <2>1 DEF IInv, TypeOK
  <1>13. sq[j].live /\ sq[j].prepared # <<>> /\ q # <<>>
    <2>1. sq[j].prepared # <<>> /\ q # <<>>
      BY <1>1, <1>5
    <2> QED BY <2>1, LiveFacts
  <1>14. /\ LiveOK(j) /\ BusyOK(j) /\ PostedOK(j) /\ ReadOK(j) /\ TopOK(j)
         /\ EntryOK(j) /\ TileOK(j) /\ NetOK(j) /\ PreparedOK(j) /\ FenceOK(j)
    BY JettyParts
  <1>15. LiveOK(j)' /\ BusyOK(j)' /\ PostedOK(j)'
    BY <1>1, <1>6d, <1>13, <1>14 DEF LiveOK, BusyOK, PostedOK
  <1>16. ReadOK(j)'
    <2>1. sq[j].fetching # "payload"
      BY <1>13, <1>14 DEF ReadOK
    <2>2. Fits(j, sq[j].cur) => Fits(j, sq[j].cur)'
      BY <1>1, <1>6d DEF Fits
    <2> QED BY <1>1, <1>6d, <1>14, <2>1, <2>2 DEF ReadOK
  <1>17. EntryOK(j)' /\ FenceOK(j)' /\ \A w, index : Waiting(j, w, index)' <=> Waiting(j, w, index)
    BY <1>1, <1>6d, <1>14, EntriesKept
  <1>18. NetOK(j)'
    BY <1>1, <1>6d, <1>14 DEF NetOK, Waiting
  <1>19. PreparedOK(j)'
    BY <1>1, <1>5, <1>6d, <1>14, SMTT(30) DEF PreparedOK, Waiting
  <1>20. TileOK(j)'
    <2>1. sq[j].target \in Nat /\ sq[j].issue \in Nat
      BY <1>p, PipeFields
    <2> QED BY <1>6d, <1>14, <2>1, TileKept
  <1>21. DestroyInv'
    BY <1>1, <1>6d, <1>9, <1>10, <1>11, DestroyStep
  <1> QED BY <1>9, <1>10, <1>11, <1>12, <1>15, <1>16, <1>17, <1>18, <1>19, <1>20, <1>21, StepInv

----------------------------------------------------------------------------
(* Entries *)

\* Positions less than a ring apart have different slots.
LEMMA Divided ==
    ASSUME NEW d \in Nat \ {0}, NEW a \in Int
    PROVE  /\ a \div d \in Int /\ a % d \in 0..(d - 1) /\ a = d * (a \div d) + (a % d)
  OBVIOUS

\* Positions less than a ring apart share no slot.
LEMMA SameSlot ==
    ASSUME NEW d \in Nat \ {0}, NEW a \in Int, NEW b \in Int, a % d = b % d,
           a - b < d, b - a < d
    PROVE  a = b
  <1>1. PICK p \in Int : p = a \div d
    BY Divided
  <1>2. PICK q \in Int : q = b \div d
    BY Divided
  <1>3. PICK k \in Int : k = p - q
    BY <1>1, <1>2
  <1>4. d * k = d * p - d * q /\ d * p \in Int /\ d * q \in Int
    BY <1>3
  <1>5. a = d * p + (a % d) /\ b = d * q + (b % d) /\ a % d \in Int
    BY <1>1, <1>2, Divided
  <1>6. a - b = d * k
    BY <1>4, <1>5
  <1>7. (k >= 1 => d * k >= d) /\ (k <= -1 => d * k <= -d) /\ (k = 0 => d * k = 0)
    BY <1>3
  <1> QED BY <1>6, <1>7

\* The entries of a jetty have different ring indexes.
LEMMA TiledIndex ==
    ASSUME IInv, NEW j \in Jettys, NEW k \in DOMAIN sq[j].completions,
           NEW m \in DOMAIN sq[j].completions,
           sq[j].completions[k].index = sq[j].completions[m].index
    PROVE  k = m
  <1> DEFINE c == sq[j].completions
  <1>1. /\ c \in Seq(Entry) /\ sq[j].consumer \in Nat /\ sq[j].issue \in Nat
        /\ Depth \in Nat \ {0} /\ TileOK(j)
    BY JettyParts, PipeFields, SizeAssumption
  <1>2. PICK f : Tiles(c, f, sq[j].consumer, sq[j].issue)
    BY <1>1 DEF TileOK
  <1>3. sq[j].issue <= sq[j].consumer + Depth
    BY <1>1 DEF TileOK
  <1>4. k \in 1..Len(c) /\ m \in 1..Len(c) /\ Len(c) \in Nat
    BY <1>1
  <1> HIDE DEF c
  <1>5. \A i \in 1..Len(c) : /\ f[i + 1] \in Nat /\ f[i + 1] > f[1]
                             /\ f[i + 1] <= f[Len(c) + 1]
                             /\ c[i].index = (f[i + 1] - 1) % Depth
    <2> SUFFICES ASSUME NEW i \in 1..Len(c)
                 PROVE  /\ f[i + 1] \in Nat /\ f[i + 1] > f[1]
                        /\ f[i + 1] <= f[Len(c) + 1]
                        /\ c[i].index = (f[i + 1] - 1) % Depth
      OBVIOUS
    <2>0. 1 \in 1..(Len(c) + 1) /\ i + 1 \in 1..(Len(c) + 1)
          /\ Len(c) + 1 \in 1..(Len(c) + 1) /\ f \in [1..(Len(c) + 1) -> Nat]
      BY <1>2, <1>4 DEF Tiles
    <2>1. f[i + 1] \in Nat /\ f[1] \in Nat /\ f[Len(c) + 1] \in Nat
      BY <2>0
    <2>2. f[1] < f[i + 1]
      <3>1. 1 \in 1..(Len(c) + 1) /\ i + 1 \in 1..(Len(c) + 1) /\ 1 < i + 1
        BY <1>4
      <3> QED BY <1>2, <3>1 DEF Tiles
    <2>3. f[i + 1] <= f[Len(c) + 1]
      <3>1. CASE i = Len(c)
        BY <2>1, <3>1
      <3>2. CASE i < Len(c)
        <4>1. i + 1 \in 1..(Len(c) + 1) /\ Len(c) + 1 \in 1..(Len(c) + 1)
              /\ i + 1 < Len(c) + 1
          BY <1>4, <3>2
        <4>2. f[i + 1] < f[Len(c) + 1]
          BY <1>2, <4>1 DEF Tiles
        <4> QED BY <2>1, <4>2
      <3> QED BY <1>4, <3>1, <3>2
    <2>4. c[i].index = (f[i + 1] - 1) % Depth
      BY <1>2 DEF Tiles
    <2> QED BY <2>1, <2>2, <2>3, <2>4
  <1>6. f[1] = sq[j].consumer /\ f[Len(c) + 1] = sq[j].issue
    BY <1>2 DEF Tiles
  <1>7. PICK a \in Nat : a = f[k + 1]
    BY <1>4, <1>5
  <1>7b. PICK b \in Nat : b = f[m + 1]
    BY <1>4, <1>5
  <1>8. a = b
    <2>1. (a - 1) % Depth = (b - 1) % Depth
      BY <1>4, <1>5, <1>7, <1>7b DEF c
    <2>2. /\ a > sq[j].consumer /\ a <= sq[j].issue /\ b > sq[j].consumer /\ b <= sq[j].issue
      BY <1>4, <1>5, <1>6, <1>7, <1>7b
    <2>2a. PICK lo, hi \in Nat : lo = sq[j].consumer /\ hi = sq[j].issue
      BY <1>1, <1>3
    <2>2b. hi - lo <= Depth /\ Depth \in Nat
      BY <1>1, <1>3, <2>2a
    <2>3. /\ a - 1 \in Int /\ b - 1 \in Int
          /\ (a - 1) - (b - 1) < Depth /\ (b - 1) - (a - 1) < Depth
      BY <2>2, <2>2a, <2>2b
    <2>4. a - 1 = b - 1
      BY <1>1, <2>1, <2>3, SameSlot
    <2> QED BY <2>4
  <1>9. ~(k < m) /\ ~(m < k)
    <2>1. k < m => f[k + 1] < f[m + 1]
      BY <1>2, <1>4 DEF Tiles
    <2>2. m < k => f[m + 1] < f[k + 1]
      BY <1>2, <1>4 DEF Tiles
    <2> QED BY <1>7, <1>7b, <1>8, <2>1, <2>2
  <1> QED BY <1>4, <1>9

\* The entry that ReserveSq appends for WQE w.
NewEntry(j, w, ready) ==
    [w |-> w, index |-> LastIndex(sq[j], KindOf(j, w).bb), bb |-> KindOf(j, w).bb,
     ready |-> ready, pub |-> "no"]

\* The new entry has the type of an entry.
LEMMA NewEntryType ==
    ASSUME IInv, NEW j \in Jettys, NEW w \in DOMAIN posted[j], NEW ready \in BOOLEAN
    PROVE  /\ NewEntry(j, w, ready) \in Entry
           /\ NewEntry(j, w, ready).w = w /\ NewEntry(j, w, ready).ready = ready
           /\ NewEntry(j, w, ready).index = LastIndex(sq[j], KindOf(j, w).bb)
           /\ NewEntry(j, w, ready).bb = KindOf(j, w).bb
           /\ NewEntry(j, w, ready).pub = "no"
           /\ LastIndex(sq[j], KindOf(j, w).bb) \in 0..(Depth - 1)
  <1>1. w \in Numbers /\ KindOf(j, w).bb \in Nat
    BY WqeFacts DEF KindOf
  <1>2. sq[j].issue \in Nat /\ Depth \in Nat \ {0}
    BY JettyParts, PipeFields, SizeAssumption
  <1>3. LastIndex(sq[j], KindOf(j, w).bb) \in 0..(Depth - 1)
    <2>1. PICK a \in Int : a = sq[j].issue + KindOf(j, w).bb - 1
      BY <1>1, <1>2
    <2>2. a % Depth \in 0..(Depth - 1)
      BY <1>2, ModRange
    <2> QED BY <2>1, <2>2 DEF LastIndex
  <1> QED BY <1>1, <1>3 DEF NewEntry, Entry

\* The slot of the next WQE is free.
LEMMA FreshIndex ==
    ASSUME IInv, NEW j \in Jettys, NEW w, Fits(j, w)
    PROVE  /\ \A k \in DOMAIN sq[j].completions :
                 sq[j].completions[k].index # LastIndex(sq[j], KindOf(j, w).bb)
           /\ \A v, i : Waiting(j, v, i) => i # LastIndex(sq[j], KindOf(j, w).bb)
           /\ \A r \in net : r.j = j => r.index # LastIndex(sq[j], KindOf(j, w).bb)
           /\ \A k \in DOMAIN sq[j].prepared :
                 sq[j].prepared[k].index # LastIndex(sq[j], KindOf(j, w).bb)
  <1> DEFINE c == sq[j].completions
             bb == KindOf(j, w).bb
  <1>1. /\ c \in Seq(Entry) /\ sq[j].consumer \in Nat /\ sq[j].issue \in Nat
        /\ Depth \in Nat \ {0} /\ TileOK(j)
    BY JettyParts, PipeFields, SizeAssumption
  <1>2. PICK f : Tiles(c, f, sq[j].consumer, sq[j].issue)
    BY <1>1 DEF TileOK
  <1>3. /\ bb \in Nat \ {0} /\ sq[j].issue + bb <= sq[j].consumer + Depth
    BY WqeFacts DEF Fits, KindOf
  <1> HIDE DEF bb
  <1>4. ASSUME NEW k \in DOMAIN c PROVE c[k].index # LastIndex(sq[j], bb)
    <2>1. k \in 1..Len(c) /\ Len(c) \in Nat
      BY <1>1, <1>4
    <2> HIDE DEF c
    <2>2. /\ f[k + 1] \in Nat /\ f[1] \in Nat /\ f[Len(c) + 1] \in Nat
          /\ f[1] = sq[j].consumer /\ f[Len(c) + 1] = sq[j].issue
          /\ c[k].index = (f[k + 1] - 1) % Depth
      BY <1>2, <2>1 DEF Tiles
    <2>3. f[1] < f[k + 1]
      BY <1>2, <2>1 DEF Tiles
    <2>4. f[k + 1] <= f[Len(c) + 1]
      <3>1. CASE k = Len(c)
        BY <2>2, <3>1
      <3>2. CASE k < Len(c)
        <4>1. k + 1 \in 1..(Len(c) + 1) /\ Len(c) + 1 \in 1..(Len(c) + 1)
              /\ k + 1 < Len(c) + 1
          BY <2>1, <3>2
        <4>2. f[k + 1] < f[Len(c) + 1]
          BY <1>2, <4>1 DEF Tiles
        <4> QED BY <2>2, <4>2
      <3> QED BY <2>1, <3>1, <3>2
    <2>5. PICK a \in Int : a = f[k + 1] - 1
      BY <2>2
    <2>6. PICK b \in Int : b = sq[j].issue + bb - 1
      BY <1>1, <1>3
    <2>6a. a + 1 > sq[j].consumer /\ a + 1 <= sq[j].issue
      BY <2>2, <2>3, <2>4, <2>5
    <2>6b. PICK i \in Nat : i = sq[j].issue
      BY <1>1
    <2>6c. PICK u \in Nat : u = sq[j].consumer
      BY <1>1
    <2>6d. PICK t \in Nat : t = bb /\ t # 0
      BY <1>3
    <2>6e. /\ i + t <= u + Depth /\ a + 1 > u /\ a + 1 <= i /\ b = i + t - 1
           /\ Depth \in Nat
      BY <1>1, <1>3, <2>6, <2>6a, <2>6b, <2>6c, <2>6d
    <2>7. a - b < Depth /\ b - a < Depth /\ a # b
      BY <2>6d, <2>6e
    <2>8. a % Depth # b % Depth
      BY <1>1, <2>7, SameSlot
    <2> QED BY <2>2, <2>5, <2>6, <2>8 DEF LastIndex
  <1>5. \A v, i : Waiting(j, v, i) => i # LastIndex(sq[j], bb)
    BY <1>4 DEF Waiting
  <1>6. NetOK(j) /\ PreparedOK(j)
    BY JettyParts
  <1>7. \A r \in net : r.j = j => r.index # LastIndex(sq[j], bb)
    BY <1>5, <1>6 DEF NetOK
  <1>8. \A k \in DOMAIN sq[j].prepared : sq[j].prepared[k].index # LastIndex(sq[j], bb)
    BY <1>5, <1>6 DEF PreparedOK
  <1> QED BY <1>4, <1>5, <1>7, <1>8 DEF bb

\* Jetty j reserves the slots of WQE w.
Reserved(j, w, ready) ==
    /\ sq'[j].live = sq[j].live /\ sq'[j].busy = sq[j].busy
    /\ sq'[j].consumer = sq[j].consumer /\ sq'[j].target = sq[j].target
    /\ sq'[j].direct = sq[j].direct /\ sq'[j].cache \subseteq sq[j].cache
    /\ sq'[j].issue = sq[j].issue + KindOf(j, w).bb
    /\ sq'[j].completions = Append(sq[j].completions, NewEntry(j, w, ready))
    /\ sq'[j].fetching = "sync" /\ sq'[j].ordered = KindOf(j, w).ordered

\* The entries with the new one appended.
LEMMA ReservedEntries ==
    ASSUME IInv, NEW j \in Jettys, NEW w, NEW ready \in BOOLEAN, Fits(j, w),
           ~sq[j].ordered, KindOf(j, w).ordered => sq[j].completions = <<>>,
           posted' = posted, Reserved(j, w, ready),
           NEW x, x = LastIndex(sq[j], KindOf(j, w).bb)
    PROVE  /\ EntryOK(j)' /\ TileOK(j)' /\ FenceOK(j)'
           /\ \A v, i : Waiting(j, v, i) => Waiting(j, v, i)'
           /\ ~ready => Waiting(j, w, x)'
  <1> DEFINE c == sq[j].completions
             n == Len(c)
             bb == KindOf(j, w).bb
             e == NewEntry(j, w, ready)
  <1>1. /\ c \in Seq(Entry) /\ sq[j].consumer \in Nat /\ sq[j].issue \in Nat
        /\ sq[j].target \in Nat /\ Depth \in Nat \ {0}
        /\ TileOK(j) /\ EntryOK(j) /\ FenceOK(j)
    BY JettyParts, PipeFields, SizeAssumption
  <1>2. w \in DOMAIN posted[j]
    BY DEF Fits
  <1>3. /\ e \in Entry /\ e.w = w /\ e.ready = ready /\ e.index = LastIndex(sq[j], bb)
        /\ e.bb = bb /\ e.pub = "no"
    BY <1>2, NewEntryType
  <1>4. /\ bb \in Nat \ {0} /\ sq[j].issue + bb <= sq[j].consumer + Depth
        /\ sq[j].issue + bb <= sq[j].target
    BY <1>2, WqeFacts DEF Fits, KindOf
  <1>5. n \in Nat /\ DOMAIN c = 1..n
    BY <1>1
  <1> HIDE DEF e, c
  <1>6. /\ sq'[j].completions = Append(c, e) /\ Len(Append(c, e)) = n + 1
        /\ DOMAIN Append(c, e) = 1..(n + 1) /\ Append(c, e)[n + 1] = e
        /\ \A k \in 1..n : Append(c, e)[k] = c[k]
    BY <1>1, <1>3 DEF Reserved, c, e
  <1>7. EntryOK(j)'
    <2> SUFFICES ASSUME NEW k \in 1..(n + 1)
                 PROVE  /\ Append(c, e)[k].w \in DOMAIN posted[j]
                        /\ Append(c, e)[k].bb = posted[j][Append(c, e)[k].w].kind.bb
                        /\ Append(c, e)[k].pub # "no" => Append(c, e)[k].ready
      BY <1>6 DEF EntryOK
    <2>1. CASE k = n + 1
      BY <1>2, <1>3, <1>6, <2>1 DEF KindOf
    <2>2. CASE k \in 1..n
      BY <1>1, <1>5, <1>6, <2>2 DEF EntryOK, c
    <2> QED BY <1>5, <2>1, <2>2
  <1>8. FenceOK(j)'
    <2> SUFFICES ASSUME NEW k \in 1..(n + 1),
                        posted[j][Append(c, e)[k].w].kind.ordered
                 PROVE  Len(Append(c, e)) = 1 /\ sq'[j].ordered
      BY <1>6 DEF FenceOK
    <2>1. CASE k = n + 1
      <3>1. KindOf(j, w).ordered
        BY <1>3, <1>6, <2>1 DEF KindOf
      <3>2. c = <<>> /\ sq'[j].ordered
        BY <3>1 DEF Reserved, c
      <3> QED BY <1>5, <1>6, <3>2
    <2>2. CASE k \in 1..n
      BY <1>1, <1>5, <1>6, <2>2 DEF FenceOK, c
    <2> QED BY <1>5, <2>1, <2>2
  <1>9. TileOK(j)'
    <2>1. PICK f : Tiles(c, f, sq[j].consumer, sq[j].issue)
      BY <1>1 DEF TileOK, c
    <2> DEFINE g == [k \in 1..(n + 2) |-> IF k = n + 2 THEN sq[j].issue + bb ELSE f[k]]
    <2>2. /\ f \in [1..(n + 1) -> Nat] /\ f[1] = sq[j].consumer /\ f[n + 1] = sq[j].issue
          /\ \A k \in 1..n : f[k + 1] = f[k] + c[k].bb /\ c[k].index = (f[k + 1] - 1) % Depth
          /\ \A k, m \in 1..(n + 1) : k < m => f[k] < f[m]
      BY <2>1 DEF Tiles
    <2>3. /\ \A k \in 1..(n + 1) : g[k] = f[k]
          /\ g[n + 2] = sq[j].issue + bb /\ g \in [1..(n + 2) -> Nat]
      BY <1>1, <1>4, <1>5, <2>2
    <2> HIDE DEF g
    <2>4. g[1] = sq[j].consumer /\ g[n + 1] = sq[j].issue
      BY <1>5, <2>2, <2>3
    <2>5. ASSUME NEW k \in 1..(n + 1)
          PROVE  /\ g[k + 1] = g[k] + Append(c, e)[k].bb
                 /\ Append(c, e)[k].index = (g[k + 1] - 1) % Depth
      <3>1. CASE k = n + 1
        <4>1. g[k + 1] = sq[j].issue + bb /\ g[k] = sq[j].issue /\ Append(c, e)[k] = e
          BY <1>5, <1>6, <2>3, <2>4, <3>1
        <4>2. e.index = (sq[j].issue + bb - 1) % Depth
          BY <1>3 DEF LastIndex
        <4>3. g[k + 1] - 1 = sq[j].issue + bb - 1
          BY <1>1, <1>4, <4>1
        <4>4. Append(c, e)[k].index = (g[k + 1] - 1) % Depth
          BY <4>1, <4>2, <4>3
        <4>5. Append(c, e)[k].bb = bb
          BY <1>3, <4>1
        <4> QED BY <4>1, <4>4, <4>5
      <3>2. CASE k \in 1..n
        <4>1. g[k + 1] = f[k + 1] /\ g[k] = f[k] /\ Append(c, e)[k] = c[k]
          BY <1>5, <1>6, <2>3, <3>2
        <4> QED BY <2>2, <3>2, <4>1
      <3> QED BY <1>5, <3>1, <3>2
    <2>6. ASSUME NEW k \in 1..(n + 2), NEW m \in 1..(n + 2), k < m
          PROVE  g[k] < g[m]
      <3>1. CASE m = n + 2
        <4>1. k \in 1..(n + 1) /\ g[k] = f[k] /\ f[k] \in Nat
          BY <1>5, <2>2, <2>3, <2>6, <3>1
        <4>2. f[k] <= f[n + 1]
          BY <1>1, <1>5, <2>2, <4>1, SMTT(30)
        <4> QED BY <1>1, <1>4, <2>2, <2>3, <3>1, <4>1, <4>2
      <3>2. CASE m # n + 2
        BY <1>5, <2>2, <2>3, <2>6, <3>2
      <3> QED BY <3>1, <3>2
    <2>7. /\ (n + 1) + 1 = n + 2 /\ Len(Append(c, e)) = n + 1
      BY <1>5, <1>6
    <2>8. PICK to \in Nat : to = sq[j].issue + bb
      BY <1>1, <1>4
    <2>9. Tiles(Append(c, e), g, sq[j].consumer, to)
      BY <2>3, <2>4, <2>5, <2>6, <2>7, <2>8 DEF Tiles
    <2>10. /\ sq'[j].consumer = sq[j].consumer /\ sq'[j].issue = to
           /\ sq'[j].target = sq[j].target
      BY <2>8 DEF Reserved
    <2>11. PICK h : h = g
      OBVIOUS
    <2>12. Tiles(Append(c, e), h, sq[j].consumer, to)
      BY <2>9, <2>11
    <2>13. Tiles(sq[j].completions, h, sq[j].consumer, sq[j].issue)'
      BY <1>6, <2>10, <2>12 DEF Tiles
    <2>14. sq'[j].issue <= sq'[j].consumer + Depth /\ sq'[j].issue <= sq'[j].target
      BY <1>4, <2>8, <2>10
    <2> QED BY <2>13, <2>14 DEF TileOK
  <1>10. \A v, i : Waiting(j, v, i) => Waiting(j, v, i)'
    <2> SUFFICES ASSUME NEW v, NEW i, Waiting(j, v, i) PROVE Waiting(j, v, i)'
      OBVIOUS
    <2>1. PICK k \in 1..n : c[k].w = v /\ c[k].index = i /\ ~c[k].ready
      BY <1>5 DEF Waiting, c
    <2>2. k \in 1..(n + 1) /\ Append(c, e)[k] = c[k]
      BY <1>5, <1>6, <2>1
    <2> QED BY <1>6, <2>1, <2>2 DEF Waiting
  <1>11. ASSUME ~ready PROVE Waiting(j, w, x)'
    <2>1. n + 1 \in 1..(n + 1)
      BY <1>5
    <2> QED BY <1>3, <1>6, <1>11, <2>1 DEF Waiting
  <1> QED BY <1>7, <1>8, <1>9, <1>10, <1>11

\* Whatever waits keeps its entry.
LEMMA FlightSame ==
    ASSUME IInv, NEW j \in Jettys, posted' = posted, net' = net,
           sq'[j].prepared = sq[j].prepared,
           \A v, i : Waiting(j, v, i) => Waiting(j, v, i)'
    PROVE  NetOK(j)' /\ PreparedOK(j)'
  <1>1. NetOK(j) /\ PreparedOK(j)
    BY JettyParts
  <1>2. NetOK(j)'
    <2>1. \A r \in net : r.j = j => Waiting(j, r.w, r.index)'
      BY <1>1 DEF NetOK
    <2> QED BY <1>1, <2>1 DEF NetOK
  <1>3. PreparedOK(j)'
    <2> SUFFICES ASSUME NEW k \in DOMAIN sq[j].prepared
                 PROVE  /\ Waiting(j, sq[j].prepared[k].w, sq[j].prepared[k].index)'
                        /\ posted[j][sq[j].prepared[k].w].kind.op = "WRITE"
                        /\ \A m \in DOMAIN sq[j].prepared :
                              sq[j].prepared[m].index = sq[j].prepared[k].index => m = k
                        /\ \A r \in net : r.j = j => r.index # sq[j].prepared[k].index
      BY DEF PreparedOK
    <2>1. PICK v : v = sq[j].prepared[k].w
      OBVIOUS
    <2>2. PICK i : i = sq[j].prepared[k].index
      OBVIOUS
    <2>3. Waiting(j, v, i)'
      BY <1>1, <2>1, <2>2 DEF PreparedOK
    <2>4. Waiting(j, sq[j].prepared[k].w, sq[j].prepared[k].index)'
      BY <2>1, <2>2, <2>3 DEF Waiting
    <2> QED BY <1>1, <2>4 DEF PreparedOK
  <1> QED BY <1>2, <1>3

\* A request is given to the network.
LEMMA FlightSent ==
    ASSUME IInv, NEW j \in Jettys, NEW w, NEW x, Fits(j, w),
           x = LastIndex(sq[j], KindOf(j, w).bb),
           NEW r, r.j = j, r.w = w, r.index = x, net' = net \cup {r},
           sq'[j].prepared = <<>>,
           \A v, i : Waiting(j, v, i) => Waiting(j, v, i)', Waiting(j, w, x)'
    PROVE  NetOK(j)' /\ PreparedOK(j)'
  <1>1. NetOK(j)
    BY JettyParts
  <1>2. \A q \in net : q.j = j => q.index # x
    BY FreshIndex
  <1>3. \A q \in net' : q.j = j => Waiting(j, q.w, q.index)'
    <2> SUFFICES ASSUME NEW q \in net', q.j = j PROVE Waiting(j, q.w, q.index)'
      OBVIOUS
    <2>1. CASE q = r
      BY <2>1
    <2>2. CASE q \in net
      BY <1>1, <2>2 DEF NetOK
    <2> QED BY <2>1, <2>2
  <1>4. \A p, q \in net' : p.j = j /\ q.j = j /\ p.index = q.index => p = q
    BY <1>1, <1>2 DEF NetOK
  <1>5. NetOK(j)'
    BY <1>3, <1>4 DEF NetOK
  <1>6. PreparedOK(j)'
    BY DEF PreparedOK
  <1> QED BY <1>5, <1>6

\* The payload of a WRITE is going to be read.
LEMMA FlightPrepared ==
    ASSUME IInv, NEW j \in Jettys, NEW w, NEW x, Fits(j, w), posted' = posted,
           x = LastIndex(sq[j], KindOf(j, w).bb), KindOf(j, w).op = "WRITE",
           NEW p, p.w = w, p.index = x, net' = net,
           sq'[j].prepared = Append(sq[j].prepared, p),
           \A v, i : Waiting(j, v, i) => Waiting(j, v, i)', Waiting(j, w, x)'
    PROVE  NetOK(j)' /\ PreparedOK(j)'
  <1>1. NetOK(j) /\ PreparedOK(j) /\ sq[j].prepared \in Seq(PreparedWrite)
    BY JettyParts, PipeFields
  <1>2. NetOK(j)'
    <2>1. \A r \in net : r.j = j => Waiting(j, r.w, r.index)'
      BY <1>1 DEF NetOK
    <2> QED BY <1>1, <2>1 DEF NetOK
  <1>3. PICK n \in Nat : n = Len(sq[j].prepared)
    BY <1>1
  <1>4. /\ DOMAIN sq'[j].prepared = 1..(n + 1) /\ sq'[j].prepared[n + 1] = p
        /\ DOMAIN sq[j].prepared = 1..n
        /\ \A k \in 1..n : sq'[j].prepared[k] = sq[j].prepared[k]
    BY <1>1, <1>3
  <1>5. /\ \A r \in net : r.j = j => r.index # x
        /\ \A k \in 1..n : sq[j].prepared[k].index # x
    BY <1>4, FreshIndex
  <1>6. ASSUME NEW k \in 1..(n + 1)
        PROVE  /\ Waiting(j, sq[j].prepared[k].w, sq[j].prepared[k].index)'
               /\ posted[j][sq'[j].prepared[k].w].kind.op = "WRITE"
               /\ \A m \in 1..(n + 1) :
                     sq'[j].prepared[m].index = sq'[j].prepared[k].index => m = k
               /\ \A r \in net : r.j = j => r.index # sq'[j].prepared[k].index
    <2>1. CASE k = n + 1
      <3>1. sq'[j].prepared[k].w = w /\ sq'[j].prepared[k].index = x
        BY <1>4, <2>1
      <3>2. Waiting(j, sq[j].prepared[k].w, sq[j].prepared[k].index)'
        BY <3>1 DEF Waiting
      <3>3. \A m \in 1..(n + 1) : m # k => m \in 1..n
        BY <1>3, <2>1
      <3>4. \A m \in 1..(n + 1) : sq'[j].prepared[m].index = x => m = k
        BY <1>4, <1>5, <3>3
      <3> QED BY <1>5, <3>1, <3>2, <3>4 DEF KindOf
    <2>2. CASE k \in 1..n
      <3>1. sq'[j].prepared[k] = sq[j].prepared[k]
        BY <1>4, <2>2
      <3>2. PICK v : v = sq[j].prepared[k].w
        OBVIOUS
      <3>3. PICK i : i = sq[j].prepared[k].index
        OBVIOUS
      <3>4. /\ Waiting(j, v, i)' /\ i # x
        BY <1>1, <1>4, <1>5, <2>2, <3>2, <3>3 DEF PreparedOK
      <3>5. Waiting(j, sq[j].prepared[k].w, sq[j].prepared[k].index)'
        BY <3>1, <3>2, <3>3, <3>4 DEF Waiting
      <3>6. ASSUME NEW m \in 1..(n + 1), sq'[j].prepared[m].index = i PROVE m = k
        <4>1. m # n + 1
          BY <1>4, <3>4, <3>6
        <4>2. m \in 1..n
          BY <1>3, <4>1
        <4> QED BY <1>1, <1>4, <2>2, <3>3, <3>6, <4>2 DEF PreparedOK
      <3>7. /\ posted[j][v].kind.op = "WRITE" /\ \A r \in net : r.j = j => r.index # i
        BY <1>1, <1>4, <2>2, <3>2, <3>3 DEF PreparedOK
      <3> QED BY <3>1, <3>2, <3>3, <3>5, <3>6, <3>7
    <2> QED BY <1>3, <2>1, <2>2, SMTT(30)
  <1>7. PreparedOK(j)'
    BY <1>4, <1>6 DEF PreparedOK
  <1> QED BY <1>2, <1>7

\* A step that reserves the slots of a WQE.
LEMMA ReservedStep ==
    ASSUME IInv, NEW j \in Jettys, NEW w, NEW ready \in BOOLEAN, Fits(j, w),
           ~sq[j].ordered, KindOf(j, w).ordered => sq[j].completions = <<>>,
           sq[j].live, sq[j].fetching # "no",
           Reserved(j, w, ready), posted' = posted, fetches' = fetches,
           draining' = draining, StepOf(j), TypeOK', StackInv', Retries => Retries',
           stack' # <<>>, stack'[1].op \notin Heads, NetOK(j)', PreparedOK(j)'
    PROVE  IInv'
  <1>1. PICK x : x = LastIndex(sq[j], KindOf(j, w).bb)
    OBVIOUS
  <1>2. EntryOK(j)' /\ TileOK(j)' /\ FenceOK(j)'
    BY <1>1, ReservedEntries
  <1>3. sq[j].busy /\ sq'[j].busy /\ sq'[j].live
    BY JettyParts DEF BusyOK, Reserved
  <1>4. LiveOK(j)' /\ BusyOK(j)' /\ ReadOK(j)' /\ TopOK(j)'
    BY <1>3 DEF LiveOK, BusyOK, ReadOK, TopOK, Top, Heads, Reserved
  <1>5. PostedOK(j)'
    <2>1. PostedOK(j)
      BY JettyParts
    <2>2. sq'[j].cache \subseteq sq[j].cache /\ sq'[j].direct = sq[j].direct
      BY DEF Reserved
    <2>3. IsFiniteSet(sq'[j].cache)
      BY <2>1, <2>2, FS_Subset DEF PostedOK
    <2> QED BY <2>1, <2>2, <2>3 DEF PostedOK
  <1>6. DestroyInv'
    <2>1. ResourceQueueBusy(j)'
      BY <1>3 DEF ResourceQueueBusy
    <2> QED BY <1>3, <2>1, DestroyStep
  <1> QED BY <1>2, <1>4, <1>5, <1>6, StepInv

\* ReserveSq, as an update of the jetty.
Uncached(j, w) ==
    {c \in sq[j].cache : c.at \notin sq[j].issue..(sq[j].issue + KindOf(j, w).bb - 1)}

\* Types after ReserveSq.
LEMMA ReserveTypes ==
    ASSUME IInv, NEW j \in Jettys, NEW w, Fits(j, w), NEW ready \in BOOLEAN
    PROVE  /\ Append(sq[j].completions, NewEntry(j, w, ready)) \in Seq(Entry)
           /\ Uncached(j, w) \in SUBSET Cached /\ Uncached(j, w) \subseteq sq[j].cache
           /\ sq[j].issue + KindOf(j, w).bb \in Nat /\ KindOf(j, w).ordered \in BOOLEAN
           /\ w \in Numbers
  <1>1. w \in DOMAIN posted[j]
    BY DEF Fits
  <1>2. NewEntry(j, w, ready) \in Entry
    BY <1>1, NewEntryType
  <1>3. /\ KindOf(j, w).bb \in Nat /\ KindOf(j, w).ordered \in BOOLEAN /\ w \in Numbers
    BY <1>1, WqeFacts DEF KindOf
  <1>4. /\ sq[j].completions \in Seq(Entry) /\ sq[j].cache \in SUBSET Cached
        /\ sq[j].issue \in Nat
    BY JettyParts, PipeFields
  <1>5. Append(sq[j].completions, NewEntry(j, w, ready)) \in Seq(Entry)
    BY <1>2, <1>4
  <1> QED BY <1>3, <1>4, <1>5 DEF Uncached

\* An entry that is completed as soon as it is reserved.
Extended(s, j, w) == s.completions = Append(sq[j].completions, NewEntry(j, w, FALSE))

\* CompleteSq on s leaves the entries c and changes nothing else.
CompletedAs(s, x, bb, c) == CompleteSq(s, x, bb) = [s EXCEPT !.completions = c]

\* A request completed as soon as it is reserved.
LEMMA CompleteNew ==
    ASSUME IInv, NEW j \in Jettys, NEW w, Fits(j, w), NEW s, Extended(s, j, w),
           NEW bb, bb = KindOf(j, w).bb, NEW x, x = LastIndex(sq[j], bb)
    PROVE  /\ Completing(s, x, bb) # {}
           /\ CompletedAs(s, x, bb, Append(sq[j].completions, NewEntry(j, w, TRUE)))
  <1> DEFINE c == sq[j].completions
             e == NewEntry(j, w, FALSE)
             d == NewEntry(j, w, TRUE)
  <1>1. c \in Seq(Entry)
    BY JettyParts, PipeFields
  <1>2. w \in DOMAIN posted[j]
    BY DEF Fits
  <1>3. /\ e \in Entry /\ e.index = x /\ e.bb = bb /\ ~e.ready /\ e.w = w /\ e.pub = "no"
        /\ d \in Entry /\ d.index = x /\ d.bb = bb /\ d.ready = TRUE /\ d.w = w
        /\ d.pub = "no"
    BY <1>2, NewEntryType
  <1>5. \A k \in DOMAIN c : c[k].index # x
    BY FreshIndex
  <1>6. PICK n \in Nat : n = Len(c) /\ DOMAIN c = 1..n
    BY <1>1
  <1> HIDE DEF c, e, d
  <1>4. d = [e EXCEPT !.ready = TRUE]
    <2>1. PICK y : y = [e EXCEPT !.ready = TRUE]
      OBVIOUS
    <2>2. /\ y \in Entry /\ y.index = e.index /\ y.bb = e.bb /\ y.ready = TRUE
          /\ y.w = e.w /\ y.pub = e.pub
      BY <1>3, <2>1 DEF Entry
    <2>3. y = d
      BY <1>3, <2>2 DEF Entry
    <2> QED BY <2>1, <2>3
  <1>7. /\ s.completions = Append(c, e) /\ DOMAIN Append(c, e) = 1..(n + 1)
        /\ Append(c, e)[n + 1] = e /\ \A k \in 1..n : Append(c, e)[k] = c[k]
        /\ Append(c, d) \in Seq(Entry) /\ DOMAIN Append(c, d) = 1..(n + 1)
        /\ Append(c, d)[n + 1] = d /\ \A k \in 1..n : Append(c, d)[k] = c[k]
    <2>1. s.completions = Append(c, e)
      BY DEF Extended, c, e
    <2>2. /\ DOMAIN Append(c, e) = 1..(n + 1)
          /\ Append(c, e)[n + 1] = e /\ \A k \in 1..n : Append(c, e)[k] = c[k]
      BY <1>1, <1>3, <1>6
    <2>3. /\ Append(c, d) \in Seq(Entry) /\ DOMAIN Append(c, d) = 1..(n + 1)
          /\ Append(c, d)[n + 1] = d /\ \A k \in 1..n : Append(c, d)[k] = c[k]
      BY <1>1, <1>3, <1>6
    <2> QED BY <2>1, <2>2, <2>3
  <1>8. \A k \in 1..(n + 1) : s.completions[k].index = x <=> k = n + 1
    <2> SUFFICES ASSUME NEW k \in 1..(n + 1)
                 PROVE  s.completions[k].index = x <=> k = n + 1
      OBVIOUS
    <2>1. CASE k = n + 1
      BY <1>3, <1>7, <2>1
    <2>2. CASE k \in 1..n
      BY <1>5, <1>6, <1>7, <2>2
    <2> QED BY <1>6, <2>1, <2>2
  <1>9. \A k \in 1..(n + 1) : k \in Completing(s, x, bb) <=> k = n + 1
    <2>1. DOMAIN s.completions = 1..(n + 1) /\ s.completions[n + 1] = e
          /\ n + 1 \in 1..(n + 1) /\ n + 1 \in Nat
      BY <1>6, <1>7
    <2>2. {k \in DOMAIN s.completions : s.completions[k].index = x} = {n + 1}
      BY <1>8, <2>1
    <2>3. Completing(s, x, bb) =
             {k \in {n + 1} : /\ \A m \in {n + 1} : k <= m
                              /\ ~s.completions[k].ready /\ s.completions[k].bb = bb}
      BY <2>2 DEF Completing
    <2>4. n + 1 \in Completing(s, x, bb)
      BY <1>3, <2>1, <2>3
    <2> QED BY <2>3, <2>4
  <1>10. Completing(s, x, bb) # {}
    BY <1>6, <1>9
  <1> DEFINE h == [k \in 1..(n + 1) |->
                      IF k \in Completing(s, x, bb)
                      THEN [s.completions[k] EXCEPT !.ready = TRUE] ELSE s.completions[k]]
  <1>11. \A k \in 1..(n + 1) : h[k] = Append(c, d)[k]
    <2> SUFFICES ASSUME NEW k \in 1..(n + 1) PROVE h[k] = Append(c, d)[k]
      OBVIOUS
    <2>1. CASE k = n + 1
      <3>1. h[k] = [s.completions[k] EXCEPT !.ready = TRUE]
        BY <1>9, <2>1
      <3>2. s.completions[k] = e
        BY <1>7, <2>1
      <3> QED BY <1>4, <1>7, <2>1, <3>1, <3>2
    <2>2. CASE k \in 1..n
      <3>1. h[k] = s.completions[k]
        BY <1>6, <1>9, <2>2
      <3> QED BY <1>7, <2>2, <3>1
    <2> QED BY <1>6, <2>1, <2>2
  <1>12. h = Append(c, d)
    <2>1. /\ DOMAIN h = 1..(n + 1) /\ h = [k \in 1..(n + 1) |-> h[k]]
      OBVIOUS
    <2>2. PICK q : q = Append(c, d)
      OBVIOUS
    <2>3. q \in Seq(Entry) /\ DOMAIN q = 1..(n + 1)
      BY <1>7, <2>2
    <2>4. q = [k \in 1..(n + 1) |-> q[k]]
      BY <2>3
    <2>5. \A k \in 1..(n + 1) : h[k] = q[k]
      BY <1>11, <2>2
    <2> HIDE DEF h
    <2> QED BY <2>1, <2>2, <2>4, <2>5
  <1>13. DOMAIN s.completions = 1..(n + 1)
    BY <1>7
  <1>14. CompleteSq(s, x, bb) = [s EXCEPT !.completions = h]
    BY <1>13 DEF CompleteSq
  <1>15. CompleteSq(s, x, bb) = [s EXCEPT !.completions = Append(c, d)]
    BY <1>12, <1>14
  <1>16. CompletedAs(s, x, bb, Append(c, d))
    BY <1>15 DEF CompletedAs
  <1> QED BY <1>10, <1>16 DEF c, d

----------------------------------------------------------------------------
(* WQEs are issued *)

\* What HandleSqWqe is called with.
LEMMA HandleFacts ==
    ASSUME IInv, NEW j \in Jettys, Running("handle", j)
    PROVE  /\ Fits(j, Head(stack).w) /\ ~sq[j].ordered /\ sq[j].fetching = "sync"
           /\ sq[j].live /\ stack # <<>> /\ Holds(1, j)
  <1>1. /\ stack # <<>> /\ stack[1].op = "handle" /\ stack[1].j = j
        /\ Head(stack) = stack[1]
    BY RunningCall
  <1>2. Holds(1, j)
    BY <1>1 DEF Holds, Claims
  <1>3. Fits(j, stack[1].w) /\ ~sq[j].ordered
    BY <1>1, JettyParts DEF TopOK, Top
  <1>4. sq[j].fetching = "sync"
    BY <1>1, <1>2, NoClaim
  <1> QED BY <1>1, <1>2, <1>3, <1>4, LiveFacts

\* A frame is given to the network.
LEMMA SendFacts ==
    ASSUME IInv, NEW j \in Jettys, NEW w \in Numbers, NEW x \in 0..(Depth - 1),
           KindOf(j, w).op \in {"READ", "WRITE", "INLINE", "SEND"}, SendFrame(j, w, x)
    PROVE  /\ net' \subseteq Request /\ sent' \in [Jettys -> Seq(Numbers)]
           /\ \A i \in Jettys : i # j => sent'[i] = sent[i]
           /\ sent'[j] = Append(sent[j], w)
           /\ \E r : /\ net' = net \cup {r} /\ r.j = j /\ r.w = w /\ r.index = x
                     /\ r.op = KindOf(j, w).op
  <1>1. PICK r : r = NewRequest(j, w, x)
    OBVIOUS
  <1>2. sq[j].gen \in 0..MaxGen /\ net \subseteq Request /\ sent \in [Jettys -> Seq(Numbers)]
    BY JettyParts, PipeFields
  <1>3. /\ r \in Request /\ r.j = j /\ r.w = w /\ r.index = x
        /\ r.op = KindOf(j, w).op
    BY <1>1, <1>2 DEF NewRequest, Request
  <1>4. net' = net \cup {r} /\ sent' = [sent EXCEPT ![j] = Append(sent[j], w)]
    BY <1>1 DEF SendFrame
  <1>5. Append(sent[j], w) \in Seq(Numbers)
    BY <1>2
  <1>6. /\ sent' \in [Jettys -> Seq(Numbers)] /\ sent'[j] = Append(sent[j], w)
        /\ \A i \in Jettys : i # j => sent'[i] = sent[i]
    BY <1>2, <1>4, <1>5
  <1> QED BY <1>2, <1>3, <1>4, <1>6

\* Joining two sequences of calls.
LEMMA Joined ==
    ASSUME NEW S, NEW p \in Seq(S), NEW q \in Seq(S)
    PROVE  /\ p \o q \in Seq(S) /\ Len(p \o q) = Len(p) + Len(q)
           /\ \A k \in 1..Len(p) : (p \o q)[k] = p[k]
           /\ \A k \in 1..Len(q) : (p \o q)[k + Len(p)] = q[k]
  OBVIOUS

\* Calls joined to the stack below the running call.
LEMMA PushedJoin ==
    ASSUME stack \in Seq(Frame), stack # <<>>, NEW a \in Frame, NEW b \in Frame
    PROVE  /\ Pushed((<<a>> \o <<b>>) \o Rest, stack, 2, 1)
           /\ ((<<a>> \o <<b>>) \o Rest)[1] = a /\ ((<<a>> \o <<b>>) \o Rest)[2] = b
  <1>1. PICK q : q = <<a>> \o <<b>>
    OBVIOUS
  <1>2. q \in Seq(Frame) /\ Len(q) = 2 /\ q[1] = a /\ q[2] = b
    BY <1>1
  <1>3. PICK t \in Seq(Frame) : /\ t = Rest /\ Len(t) = Len(stack) - 1
                                /\ \A k \in 1..Len(t) : t[k] = stack[k + 1]
    <2>1. /\ Rest \in Seq(Frame) /\ Len(Rest) = Len(stack) - 1
          /\ \A k \in 1..Len(Rest) : Rest[k] = stack[k + 1]
      BY DEF Rest
    <2> QED BY <2>1
  <1>4. PICK n \in Nat : n = Len(stack) /\ DOMAIN stack = 1..n
    OBVIOUS
  <1>5. PICK z : z = q \o t
    OBVIOUS
  <1>6. /\ z \in Seq(Frame) /\ Len(z) = Len(q) + Len(t)
        /\ \A k \in 1..Len(q) : z[k] = q[k]
        /\ \A k \in 1..Len(t) : z[k + Len(q)] = t[k]
    <2>1. q \in Seq(Frame) /\ t \in Seq(Frame)
      BY <1>2
    <2>2. /\ q \o t \in Seq(Frame) /\ Len(q \o t) = Len(q) + Len(t)
          /\ \A k \in 1..Len(q) : (q \o t)[k] = q[k]
          /\ \A k \in 1..Len(t) : (q \o t)[k + Len(q)] = t[k]
      BY <2>1, Joined
    <2> QED BY <1>5, <2>2
  <1>7. /\ Len(z) = n + 1 /\ z[1] = a /\ z[2] = b
        /\ \A k \in 1..(n - 1) : z[k + 2] = stack[k + 1]
    BY <1>2, <1>3, <1>4, <1>6
  <1>8. ASSUME NEW k \in 1..(n + 1), k > 2
        PROVE  k - 1 \in 1..n /\ z[k] = stack[k - 1]
    <2>1. k - 2 \in 1..(n - 1) /\ (k - 2) + 2 = k /\ (k - 2) + 1 = k - 1
      BY <1>8
    <2>2. z[(k - 2) + 2] = stack[(k - 2) + 1]
      BY <1>7, <2>1
    <2> QED BY <1>8, <2>1, <2>2
  <1>9. Pushed(z, stack, 2, 1)
    BY <1>4, <1>6, <1>7, <1>8 DEF Pushed
  <1> QED BY <1>1, <1>3, <1>5, <1>7, <1>9

\* The claim passes from the running call to its continuation.
LEMMA ResumeStack ==
    ASSUME IInv, NEW j \in Jettys, stack # <<>>, Holds(1, j),
           \A i \in Jettys : i # j => sq'[i] = sq[i], sq'[j].fetching = "sync",
           \/ stack' = <<Call("resume", j)>> \o Rest
           \/ stack' = (<<Call("retire", j)>> \o <<Call("resume", j)>>) \o Rest
    PROVE  /\ StackInv' /\ stack' \in Seq(Frame) /\ (Retries => Retries')
           /\ stack' # <<>> /\ stack'[1].op \notin Heads
  <1>0. "resume" \in FrameOps /\ "retire" \in FrameOps
    BY DEF FrameOps
  <1>n. "resume" \notin Heads /\ "retire" \notin Heads /\ "retire" \notin Claims
    BY DEF Heads, Claims
  <1>1. CASE stack' = <<Call("resume", j)>> \o Rest
    <2>1. /\ Pushed(stack', stack, 1, 0) /\ stack'[1].op = "resume" /\ stack'[1].j = j
      BY <1>0, <1>1, OneCall
    <2> QED BY <1>n, <2>1, ClaimStack
  <1>2. CASE stack' = (<<Call("retire", j)>> \o <<Call("resume", j)>>) \o Rest
    <2>1. /\ Pushed(stack', stack, 2, 1) /\ stack'[1] = Call("retire", j)
          /\ stack'[2] = Call("resume", j)
          /\ Call("retire", j).op = "retire" /\ Call("retire", j).j = j
          /\ Call("resume", j).op = "resume" /\ Call("resume", j).j = j
      <3>1. stack \in Seq(Frame)
        BY DEF IInv, TypeOK
      <3>2. /\ Call("retire", j) \in Frame /\ Call("resume", j) \in Frame
            /\ Call("retire", j).op = "retire" /\ Call("retire", j).j = j
            /\ Call("resume", j).op = "resume" /\ Call("resume", j).j = j
        BY <1>0, CallType
      <3> QED BY <1>2, <3>1, <3>2, PushedJoin
    <2>2. /\ stack'[1].op = "retire" /\ stack'[1].j = j
          /\ stack'[2].op = "resume" /\ stack'[2].j = j
      BY <2>1
    <2> QED BY <1>n, <2>1, <2>2, ClaimStack
  <1> QED BY <1>1, <1>2

\* A READ or an inline WRITE is sent at once.
SendsNow(j, w) ==
    /\ Running("handle", j) /\ w = Head(stack).w /\ ~Waits(j, w)
    /\ KindOf(j, w).op \in {"READ", "INLINE"}
    /\ sq' = [sq EXCEPT ![j] = ReserveSq(j, sq[j], w)]
    /\ SendFrame(j, w, LastIndex(sq[j], KindOf(j, w).bb))
    /\ stack' = <<Call("resume", j)>> \o Rest
    /\ UNCHANGED <<posted, fetches, route, draining, faults>>

\* A READ or an inline WRITE is issued.
LEMMA IssueNow ==
    ASSUME IInv, NEW j \in Jettys, NEW w, SendsNow(j, w)
    PROVE  IInv'
  <1>p. /\ sq \in [Jettys -> Pipe] /\ sq[j] \in Pipe /\ posted[j] \in Seq(Wqe)
        /\ stack \in Seq(Frame)
    BY JettyParts
  <1>1. /\ Fits(j, w) /\ ~sq[j].ordered /\ sq[j].fetching = "sync" /\ sq[j].live
        /\ stack # <<>> /\ Holds(1, j) /\ w \in DOMAIN posted[j]
    BY HandleFacts DEF Fits, SendsNow
  <1>un. UNCHANGED <<posted, fetches, route, draining, faults>>
    BY DEF SendsNow
  <1>2. sq[j].prepared = <<>> /\ (KindOf(j, w).ordered => sq[j].completions = <<>>)
    BY DEF Waits, SendsNow
  <1>c. PICK cc : cc = Append(sq[j].completions, NewEntry(j, w, FALSE))
    OBVIOUS
  <1>d. PICK ca : ca = Uncached(j, w)
    OBVIOUS
  <1>e. PICK nx : nx = sq[j].issue + KindOf(j, w).bb
    OBVIOUS
  <1>f. PICK o : o = KindOf(j, w).ordered
    OBVIOUS
  <1>t. cc \in Seq(Entry) /\ ca \in SUBSET Cached /\ nx \in Nat /\ o \in BOOLEAN
        /\ ca \subseteq sq[j].cache /\ w \in Numbers
    BY <1>1, <1>c, <1>d, <1>e, <1>f, ReserveTypes
  <1>u. sq' = [sq EXCEPT ![j] = [sq[j] EXCEPT !.completions = cc, !.cache = ca,
                                             !.issue = nx, !.ordered = o]]
    BY <1>c, <1>d, <1>e, <1>f DEF ReserveSq, NewEntry, Uncached, NextIssue, SendsNow
  <1>3a. sq' = [sq EXCEPT ![j] = [sq[j] EXCEPT !.completions = cc, !.cache = ca, !.issue = nx, !.ordered = o]]
    BY <1>u
  <1>3b. [sq[j] EXCEPT !.completions = cc, !.cache = ca, !.issue = nx, !.ordered = o] \in Pipe
    BY <1>p, <1>t DEF Pipe
  <1>3c. /\ sq' \in [Jettys -> Pipe] /\ sq'[j] \in Pipe
       /\ sq'[j] = [sq[j] EXCEPT !.completions = cc, !.cache = ca, !.issue = nx, !.ordered = o]
       /\ \A i \in Jettys : i # j => sq'[i] = sq[i]
    BY <1>p, <1>3a, <1>3b, SqUpdated
  <1>3d. /\ sq'[j].live = sq[j].live /\ sq'[j].consumer = sq[j].consumer
       /\ sq'[j].target = sq[j].target /\ sq'[j].direct = sq[j].direct
       /\ sq'[j].busy = sq[j].busy /\ sq'[j].issue = nx
       /\ sq'[j].nextFetch = sq[j].nextFetch /\ sq'[j].cache = ca
       /\ sq'[j].fetching = sq[j].fetching /\ sq'[j].cur = sq[j].cur
       /\ sq'[j].ordered = o /\ sq'[j].failed = sq[j].failed
       /\ sq'[j].prepared = sq[j].prepared /\ sq'[j].completions = cc
       /\ sq'[j].kick = sq[j].kick
    BY <1>p, <1>3c DEF Pipe
  <1>4. Reserved(j, w, FALSE)
    BY <1>c, <1>e, <1>f, <1>t, <1>1, <1>3d DEF Reserved
  <1>5. PICK x \in 0..(Depth - 1) : x = LastIndex(sq[j], KindOf(j, w).bb)
    BY <1>1, NewEntryType
  <1>6. /\ \A v, i : Waiting(j, v, i) => Waiting(j, v, i)'
        /\ Waiting(j, w, x)'
    BY <1>un, <1>1, <1>2, <1>4, <1>5, ReservedEntries
  <1>7. /\ net' \subseteq Request /\ sent' \in [Jettys -> Seq(Numbers)]
        /\ \A i \in Jettys : i # j => sent'[i] = sent[i]
        /\ \E r : net' = net \cup {r} /\ r.j = j /\ r.w = w /\ r.index = x
    <2>1. SendFrame(j, w, x) /\ KindOf(j, w).op \in {"READ", "WRITE", "INLINE", "SEND"}
      BY <1>5 DEF SendsNow
    <2> QED BY <1>t, <2>1, SendFacts
  <1>8. PICK r : net' = net \cup {r} /\ r.j = j /\ r.w = w /\ r.index = x
    BY <1>7
  <1>9. NetOK(j)' /\ PreparedOK(j)'
    BY <1>1, <1>2, <1>3d, <1>5, <1>6, <1>8, FlightSent
  <1>10. /\ StackInv' /\ stack' \in Seq(Frame) /\ (Retries => Retries')
         /\ stack' # <<>> /\ stack'[1].op \notin Heads
    <2>1. stack' = <<Call("resume", j)>> \o Rest /\ sq'[j].fetching = "sync"
      BY <1>1, <1>3d DEF SendsNow
    <2> QED BY <1>1, <1>3c, <2>1, ResumeStack
  <1>11. TypeOK'
    BY <1>un, <1>3c, <1>7, <1>10 DEF IInv, TypeOK
  <1>12. StepOf(j)
    BY <1>un, <1>3c, <1>7, <1>8, <1>10 DEF StepOf
  <1> QED BY <1>un, <1>1, <1>2, <1>4, <1>9, <1>10, <1>11, <1>12, ReservedStep

\* The payload of a WRITE is read first.
Prepares(j, w) ==
    /\ Running("handle", j) /\ w = Head(stack).w /\ ~Waits(j, w)
    /\ KindOf(j, w).op = "WRITE"
    /\ sq' = [sq EXCEPT ![j] =
                 [ReserveSq(j, sq[j], w) EXCEPT !.prepared =
                    Append(@, [w |-> w, index |-> LastIndex(sq[j], KindOf(j, w).bb),
                               state |-> "reading"])]]
    /\ stack' = <<Call("resume", j)>> \o Rest
    /\ UNCHANGED <<posted, fetches, net, route, draining, faults, sent>>

\* A WRITE is issued; its payload read starts.
LEMMA IssueWrite ==
    ASSUME IInv, NEW j \in Jettys, NEW w, Prepares(j, w)
    PROVE  IInv'
  <1>p. /\ sq \in [Jettys -> Pipe] /\ sq[j] \in Pipe /\ posted[j] \in Seq(Wqe)
        /\ stack \in Seq(Frame)
    BY JettyParts
  <1>1. /\ Fits(j, w) /\ ~sq[j].ordered /\ sq[j].fetching = "sync" /\ sq[j].live
        /\ stack # <<>> /\ Holds(1, j) /\ w \in DOMAIN posted[j]
    BY HandleFacts DEF Fits, Prepares
  <1>un. UNCHANGED <<posted, fetches, net, route, draining, faults, sent>>
    BY DEF Prepares
  <1>op. KindOf(j, w).op = "WRITE"
    BY DEF Prepares
  <1>2. KindOf(j, w).ordered => sq[j].completions = <<>>
    BY DEF Waits, Prepares
  <1>c. PICK cc : cc = Append(sq[j].completions, NewEntry(j, w, FALSE))
    OBVIOUS
  <1>d. PICK ca : ca = Uncached(j, w)
    OBVIOUS
  <1>e. PICK nx : nx = sq[j].issue + KindOf(j, w).bb
    OBVIOUS
  <1>f. PICK o : o = KindOf(j, w).ordered
    OBVIOUS
  <1>t. cc \in Seq(Entry) /\ ca \in SUBSET Cached /\ nx \in Nat /\ o \in BOOLEAN
        /\ ca \subseteq sq[j].cache /\ w \in Numbers
    BY <1>1, <1>c, <1>d, <1>e, <1>f, ReserveTypes
  <1>5. PICK x \in 0..(Depth - 1) : x = LastIndex(sq[j], KindOf(j, w).bb)
    BY <1>1, NewEntryType
  <1>a. PICK p : p = [w |-> w, index |-> x, state |-> "reading"]
    OBVIOUS
  <1>g. PICK pr : pr = Append(sq[j].prepared, p)
    OBVIOUS
  <1>b. pr \in Seq(PreparedWrite) /\ p.w = w /\ p.index = x
    <2>1. p \in PreparedWrite /\ p.w = w /\ p.index = x
      BY <1>a, <1>t DEF PreparedWrite
    <2>2. sq[j].prepared \in Seq(PreparedWrite)
      BY <1>p, PipeFields
    <2> QED BY <1>g, <2>1, <2>2
  <1>u. sq' = [sq EXCEPT ![j] = [sq[j] EXCEPT !.completions = cc, !.cache = ca,
                                             !.issue = nx, !.ordered = o, !.prepared = pr]]
    BY <1>c, <1>d, <1>e, <1>f, <1>5, <1>a, <1>g DEF ReserveSq, NewEntry, Uncached, NextIssue, Prepares
  <1>3a. sq' = [sq EXCEPT ![j] = [sq[j] EXCEPT !.completions = cc, !.cache = ca, !.issue = nx, !.ordered = o, !.prepared = pr]]
    BY <1>u
  <1>3b. [sq[j] EXCEPT !.completions = cc, !.cache = ca, !.issue = nx, !.ordered = o, !.prepared = pr] \in Pipe
    BY <1>p, <1>t, <1>b DEF Pipe
  <1>3c. /\ sq' \in [Jettys -> Pipe] /\ sq'[j] \in Pipe
       /\ sq'[j] = [sq[j] EXCEPT !.completions = cc, !.cache = ca, !.issue = nx, !.ordered = o, !.prepared = pr]
       /\ \A i \in Jettys : i # j => sq'[i] = sq[i]
    BY <1>p, <1>3a, <1>3b, SqUpdated
  <1>3d. /\ sq'[j].live = sq[j].live /\ sq'[j].consumer = sq[j].consumer
       /\ sq'[j].target = sq[j].target /\ sq'[j].direct = sq[j].direct
       /\ sq'[j].busy = sq[j].busy /\ sq'[j].issue = nx
       /\ sq'[j].nextFetch = sq[j].nextFetch /\ sq'[j].cache = ca
       /\ sq'[j].fetching = sq[j].fetching /\ sq'[j].cur = sq[j].cur
       /\ sq'[j].ordered = o /\ sq'[j].failed = sq[j].failed /\ sq'[j].prepared = pr
       /\ sq'[j].completions = cc /\ sq'[j].kick = sq[j].kick
    BY <1>p, <1>3c DEF Pipe
  <1>4. Reserved(j, w, FALSE)
    BY <1>c, <1>e, <1>f, <1>t, <1>1, <1>3d DEF Reserved
  <1>6. /\ \A v, i : Waiting(j, v, i) => Waiting(j, v, i)'
        /\ Waiting(j, w, x)'
    BY <1>un, <1>1, <1>2, <1>4, <1>5, ReservedEntries
  <1>9. NetOK(j)' /\ PreparedOK(j)'
    BY <1>1, <1>2, <1>3d, <1>5, <1>6, <1>b, <1>g, <1>un, <1>op, FlightPrepared
  <1>10. /\ StackInv' /\ stack' \in Seq(Frame) /\ (Retries => Retries')
         /\ stack' # <<>> /\ stack'[1].op \notin Heads
    <2>1. stack' = <<Call("resume", j)>> \o Rest /\ sq'[j].fetching = "sync"
      BY <1>1, <1>3d DEF Prepares
    <2> QED BY <1>1, <1>3c, <2>1, ResumeStack
  <1>11. TypeOK'
    BY <1>un, <1>3c, <1>10, QuietType
  <1>12. StepOf(j)
    BY <1>un, <1>3c, <1>10 DEF StepOf
  <1> QED BY <1>un, <1>1, <1>2, <1>4, <1>9, <1>10, <1>11, <1>12, ReservedStep

\* A SEND above the transport limit completes with an error at once.
Rejects(j, w, s, x, bb) ==
    /\ Running("handle", j) /\ w = Head(stack).w /\ ~Waits(j, w)
    /\ s = ReserveSq(j, sq[j], w) /\ bb = KindOf(j, w).bb /\ x = LastIndex(sq[j], bb)
    /\ sq' = [sq EXCEPT ![j] = CompleteSq(s, x, bb)]
    /\ stack' = RetireCall(j, s, x, bb) \o <<Call("resume", j)>> \o Rest
    /\ UNCHANGED <<posted, fetches, net, route, draining, faults, sent>>

\* A SEND above the transport limit completes at once.
LEMMA IssueLong ==
    ASSUME IInv, NEW j \in Jettys, NEW w, NEW s, NEW x, NEW bb, Rejects(j, w, s, x, bb)
    PROVE  IInv'
  <1>p. /\ sq \in [Jettys -> Pipe] /\ sq[j] \in Pipe /\ posted[j] \in Seq(Wqe)
        /\ stack \in Seq(Frame)
    BY JettyParts
  <1>1. /\ Fits(j, w) /\ ~sq[j].ordered /\ sq[j].fetching = "sync" /\ sq[j].live
        /\ stack # <<>> /\ Holds(1, j) /\ w \in DOMAIN posted[j]
    BY HandleFacts DEF Fits, Rejects
  <1>un. UNCHANGED <<posted, fetches, net, route, draining, faults, sent>>
    BY DEF Rejects
  <1>s. s = ReserveSq(j, sq[j], w) /\ bb = KindOf(j, w).bb /\ x = LastIndex(sq[j], bb)
    BY DEF Rejects
  <1>2. KindOf(j, w).ordered => sq[j].completions = <<>>
    BY DEF Waits, Rejects
  <1>c. PICK cc : cc = Append(sq[j].completions, NewEntry(j, w, TRUE))
    OBVIOUS
  <1>d. PICK ca : ca = Uncached(j, w)
    OBVIOUS
  <1>e. PICK nx : nx = sq[j].issue + KindOf(j, w).bb
    OBVIOUS
  <1>f. PICK o : o = KindOf(j, w).ordered
    OBVIOUS
  <1>t. cc \in Seq(Entry) /\ ca \in SUBSET Cached /\ nx \in Nat /\ o \in BOOLEAN
        /\ ca \subseteq sq[j].cache /\ w \in Numbers
    BY <1>1, <1>c, <1>d, <1>e, <1>f, ReserveTypes
  <1>a. PICK c1 : c1 = Append(sq[j].completions, NewEntry(j, w, FALSE))
    OBVIOUS
  <1>b. s = [sq[j] EXCEPT !.completions = c1, !.cache = ca, !.issue = nx, !.ordered = o]
    BY <1>s, <1>a, <1>d, <1>e, <1>f DEF ReserveSq, NewEntry, Uncached, NextIssue
  <1>g. s.completions = c1
    BY <1>p, <1>b DEF Pipe
  <1>h. Extended(s, j, w)
    BY <1>a, <1>g DEF Extended
  <1>i. Completing(s, x, bb) # {}
    BY <1>1, <1>s, <1>h, CompleteNew
  <1>j. CompleteSq(s, x, bb) = [s EXCEPT !.completions = cc]
    <2>1. CompletedAs(s, x, bb, cc)
      BY <1>1, <1>s, <1>c, <1>h, CompleteNew
    <2> QED BY <2>1 DEF CompletedAs
  <1>u. sq' = [sq EXCEPT ![j] = [sq[j] EXCEPT !.completions = cc, !.cache = ca,
                                             !.issue = nx, !.ordered = o]]
    <2>1. [s EXCEPT !.completions = cc] =
             [sq[j] EXCEPT !.completions = cc, !.cache = ca, !.issue = nx, !.ordered = o]
      BY <1>p, <1>b DEF Pipe
    <2>2. sq' = [sq EXCEPT ![j] = CompleteSq(s, x, bb)]
      BY DEF Rejects
    <2> QED BY <1>j, <2>1, <2>2
  <1>3a. sq' = [sq EXCEPT ![j] = [sq[j] EXCEPT !.completions = cc, !.cache = ca, !.issue = nx, !.ordered = o]]
    BY <1>u
  <1>3b. [sq[j] EXCEPT !.completions = cc, !.cache = ca, !.issue = nx, !.ordered = o] \in Pipe
    BY <1>p, <1>t DEF Pipe
  <1>3c. /\ sq' \in [Jettys -> Pipe] /\ sq'[j] \in Pipe
       /\ sq'[j] = [sq[j] EXCEPT !.completions = cc, !.cache = ca, !.issue = nx, !.ordered = o]
       /\ \A i \in Jettys : i # j => sq'[i] = sq[i]
    BY <1>p, <1>3a, <1>3b, SqUpdated
  <1>3d. /\ sq'[j].live = sq[j].live /\ sq'[j].consumer = sq[j].consumer
       /\ sq'[j].target = sq[j].target /\ sq'[j].direct = sq[j].direct
       /\ sq'[j].busy = sq[j].busy /\ sq'[j].issue = nx
       /\ sq'[j].nextFetch = sq[j].nextFetch /\ sq'[j].cache = ca
       /\ sq'[j].fetching = sq[j].fetching /\ sq'[j].cur = sq[j].cur
       /\ sq'[j].ordered = o /\ sq'[j].failed = sq[j].failed
       /\ sq'[j].prepared = sq[j].prepared /\ sq'[j].completions = cc
       /\ sq'[j].kick = sq[j].kick
    BY <1>p, <1>3c DEF Pipe
  <1>4. Reserved(j, w, TRUE)
    BY <1>c, <1>e, <1>f, <1>t, <1>1, <1>3d DEF Reserved
  <1>6. \A v, i : Waiting(j, v, i) => Waiting(j, v, i)'
    BY <1>un, <1>s, <1>1, <1>2, <1>4, ReservedEntries
  <1>9. NetOK(j)' /\ PreparedOK(j)'
    BY <1>un, <1>3d, <1>6, FlightSame
  <1>k. stack' = (<<Call("retire", j)>> \o <<Call("resume", j)>>) \o Rest
    <2>1. RetireCall(j, s, x, bb) = <<Call("retire", j)>>
      BY <1>i DEF RetireCall
    <2> QED BY <2>1 DEF Rejects
  <1>10. /\ StackInv' /\ stack' \in Seq(Frame) /\ (Retries => Retries')
         /\ stack' # <<>> /\ stack'[1].op \notin Heads
    <2>1. sq'[j].fetching = "sync"
      BY <1>1, <1>3d
    <2> QED BY <1>1, <1>3c, <1>k, <2>1, ResumeStack
  <1>11. TypeOK'
    BY <1>un, <1>3c, <1>10, QuietType
  <1>12. StepOf(j)
    BY <1>un, <1>3c, <1>10 DEF StepOf
  <1> QED BY <1>un, <1>1, <1>2, <1>4, <1>9, <1>10, <1>11, <1>12, ReservedStep

\* The payload of a SEND is read first; the queue keeps its claim.
Reads(j, w) ==
    /\ Running("handle", j) /\ w = Head(stack).w /\ ~Waits(j, w)
    /\ KindOf(j, w).op = "SEND"
    /\ sq' = [sq EXCEPT ![j].fetching = "payload", ![j].cur = w]
    /\ stack' = Rest
    /\ UNCHANGED <<posted, fetches, net, route, draining, faults, sent>>

\* The payload read of a SEND starts.
LEMMA IssueSend ==
    ASSUME IInv, NEW j \in Jettys, NEW w, Reads(j, w)
    PROVE  IInv'
  <1>p. /\ sq \in [Jettys -> Pipe] /\ sq[j] \in Pipe /\ posted[j] \in Seq(Wqe)
        /\ stack \in Seq(Frame)
    BY JettyParts
  <1>1. /\ Fits(j, w) /\ ~sq[j].ordered /\ sq[j].fetching = "sync" /\ sq[j].live
        /\ stack # <<>> /\ Holds(1, j) /\ w \in DOMAIN posted[j]
    BY HandleFacts DEF Fits, Reads
  <1>un. UNCHANGED <<posted, fetches, net, route, draining, faults, sent>>
    BY DEF Reads
  <1>2. /\ sq[j].prepared = <<>> /\ (KindOf(j, w).ordered => sq[j].completions = <<>>)
        /\ KindOf(j, w).op = "SEND"
    BY DEF Waits, Reads
  <1>3. w \in 0..MaxPosts
    BY <1>1, WqeFacts DEF Numbers
  <1>u. sq' = [sq EXCEPT ![j].fetching = "payload", ![j].cur = w]
    BY DEF Reads
  <1>4a. sq' = [sq EXCEPT ![j] = [sq[j] EXCEPT !.fetching = "payload", !.cur = w]]
    BY <1>u
  <1>4b. [sq[j] EXCEPT !.fetching = "payload", !.cur = w] \in Pipe
    BY <1>p, <1>3 DEF Pipe
  <1>4c. /\ sq' \in [Jettys -> Pipe] /\ sq'[j] \in Pipe
       /\ sq'[j] = [sq[j] EXCEPT !.fetching = "payload", !.cur = w]
       /\ \A i \in Jettys : i # j => sq'[i] = sq[i]
    BY <1>p, <1>4a, <1>4b, SqUpdated
  <1>4d. /\ sq'[j].live = sq[j].live /\ sq'[j].consumer = sq[j].consumer
       /\ sq'[j].target = sq[j].target /\ sq'[j].direct = sq[j].direct
       /\ sq'[j].busy = sq[j].busy /\ sq'[j].issue = sq[j].issue
       /\ sq'[j].nextFetch = sq[j].nextFetch /\ sq'[j].cache = sq[j].cache
       /\ sq'[j].fetching = "payload" /\ sq'[j].cur = w
       /\ sq'[j].ordered = sq[j].ordered /\ sq'[j].failed = sq[j].failed
       /\ sq'[j].prepared = sq[j].prepared /\ sq'[j].completions = sq[j].completions
       /\ sq'[j].kick = sq[j].kick
    BY <1>p, <1>4c DEF Pipe
  <1>5. sq[j].target \in Nat
    BY <1>p, PipeFields
  <1>6. Quiet(j)
    BY <1>un, <1>4d, <1>5 DEF Quiet
  <1>7. Pushed(stack', stack, 0, -1) /\ 0 - (-1) = 1
    BY RunningCall DEF Reads
  <1>8. \A m \in DOMAIN stack : m > 1 => ~Holds(m, j)
    BY <1>1, NoClaim
  <1>9. StackInv'
    BY <1>1, <1>4c, <1>7, <1>8, StackStep
  <1>10. stack[1].op \notin {"maybe", "drain"}
    BY <1>1 DEF Holds, Claims
  <1>11. Retries => Retries'
    BY <1>7, <1>10, RetriesKept
  <1>12. stack' # <<>> => stack'[1].op \notin Heads
    BY <1>p, <1>7 DEF Pushed, IInv, StackInv
  <1>13. TopOK(j)'
    BY <1>12 DEF TopOK, Top, Heads
  <1>14. StepOf(j)
    BY <1>un, <1>4c, <1>12 DEF StepOf
  <1>15. TypeOK'
    BY <1>un, <1>4c, <1>7, QuietType DEF Pushed
  <1>16. BusyOK(j)' /\ PostedOK(j)' /\ (sq[j].busy => sq'[j].busy)
    <2>1. PostedOK(j) /\ BusyOK(j)
      BY JettyParts
    <2> QED BY <1>un, <1>1, <1>4d, <2>1 DEF BusyOK, PostedOK
  <1>17. ReadOK(j)'
    <2>1. Fits(j, w)'
      BY <1>1, <1>4c, <1>6, FitsKept
    <2>2. /\ sq'[j].cur = w /\ ~sq'[j].ordered /\ sq'[j].fetching = "payload"
          /\ posted'[j][w].kind.op = "SEND"
          /\ posted'[j][w].kind.ordered => sq'[j].completions = <<>>
          /\ sq'[j].prepared = <<>>
      BY <1>un, <1>1, <1>2, <1>4d DEF KindOf
    <2>3. Fits(j, sq[j].cur)'
      BY <2>1, <2>2 DEF Fits
    <2> QED BY <2>2, <2>3 DEF ReadOK
  <1> QED BY <1>un, <1>1, <1>6, <1>9, <1>11, <1>13, <1>14, <1>15, <1>16, <1>17, ReadStep

\* The alternatives of HandleSqWqe, with the names of its definitions.
LEMMA IssueForms ==
    ASSUME NEW j \in Jettys, HandleIssues(j)
    PROVE  \E w, s, x, bb : \/ SendsNow(j, w) \/ Rejects(j, w, s, x, bb)
                            \/ Prepares(j, w) \/ Reads(j, w)
  <1>1. PICK w : w = Head(stack).w
    OBVIOUS
  <1>2. PICK s : s = ReserveSq(j, sq[j], w)
    OBVIOUS
  <1>3. PICK bb : bb = KindOf(j, w).bb
    OBVIOUS
  <1>4. PICK x : x = LastIndex(sq[j], bb)
    OBVIOUS
  <1>5. \/ SendsNow(j, w) \/ Rejects(j, w, s, x, bb) \/ Prepares(j, w) \/ Reads(j, w)
    <2>1. /\ Running("handle", j) /\ ~Waits(j, w)
          /\ UNCHANGED <<posted, fetches, route, draining, faults>>
      BY <1>1 DEF HandleIssues
    <2>2. \/ /\ KindOf(j, w).op \in {"READ", "INLINE"}
             /\ sq' = [sq EXCEPT ![j] = ReserveSq(j, sq[j], w)]
             /\ SendFrame(j, w, LastIndex(sq[j], KindOf(j, w).bb))
             /\ stack' = <<Call("resume", j)>> \o Rest
          \/ /\ sq' = [sq EXCEPT ![j] = CompleteSq(s, x, bb)]
             /\ stack' = RetireCall(j, s, x, bb) \o <<Call("resume", j)>> \o Rest
             /\ UNCHANGED <<net, sent>>
          \/ /\ KindOf(j, w).op = "WRITE"
             /\ sq' = [sq EXCEPT ![j] =
                          [ReserveSq(j, sq[j], w) EXCEPT !.prepared =
                             Append(@, [w |-> w, index |-> LastIndex(sq[j], KindOf(j, w).bb),
                                        state |-> "reading"])]]
             /\ stack' = <<Call("resume", j)>> \o Rest
             /\ UNCHANGED <<net, sent>>
          \/ /\ KindOf(j, w).op = "SEND"
             /\ sq' = [sq EXCEPT ![j].fetching = "payload", ![j].cur = w]
             /\ stack' = Rest
             /\ UNCHANGED <<net, sent>>
      BY <1>1, <1>2, <1>3, <1>4 DEF HandleIssues
    <2>3. CASE /\ KindOf(j, w).op \in {"READ", "INLINE"}
               /\ sq' = [sq EXCEPT ![j] = ReserveSq(j, sq[j], w)]
               /\ SendFrame(j, w, LastIndex(sq[j], KindOf(j, w).bb))
               /\ stack' = <<Call("resume", j)>> \o Rest
      BY <1>1, <2>1, <2>3 DEF SendsNow
    <2>4. CASE /\ sq' = [sq EXCEPT ![j] = CompleteSq(s, x, bb)]
               /\ stack' = RetireCall(j, s, x, bb) \o <<Call("resume", j)>> \o Rest
               /\ UNCHANGED <<net, sent>>
      BY <1>1, <1>2, <1>3, <1>4, <2>1, <2>4 DEF Rejects
    <2>5. CASE /\ KindOf(j, w).op = "WRITE"
               /\ sq' = [sq EXCEPT ![j] =
                            [ReserveSq(j, sq[j], w) EXCEPT !.prepared =
                               Append(@, [w |-> w,
                                          index |-> LastIndex(sq[j], KindOf(j, w).bb),
                                          state |-> "reading"])]]
               /\ stack' = <<Call("resume", j)>> \o Rest
               /\ UNCHANGED <<net, sent>>
      BY <1>1, <2>1, <2>5 DEF Prepares
    <2>6. CASE /\ KindOf(j, w).op = "SEND"
               /\ sq' = [sq EXCEPT ![j].fetching = "payload", ![j].cur = w]
               /\ stack' = Rest
               /\ UNCHANGED <<net, sent>>
      BY <1>1, <2>1, <2>6 DEF Reads
    <2> QED BY <2>2, <2>3, <2>4, <2>5, <2>6
  <1> QED BY <1>5

\* HandleSqWqe takes the WQE.
LEMMA HandleIssuesStep ==
    ASSUME IInv, NEW j \in Jettys, HandleIssues(j)
    PROVE  IInv'
  <1>1. PICK w, s, x, bb : \/ SendsNow(j, w) \/ Rejects(j, w, s, x, bb)
                           \/ Prepares(j, w) \/ Reads(j, w)
    BY IssueForms
  <1> QED BY <1>1, IssueNow, IssueLong, IssueWrite, IssueSend

\* The payload of a SEND has been read, and its frame is not sent.
Drops(j, ok, b, st) ==
    /\ Idle /\ sq[j].fetching = "payload" /\ Outcome(ok)
    /\ sq' = [sq EXCEPT ![j] = [sq[j] EXCEPT !.fetching = "sync", !.cur = 0, !.failed = b]]
    /\ stack' = st
    /\ UNCHANGED <<posted, fetches, net, route, draining, sent>>

\* The payload of a SEND arrives and the WQE is not submitted.
LEMMA SendDropped ==
    ASSUME IInv, NEW j \in Jettys, NEW ok \in BOOLEAN, NEW b \in BOOLEAN,
           NEW st, st \in {<<>>, <<Call("release", j)>>, <<Call("release", j), Call("maybe", j)>>},
           Drops(j, ok, b, st)
    PROVE  IInv'
  <1>p. /\ sq \in [Jettys -> Pipe] /\ sq[j] \in Pipe /\ posted[j] \in Seq(Wqe)
        /\ stack \in Seq(Frame)
    BY JettyParts
  <1>1. /\ Idle /\ sq[j].fetching = "payload" /\ Outcome(ok) /\ stack' = st
    BY DEF Drops
  <1>un. UNCHANGED <<posted, fetches, net, route, draining, sent>>
    BY DEF Drops
  <1>2. sq[j].live /\ 0 \in 0..MaxPosts /\ sq[j].target \in Nat
    BY <1>1, <1>p, LiveFacts, PipeFields, LimitAssumption
  <1>u. sq' = [sq EXCEPT ![j] = [sq[j] EXCEPT !.fetching = "sync", !.cur = 0, !.failed = b]]
    BY DEF Drops
  <1>3a. sq' = [sq EXCEPT ![j] = [sq[j] EXCEPT !.fetching = "sync", !.cur = 0, !.failed = b]]
    BY <1>u
  <1>3b. [sq[j] EXCEPT !.fetching = "sync", !.cur = 0, !.failed = b] \in Pipe
    BY <1>p, <1>2 DEF Pipe
  <1>3c. /\ sq' \in [Jettys -> Pipe] /\ sq'[j] \in Pipe
       /\ sq'[j] = [sq[j] EXCEPT !.fetching = "sync", !.cur = 0, !.failed = b]
       /\ \A i \in Jettys : i # j => sq'[i] = sq[i]
    BY <1>p, <1>3a, <1>3b, SqUpdated
  <1>3d. /\ sq'[j].live = sq[j].live /\ sq'[j].consumer = sq[j].consumer
       /\ sq'[j].target = sq[j].target /\ sq'[j].direct = sq[j].direct
       /\ sq'[j].busy = sq[j].busy /\ sq'[j].issue = sq[j].issue
       /\ sq'[j].nextFetch = sq[j].nextFetch /\ sq'[j].cache = sq[j].cache
       /\ sq'[j].fetching = "sync" /\ sq'[j].cur = 0 /\ sq'[j].ordered = sq[j].ordered
       /\ sq'[j].failed = b /\ sq'[j].prepared = sq[j].prepared
       /\ sq'[j].completions = sq[j].completions /\ sq'[j].kick = sq[j].kick
    BY <1>p, <1>3c DEF Pipe
  <1>4. Quiet(j)
    BY <1>un, <1>2, <1>3d DEF Quiet
  <1>5. faults' \in 0..MaxFaults
    BY <1>1, FaultType
  <1>6. BusyOK(j)' /\ PostedOK(j)' /\ ReadOK(j)' /\ (sq[j].busy => sq'[j].busy)
    <2>1. PostedOK(j) /\ BusyOK(j)
      BY JettyParts
    <2>2. BusyOK(j)'
      BY <1>un, <1>1, <1>3d, <2>1 DEF BusyOK
    <2> QED BY <1>un, <1>3d, <2>1, <2>2 DEF PostedOK, ReadOK
  <1>7. /\ stack' \in Seq(Frame)
        /\ \A k \in DOMAIN stack' :
              /\ stack'[k].j = j /\ stack'[k].op \notin Heads
              /\ stack'[k].op \in Claims => k = 1
    <2>0. "release" \in FrameOps /\ "maybe" \in FrameOps
          /\ "release" \notin Heads /\ "maybe" \notin Heads \cup Claims
      BY DEF FrameOps, Heads, Claims
    <2>1. CASE st = <<>>
      BY <1>1, <2>1
    <2>2. CASE st = <<Call("release", j)>>
      <3>1. /\ stack' \in Seq(Frame) /\ DOMAIN stack' = {1}
            /\ stack'[1].op = "release" /\ stack'[1].j = j
        BY <1>1, <2>0, <2>2, IdleCalls
      <3> QED BY <2>0, <3>1
    <2>3. CASE st = <<Call("release", j), Call("maybe", j)>>
      <3>1. /\ stack' \in Seq(Frame) /\ DOMAIN stack' = {1, 2}
            /\ stack'[1].op = "release" /\ stack'[1].j = j
            /\ stack'[2].op = "maybe" /\ stack'[2].j = j
        BY <1>1, <2>0, <2>3, IdleCalls
      <3> QED BY <2>0, <3>1
    <2> QED BY <2>1, <2>2, <2>3
  <1>8. /\ StackInv' /\ (Retries => Retries')
        /\ stack' # <<>> /\ stack'[1].op \in Heads => stack'[1].j = j
    BY <1>1, <1>3d, <1>7, IdleStack
  <1>9. stack' # <<>> => stack'[1].op \notin Heads
    BY <1>7
  <1>10. TopOK(j)'
    BY <1>9 DEF TopOK, Top, Heads
  <1>11. StepOf(j)
    BY <1>un, <1>3c, <1>8 DEF StepOf
  <1>12. TypeOK'
    BY <1>un, <1>3c, <1>5, <1>7 DEF IInv, TypeOK
  <1> QED BY <1>un, <1>2, <1>4, <1>6, <1>8, <1>10, <1>11, <1>12, ReadStep

\* The payload of a SEND has been read, and its frame is sent.
Submits(j, ok, w, s) ==
    /\ Idle /\ sq[j].fetching = "payload" /\ Outcome(ok) /\ w = sq[j].cur
    /\ s = [sq[j] EXCEPT !.fetching = "sync", !.cur = 0]
    /\ sq' = [sq EXCEPT ![j] = ReserveSq(j, s, w)]
    /\ SendFrame(j, w, LastIndex(s, KindOf(j, w).bb))
    /\ stack' = <<Call("resume", j)>>
    /\ UNCHANGED <<posted, fetches, route, draining>>

\* The payload of a SEND arrives and its frame is sent.
LEMMA SendSubmitted ==
    ASSUME IInv, NEW j \in Jettys, NEW ok \in BOOLEAN, NEW w, NEW s, Submits(j, ok, w, s)
    PROVE  IInv'
  <1>p. /\ sq \in [Jettys -> Pipe] /\ sq[j] \in Pipe /\ posted[j] \in Seq(Wqe)
        /\ stack \in Seq(Frame)
    BY JettyParts
  <1>0. /\ Idle /\ sq[j].fetching = "payload" /\ Outcome(ok) /\ w = sq[j].cur
    BY DEF Submits
  <1>un. UNCHANGED <<posted, fetches, route, draining>>
    BY DEF Submits
  <1>1. /\ Fits(j, w) /\ ~sq[j].ordered /\ sq[j].live /\ w \in DOMAIN posted[j]
    BY <1>0, JettyParts, LiveFacts DEF ReadOK, Fits
  <1>2. /\ sq[j].prepared = <<>> /\ (KindOf(j, w).ordered => sq[j].completions = <<>>)
        /\ KindOf(j, w).op = "SEND"
    BY <1>0, JettyParts DEF ReadOK, KindOf
  <1>c. PICK cc : cc = Append(sq[j].completions, NewEntry(j, w, FALSE))
    OBVIOUS
  <1>d. PICK ca : ca = Uncached(j, w)
    OBVIOUS
  <1>e. PICK nx : nx = sq[j].issue + KindOf(j, w).bb
    OBVIOUS
  <1>f. PICK o : o = KindOf(j, w).ordered
    OBVIOUS
  <1>t. cc \in Seq(Entry) /\ ca \in SUBSET Cached /\ nx \in Nat /\ o \in BOOLEAN
        /\ ca \subseteq sq[j].cache /\ w \in Numbers
    BY <1>1, <1>c, <1>d, <1>e, <1>f, ReserveTypes
  <1>z. 0 \in 0..MaxPosts
    BY LimitAssumption
  <1>s. s = [sq[j] EXCEPT !.fetching = "sync", !.cur = 0]
    BY DEF Submits
  <1>g. /\ s.issue = sq[j].issue /\ s.cache = sq[j].cache
        /\ s.completions = sq[j].completions
    BY <1>p, <1>s DEF Pipe
  <1>h. LastIndex(s, KindOf(j, w).bb) = LastIndex(sq[j], KindOf(j, w).bb)
    BY <1>g DEF LastIndex
  <1>i. ReserveSq(j, s, w) = [s EXCEPT !.completions = cc, !.cache = ca,
                                       !.issue = nx, !.ordered = o]
    BY <1>c, <1>d, <1>e, <1>f, <1>g, <1>h DEF ReserveSq, NewEntry, Uncached, NextIssue
  <1>u. sq' = [sq EXCEPT ![j] = [sq[j] EXCEPT !.fetching = "sync", !.cur = 0,
                      !.completions = cc, !.cache = ca, !.issue = nx, !.ordered = o]]
    BY <1>s, <1>i DEF Submits
  <1>3a. sq' = [sq EXCEPT ![j] = [sq[j] EXCEPT !.fetching = "sync", !.cur = 0, !.completions = cc, !.cache = ca, !.issue = nx, !.ordered = o]]
    BY <1>u
  <1>3b. [sq[j] EXCEPT !.fetching = "sync", !.cur = 0, !.completions = cc, !.cache = ca, !.issue = nx, !.ordered = o] \in Pipe
    BY <1>p, <1>t, <1>z DEF Pipe
  <1>3c. /\ sq' \in [Jettys -> Pipe] /\ sq'[j] \in Pipe
       /\ sq'[j] = [sq[j] EXCEPT !.fetching = "sync", !.cur = 0, !.completions = cc, !.cache = ca, !.issue = nx, !.ordered = o]
       /\ \A i \in Jettys : i # j => sq'[i] = sq[i]
    BY <1>p, <1>3a, <1>3b, SqUpdated
  <1>3d. /\ sq'[j].live = sq[j].live /\ sq'[j].consumer = sq[j].consumer
       /\ sq'[j].target = sq[j].target /\ sq'[j].direct = sq[j].direct
       /\ sq'[j].busy = sq[j].busy /\ sq'[j].issue = nx
       /\ sq'[j].nextFetch = sq[j].nextFetch /\ sq'[j].cache = ca
       /\ sq'[j].fetching = "sync" /\ sq'[j].cur = 0 /\ sq'[j].ordered = o
       /\ sq'[j].failed = sq[j].failed /\ sq'[j].prepared = sq[j].prepared
       /\ sq'[j].completions = cc /\ sq'[j].kick = sq[j].kick
    BY <1>p, <1>3c DEF Pipe
  <1>4. Reserved(j, w, FALSE)
    BY <1>c, <1>e, <1>f, <1>t, <1>1, <1>3d DEF Reserved
  <1>5. PICK x \in 0..(Depth - 1) : x = LastIndex(sq[j], KindOf(j, w).bb)
    BY <1>1, NewEntryType
  <1>6. /\ \A v, i : Waiting(j, v, i) => Waiting(j, v, i)'
        /\ Waiting(j, w, x)'
    BY <1>un, <1>1, <1>2, <1>4, <1>5, ReservedEntries
  <1>7. /\ net' \subseteq Request /\ sent' \in [Jettys -> Seq(Numbers)]
        /\ \A i \in Jettys : i # j => sent'[i] = sent[i]
        /\ \E r : net' = net \cup {r} /\ r.j = j /\ r.w = w /\ r.index = x
    <2>1. SendFrame(j, w, x) /\ KindOf(j, w).op \in {"READ", "WRITE", "INLINE", "SEND"}
      BY <1>2, <1>5, <1>h DEF Submits
    <2> QED BY <1>t, <2>1, SendFacts
  <1>8. PICK r : net' = net \cup {r} /\ r.j = j /\ r.w = w /\ r.index = x
    BY <1>7
  <1>9. NetOK(j)' /\ PreparedOK(j)'
    BY <1>1, <1>2, <1>3d, <1>5, <1>6, <1>8, FlightSent
  <1>10. /\ stack' \in Seq(Frame) /\ DOMAIN stack' = {1}
         /\ stack'[1].op = "resume" /\ stack'[1].j = j
    <2>1. "resume" \in FrameOps /\ stack' = <<Call("resume", j)>>
      BY DEF FrameOps, Submits
    <2> QED BY <2>1, IdleCalls
  <1>11. stack' # <<>> /\ stack'[1].op \notin Heads
    BY <1>10 DEF Heads
  <1>12. /\ StackInv' /\ (Retries => Retries')
    BY <1>0, <1>3d, <1>10, <1>11, IdleStack
  <1>13. TypeOK'
    <2>1. faults' \in 0..MaxFaults
      BY <1>0, FaultType
    <2> QED BY <1>un, <1>3c, <1>7, <1>10, <2>1 DEF IInv, TypeOK
  <1>14. StepOf(j)
    BY <1>un, <1>3c, <1>7, <1>8, <1>11 DEF StepOf
  <1>15. sq[j].fetching # "no"
    BY <1>0
  <1> QED BY <1>un, <1>1, <1>2, <1>4, <1>9, <1>11, <1>12, <1>13, <1>14, <1>15, ReservedStep

\* The alternatives of SubmitSqPayload.
LEMMA PayloadForms ==
    ASSUME IInv, NEW j \in Jettys, NEW ok \in BOOLEAN, SendPayloadRead(j, ok)
    PROVE  \/ \E b \in BOOLEAN : \E st \in {<<>>, <<Call("release", j)>>,
                               <<Call("release", j), Call("maybe", j)>>} :
                 Drops(j, ok, b, st)
           \/ \E w, s : Submits(j, ok, w, s)
  <1>p. /\ sq \in [Jettys -> Pipe] /\ sq[j] \in Pipe /\ posted[j] \in Seq(Wqe)
        /\ stack \in Seq(Frame)
    BY JettyParts
  <1>1. PICK s : s = [sq[j] EXCEPT !.fetching = "sync", !.cur = 0]
    OBVIOUS
  <1>2. PICK w : w = sq[j].cur
    OBVIOUS
  <1>f. sq[j].failed \in BOOLEAN
    BY <1>p, PipeFields
  <1>3. /\ Idle /\ sq[j].fetching = "payload" /\ Outcome(ok)
        /\ UNCHANGED <<posted, fetches, route, draining>>
    BY DEF SendPayloadRead
  <1>4. \/ /\ sq' = [sq EXCEPT ![j] = [s EXCEPT !.failed = TRUE]]
           /\ stack' = <<Call("release", j), Call("maybe", j)>>
           /\ UNCHANGED <<net, sent>>
        \/ /\ sq' = [sq EXCEPT ![j] = s]
           /\ stack' = <<Call("release", j)>>
           /\ UNCHANGED <<net, sent>>
        \/ /\ sq' = [sq EXCEPT ![j] = s]
           /\ UNCHANGED <<net, sent, stack>>
        \/ /\ sq' = [sq EXCEPT ![j] = ReserveSq(j, s, w)]
           /\ SendFrame(j, w, LastIndex(s, KindOf(j, w).bb))
           /\ stack' = <<Call("resume", j)>>
    BY <1>1, <1>2 DEF SendPayloadRead
  <1>5. s = [sq[j] EXCEPT !.fetching = "sync", !.cur = 0, !.failed = sq[j].failed]
    BY <1>p, <1>1 DEF Pipe
  <1>6. CASE /\ sq' = [sq EXCEPT ![j] = [s EXCEPT !.failed = TRUE]]
             /\ stack' = <<Call("release", j), Call("maybe", j)>>
             /\ UNCHANGED <<net, sent>>
    <2>1. Drops(j, ok, TRUE, <<Call("release", j), Call("maybe", j)>>)
      BY <1>1, <1>3, <1>6 DEF Drops
    <2> QED BY <2>1
  <1>7. CASE /\ sq' = [sq EXCEPT ![j] = s] /\ stack' = <<Call("release", j)>>
             /\ UNCHANGED <<net, sent>>
    <2>1. Drops(j, ok, sq[j].failed, <<Call("release", j)>>)
      BY <1>5, <1>3, <1>7 DEF Drops
    <2> QED BY <1>f, <2>1
  <1>8. CASE /\ sq' = [sq EXCEPT ![j] = s] /\ UNCHANGED <<net, sent, stack>>
    <2>1. Drops(j, ok, sq[j].failed, <<>>)
      BY <1>5, <1>3, <1>8 DEF Drops, Idle
    <2> QED BY <1>f, <2>1
  <1>9. CASE /\ sq' = [sq EXCEPT ![j] = ReserveSq(j, s, w)]
             /\ SendFrame(j, w, LastIndex(s, KindOf(j, w).bb))
             /\ stack' = <<Call("resume", j)>>
    <2>1. Submits(j, ok, w, s)
      BY <1>1, <1>2, <1>3, <1>9 DEF Submits
    <2> QED BY <2>1
  <1> QED BY <1>4, <1>6, <1>7, <1>8, <1>9

\* The payload read of a SEND ends.
LEMMA SendPayloadStep ==
    ASSUME IInv, NEW j \in Jettys, NEW ok \in BOOLEAN, SendPayloadRead(j, ok)
    PROVE  IInv'
  BY PayloadForms, SendDropped, SendSubmitted

----------------------------------------------------------------------------
(* Entries become ready and are published *)

\* The entries d are the entries c: only their flags may differ.
Shaped(c, d) ==
    /\ Len(d) = Len(c)
    /\ \A k \in 1..Len(c) : /\ d[k].w = c[k].w /\ d[k].index = c[k].index
                            /\ d[k].bb = c[k].bb
                            /\ d[k].pub # "no" => d[k].ready

\* The window, the reads and the guest's WQEs stay.
Kept(j) ==
    /\ sq'[j].live = sq[j].live /\ sq'[j].consumer = sq[j].consumer
    /\ sq'[j].issue = sq[j].issue /\ sq'[j].target = sq[j].target
    /\ sq'[j].ordered = sq[j].ordered /\ sq'[j].busy = sq[j].busy
    /\ sq'[j].fetching = sq[j].fetching /\ sq'[j].cur = sq[j].cur
    /\ sq'[j].cache = sq[j].cache /\ sq'[j].direct = sq[j].direct
    /\ sq[j].prepared = <<>> => sq'[j].prepared = <<>>
    /\ Shaped(sq[j].completions, sq'[j].completions)
    /\ posted' = posted /\ fetches' = fetches /\ draining' = draining

\* Entries that keep their WQE and place keep their part of the invariant.
LEMMA ShapedParts ==
    ASSUME IInv, NEW j \in Jettys, sq'[j] \in Pipe, Kept(j)
    PROVE  EntryOK(j)' /\ TileOK(j)' /\ FenceOK(j)'
  <1>1. PICK c \in Seq(Entry) : c = sq[j].completions
    BY JettyParts, PipeFields
  <1>2. PICK d \in Seq(Entry) : d = sq'[j].completions
    BY PipeFields
  <1>3. Shaped(c, d) /\ posted' = posted
    BY <1>1, <1>2 DEF Kept
  <1>4. PICK n \in Nat : n = Len(c) /\ n = Len(d) /\ DOMAIN c = 1..n /\ DOMAIN d = 1..n
    BY <1>3 DEF Shaped
  <1>5. \A k \in 1..n : /\ d[k].w = c[k].w /\ d[k].index = c[k].index
                        /\ d[k].bb = c[k].bb /\ (d[k].pub # "no" => d[k].ready)
    BY <1>3, <1>4 DEF Shaped
  <1>6. EntryOK(j) /\ TileOK(j) /\ FenceOK(j)
    BY JettyParts
  <1>7. EntryOK(j)'
    BY <1>1, <1>2, <1>3, <1>4, <1>5, <1>6 DEF EntryOK
  <1>8. FenceOK(j)'
    BY <1>1, <1>2, <1>3, <1>4, <1>5, <1>6 DEF FenceOK, Kept
  <1>9. PICK f : Tiles(c, f, sq[j].consumer, sq[j].issue)
    BY <1>1, <1>6 DEF TileOK
  <1>10. Tiles(d, f, sq[j].consumer, sq[j].issue)
    BY <1>4, <1>5, <1>9 DEF Tiles
  <1>11. sq'[j].consumer = sq[j].consumer /\ sq'[j].issue = sq[j].issue
         /\ sq'[j].target = sq[j].target
    BY DEF Kept
  <1>12. Tiles(sq[j].completions, f, sq[j].consumer, sq[j].issue)'
    BY <1>2, <1>10, <1>11 DEF Tiles
  <1>13. TileOK(j)'
    BY <1>6, <1>11, <1>12 DEF TileOK
  <1> QED BY <1>7, <1>8, <1>13

\* A step that changes flags of entries of jetty j.
LEMMA ShapedStep ==
    ASSUME IInv, NEW j \in Jettys, StepOf(j), TypeOK', StackInv', Kept(j),
           sq[j].completions # <<>>, Retries => Retries',
           stack' # <<>> => stack'[1].op \notin {"fill", "decode", "handle"},
           NetOK(j)', PreparedOK(j)'
    PROVE  IInv'
  <1>1. sq'[j] \in Pipe
    BY DEF TypeOK
  <1>2. sq[j].live /\ sq[j].busy
    BY LiveFacts, JettyParts DEF BusyOK
  <1>3. EntryOK(j)' /\ TileOK(j)' /\ FenceOK(j)'
    BY <1>1, ShapedParts
  <1>4. sq'[j].live /\ sq'[j].busy
    BY <1>2 DEF Kept
  <1>5. LiveOK(j)' /\ BusyOK(j)' /\ TopOK(j)'
    BY <1>4 DEF LiveOK, BusyOK, TopOK, Top
  <1>6. PostedOK(j)'
    BY JettyParts DEF PostedOK, Kept
  <1>7. ReadOK(j)'
    <2>1. ReadOK(j)
      BY JettyParts
    <2>2. PICK w : w = sq[j].cur /\ w = sq'[j].cur
      BY DEF Kept
    <2>3. Fits(j, w) => Fits(j, w)'
      BY DEF Fits, Kept
    <2>4. Fits(j, sq[j].cur) => Fits(j, sq[j].cur)'
      BY <2>2, <2>3 DEF Fits
    <2>5. sq[j].fetching = "payload" => ~posted[j][sq[j].cur].kind.ordered
      BY <2>1 DEF ReadOK
    <2> QED BY <2>1, <2>4, <2>5 DEF ReadOK, Kept
  <1>8. DestroyInv'
    <2>1. ResourceQueueBusy(j)'
      BY <1>4 DEF ResourceQueueBusy
    <2> QED BY <1>4, <2>1, DestroyStep DEF Kept
  <1> QED BY <1>3, <1>5, <1>6, <1>7, <1>8, StepInv

\* The entry with ring index x, if any, becomes ready.
ReadyAt(c, d, x) ==
    /\ d \in Seq(Entry) /\ Len(d) = Len(c)
    /\ \A k \in 1..Len(c) : /\ d[k].w = c[k].w /\ d[k].index = c[k].index
                            /\ d[k].bb = c[k].bb /\ d[k].pub = c[k].pub
                            /\ c[k].ready => d[k].ready
                            /\ c[k].index # x => d[k].ready = c[k].ready

\* An entry marked ready.
LEMMA Readied ==
    ASSUME NEW e \in Entry, NEW y, y = [e EXCEPT !.ready = TRUE]
    PROVE  /\ y \in Entry /\ y.w = e.w /\ y.index = e.index /\ y.bb = e.bb
           /\ y.pub = e.pub /\ y.ready
  BY DEF Entry

\* What CompleteSq does to the entries.
LEMMA CompleteFacts ==
    ASSUME NEW c \in Seq(Entry), NEW s, s.completions = c, NEW x, NEW bb
    PROVE  \E d : CompletedAs(s, x, bb, d) /\ ReadyAt(c, d, x)
  <1>1. PICK n \in Nat : n = Len(c) /\ DOMAIN c = 1..n
    OBVIOUS
  <1>2. \A k \in Completing(s, x, bb) : c[k].index = x
    BY DEF Completing
  <1> DEFINE d == [k \in 1..n |-> IF k \in Completing(s, x, bb)
                                  THEN [c[k] EXCEPT !.ready = TRUE] ELSE c[k]]
  <1>3. CompletedAs(s, x, bb, d)
    BY <1>1 DEF CompletedAs, CompleteSq
  <1>4. ASSUME NEW k \in 1..n
        PROVE  /\ d[k] \in Entry
               /\ d[k].w = c[k].w /\ d[k].index = c[k].index
               /\ d[k].bb = c[k].bb /\ d[k].pub = c[k].pub
               /\ c[k].ready => d[k].ready
               /\ c[k].index # x => d[k].ready = c[k].ready
    <2>1. c[k] \in Entry
      BY <1>1
    <2>2. CASE k \in Completing(s, x, bb)
      <3>1. PICK y : y = [c[k] EXCEPT !.ready = TRUE]
        OBVIOUS
      <3>2. d[k] = y
        BY <2>2, <3>1
      <3>3. /\ y \in Entry /\ y.w = c[k].w /\ y.index = c[k].index /\ y.bb = c[k].bb
            /\ y.pub = c[k].pub /\ y.ready
        BY <2>1, <3>1, Readied
      <3> HIDE DEF d
      <3> QED BY <1>2, <2>2, <3>2, <3>3
    <2>3. CASE k \notin Completing(s, x, bb)
      <3>1. d[k] = c[k]
        BY <2>3
      <3> HIDE DEF d
      <3> QED BY <2>1, <3>1
    <2> QED BY <2>2, <2>3
  <1>5. d \in [1..n -> Entry]
    BY <1>4
  <1> HIDE DEF d
  <1>6. d \in Seq(Entry) /\ Len(d) = n
    BY <1>5
  <1>7. ReadyAt(c, d, x)
    BY <1>1, <1>4, <1>6 DEF ReadyAt
  <1> QED BY <1>3, <1>7

\* CompleteSq keeps the entries, and only its own waits no longer.
LEMMA ReadyFacts ==
    ASSUME IInv, NEW j \in Jettys, NEW x, NEW d, ReadyAt(sq[j].completions, d, x),
           sq'[j].completions = d
    PROVE  /\ Shaped(sq[j].completions, sq'[j].completions)
           /\ \A v, i : Waiting(j, v, i) /\ i # x => Waiting(j, v, i)'
  <1>1. PICK c \in Seq(Entry) : c = sq[j].completions
    BY JettyParts, PipeFields
  <1>2. PICK n \in Nat : n = Len(c) /\ n = Len(d) /\ DOMAIN c = 1..n /\ DOMAIN d = 1..n
    BY <1>1 DEF ReadyAt
  <1>3. \A k \in 1..n : /\ d[k].w = c[k].w /\ d[k].index = c[k].index
                        /\ d[k].bb = c[k].bb /\ d[k].pub = c[k].pub
                        /\ (c[k].ready => d[k].ready)
                        /\ (c[k].index # x => d[k].ready = c[k].ready)
    BY <1>1, <1>2 DEF ReadyAt
  <1>4. \A k \in 1..n : c[k].pub # "no" => c[k].ready
    BY <1>1, <1>2, JettyParts DEF EntryOK
  <1>5. Shaped(c, d)
    BY <1>2, <1>3, <1>4 DEF Shaped
  <1>6. ASSUME NEW v, NEW i, Waiting(j, v, i), i # x PROVE Waiting(j, v, i)'
    <2>1. PICK k \in 1..n : c[k].w = v /\ c[k].index = i /\ ~c[k].ready
      BY <1>1, <1>2, <1>6 DEF Waiting
    <2>2. d[k].w = v /\ d[k].index = i /\ ~d[k].ready
      BY <1>3, <1>6, <2>1
    <2> QED BY <1>2, <2>2 DEF Waiting
  <1> QED BY <1>1, <1>5, <1>6

\* A flag of entry k that says how far its CQE has come.
LEMMA PublishedFacts ==
    ASSUME IInv, NEW j \in Jettys, NEW k \in DOMAIN sq[j].completions,
           sq[j].completions[k].ready,
           NEW p \in {"no", "issued", "landed", "done", "failed"},
           NEW d, d = [sq[j].completions EXCEPT ![k].pub = p]
    PROVE  /\ d \in Seq(Entry) /\ Shaped(sq[j].completions, d)
           /\ sq'[j].completions = d =>
                 \A v, i : Waiting(j, v, i) => Waiting(j, v, i)'
  <1>1. PICK c \in Seq(Entry) : c = sq[j].completions
    BY JettyParts, PipeFields
  <1>2. PICK n \in Nat : n = Len(c) /\ DOMAIN c = 1..n
    BY <1>1
  <1>3. c[k] \in Entry /\ k \in 1..n
    BY <1>1, <1>2
  <1>4. PICK y : y = [c[k] EXCEPT !.pub = p]
    OBVIOUS
  <1>5. /\ y \in Entry /\ y.w = c[k].w /\ y.index = c[k].index /\ y.bb = c[k].bb
        /\ y.ready = c[k].ready
    BY <1>3, <1>4 DEF Entry
  <1>6. d = [c EXCEPT ![k] = y]
    BY <1>1, <1>4
  <1>7. d \in Seq(Entry) /\ Len(d) = n /\ DOMAIN d = 1..n /\ d[k] = y
        /\ \A m \in 1..n : m # k => d[m] = c[m]
    BY <1>1, <1>2, <1>3, <1>5, <1>6
  <1>8. \A m \in 1..n : c[m].pub # "no" => c[m].ready
    BY <1>1, <1>2, JettyParts DEF EntryOK
  <1>9. \A m \in 1..n : /\ d[m].w = c[m].w /\ d[m].index = c[m].index
                        /\ d[m].bb = c[m].bb /\ d[m].ready = c[m].ready
                        /\ (d[m].pub # "no" => d[m].ready)
    BY <1>1, <1>3, <1>5, <1>7, <1>8
  <1>10. Shaped(c, d)
    BY <1>2, <1>7, <1>9 DEF Shaped
  <1>11. ASSUME sq'[j].completions = d, NEW v, NEW i, Waiting(j, v, i)
         PROVE  Waiting(j, v, i)'
    <2>1. PICK m \in 1..n : c[m].w = v /\ c[m].index = i /\ ~c[m].ready
      BY <1>1, <1>2, <1>11 DEF Waiting
    <2>2. d[m].w = v /\ d[m].index = i /\ ~d[m].ready
      BY <1>9, <2>1
    <2> QED BY <1>7, <1>11, <2>1, <2>2 DEF Waiting
  <1> QED BY <1>1, <1>7, <1>10, <1>11

----------------------------------------------------------------------------
(* The network and the peer *)

\* A request leaves the network: only its own entry need not wait any more.
LEMMA FlightDone ==
    ASSUME IInv, NEW r \in net, NEW j \in Jettys, r.j = j, posted' = posted,
           net' = net \ {r}, sq'[j].prepared = sq[j].prepared,
           \A v, i : Waiting(j, v, i) /\ i # r.index => Waiting(j, v, i)'
    PROVE  NetOK(j)' /\ PreparedOK(j)'
  <1>1. NetOK(j) /\ PreparedOK(j)
    BY JettyParts
  <1>2. \A q \in net' : q.j = j => q \in net /\ q.index # r.index
    BY <1>1 DEF NetOK
  <1>3. \A q \in net' : q.j = j => Waiting(j, q.w, q.index)'
    BY <1>1, <1>2 DEF NetOK
  <1>4. NetOK(j)'
    BY <1>1, <1>3 DEF NetOK
  <1>5. PreparedOK(j)'
    <2> SUFFICES ASSUME NEW k \in DOMAIN sq[j].prepared
                 PROVE  /\ Waiting(j, sq[j].prepared[k].w, sq[j].prepared[k].index)'
                        /\ posted[j][sq[j].prepared[k].w].kind.op = "WRITE"
                        /\ \A m \in DOMAIN sq[j].prepared :
                              sq[j].prepared[m].index = sq[j].prepared[k].index => m = k
                        /\ \A q \in net : q.j = j => q.index # sq[j].prepared[k].index
      BY DEF PreparedOK
    <2>1. PICK v : v = sq[j].prepared[k].w
      OBVIOUS
    <2>2. PICK i : i = sq[j].prepared[k].index
      OBVIOUS
    <2>3. Waiting(j, v, i) /\ i # r.index
      BY <1>1, <2>1, <2>2 DEF PreparedOK
    <2>4. Waiting(j, v, i)'
      BY <2>3
    <2>5. Waiting(j, sq[j].prepared[k].w, sq[j].prepared[k].index)'
      BY <2>1, <2>2, <2>4 DEF Waiting
    <2> QED BY <1>1, <2>5 DEF PreparedOK
  <1> QED BY <1>4, <1>5

\* A request moves on.
LEMMA FlightStaged ==
    ASSUME IInv, NEW r \in net, NEW j \in Jettys, r.j = j, posted' = posted,
           NEW q, q.j = j, q.w = r.w, q.index = r.index,
           net' = (net \ {r}) \cup {q}, sq' = sq
    PROVE  NetOK(j)' /\ PreparedOK(j)'
  <1>1. NetOK(j) /\ PreparedOK(j)
    BY JettyParts
  <1>2. \A p \in net' : p = q \/ (p \in net /\ p # r)
    OBVIOUS
  <1>3. \A p \in net' : p.j = j => Waiting(j, p.w, p.index)'
    <2>1. \A v, i : Waiting(j, v, i) => Waiting(j, v, i)'
      BY DEF Waiting
    <2> QED BY <1>1, <1>2, <2>1 DEF NetOK
  <1>4. \A p \in net : p # r /\ p.j = j => p.index # r.index
    BY <1>1 DEF NetOK
  <1>5. \A p, u \in net' : p.j = j /\ u.j = j /\ p.index = u.index => p = u
    BY <1>1, <1>2, <1>4 DEF NetOK
  <1>6. NetOK(j)'
    BY <1>3, <1>5 DEF NetOK
  <1>7. \A p \in net' : p.j = j => \E u \in net : u.j = j /\ u.index = p.index
    BY <1>2
  <1>8. PreparedOK(j)'
    BY <1>1, <1>7 DEF PreparedOK, Waiting
  <1> QED BY <1>6, <1>8

\* What RetireCall leaves to do after a callback.
Retirement(j, s, x, bb, after, st) ==
    /\ after = <<>> \/ after = <<Call("maybe", j)>>
    /\ st = RetireCall(j, s, x, bb) \o after

\* The calls that follow CompleteSq.
LEMMA RetireCalls ==
    ASSUME NEW j \in Jettys, NEW s, NEW x, NEW bb, NEW after, NEW st,
           Retirement(j, s, x, bb, after, st)
    PROVE  /\ st \in Seq(Frame)
           /\ \A k \in DOMAIN st : st[k].j = j /\ st[k].op \in {"retire", "maybe"}
  <1>0. "retire" \in FrameOps /\ "maybe" \in FrameOps
    BY DEF FrameOps
  <1>1. PICK p : p = RetireCall(j, s, x, bb)
    OBVIOUS
  <1>2. /\ p \in Seq(Frame)
        /\ \A k \in 1..Len(p) : p[k].j = j /\ p[k].op \in {"retire", "maybe"}
    <2>1. CASE p = <<>>
      BY <2>1
    <2>2. CASE p = <<Call("retire", j)>>
      <3>1. /\ p \in Seq(Frame) /\ DOMAIN p = {1} /\ p[1].op = "retire" /\ p[1].j = j
        BY <1>0, <2>2, IdleCalls
      <3>2. Len(p) = 1
        BY <2>2
      <3> QED BY <3>1, <3>2
    <2> QED BY <1>1, <2>1, <2>2 DEF RetireCall
  <1>3. PICK q : q = after
    OBVIOUS
  <1>4. /\ q \in Seq(Frame)
        /\ \A k \in 1..Len(q) : q[k].j = j /\ q[k].op \in {"retire", "maybe"}
    <2>1. CASE q = <<>>
      BY <2>1
    <2>2. CASE q = <<Call("maybe", j)>>
      <3>1. /\ q \in Seq(Frame) /\ DOMAIN q = {1} /\ q[1].op = "maybe" /\ q[1].j = j
        BY <1>0, <2>2, IdleCalls
      <3>2. Len(q) = 1
        BY <2>2
      <3> QED BY <3>1, <3>2
    <2> QED BY <1>3, <2>1, <2>2 DEF Retirement
  <1>5. st = p \o q
    BY <1>1, <1>3 DEF Retirement
  <1>6. /\ p \o q \in Seq(Frame) /\ Len(p \o q) = Len(p) + Len(q)
        /\ \A k \in 1..Len(p) : (p \o q)[k] = p[k]
        /\ \A k \in 1..Len(q) : (p \o q)[k + Len(p)] = q[k]
    BY <1>2, <1>4, Joined
  <1>7. PICK a \in Nat : a = Len(p)
    BY <1>2
  <1>8. PICK b \in Nat : b = Len(q)
    BY <1>4
  <1>9. st \in Seq(Frame) /\ DOMAIN st = 1..(a + b)
    BY <1>5, <1>6, <1>7, <1>8
  <1>10. ASSUME NEW k \in 1..(a + b)
         PROVE  st[k].j = j /\ st[k].op \in {"retire", "maybe"}
    <2>1. CASE k \in 1..a
      BY <1>2, <1>5, <1>6, <1>7, <2>1
    <2>2. CASE k > a
      <3>1. k - a \in 1..b /\ (k - a) + a = k
        BY <2>2
      <3>2. st[(k - a) + a] = q[k - a]
        BY <1>5, <1>6, <1>7, <1>8, <3>1
      <3>3. st[k] = q[k - a]
        BY <3>1, <3>2
      <3> QED BY <1>4, <1>8, <3>1, <3>3
    <2> QED BY <1>7, <1>8, <2>1, <2>2
  <1> QED BY <1>9, <1>10

\* A request completes, in whatever way it leaves the network.
Completes(r, after) ==
    /\ Idle /\ Answered(r, after)
    /\ after = <<>> \/ after = <<Call("maybe", r.j)>>
    /\ UNCHANGED <<posted, fetches, route, draining, sent>>

\* A request leaves the network.
LEMMA AnsweredStep ==
    ASSUME IInv, NEW r \in net, NEW after, Completes(r, after),
           faults' \in 0..MaxFaults
    PROVE  IInv'
  <1>j. PICK j \in Jettys : j = r.j
    <2>1. r \in Request
      BY DEF IInv, TypeOK
    <2> QED BY <2>1 DEF Request
  <1>p. /\ sq \in [Jettys -> Pipe] /\ sq[j] \in Pipe /\ posted[j] \in Seq(Wqe)
        /\ stack \in Seq(Frame)
    BY JettyParts
  <1>un. UNCHANGED <<posted, fetches, route, draining, sent>> /\ Idle
    BY DEF Completes
  <1>1. PICK bb : bb = KindOf(r.j, r.w).bb
    OBVIOUS
  <1>2. PICK x : x = r.index
    OBVIOUS
  <1>3. PICK c \in Seq(Entry) : c = sq[j].completions
    BY <1>p, PipeFields
  <1>4. /\ net' = net \ {r} /\ sq' = [sq EXCEPT ![j] = CompleteSq(sq[j], x, bb)]
        /\ stack' = RetireCall(j, sq[j], x, bb) \o after
    BY <1>j, <1>1, <1>2 DEF Completes, Answered
  <1>5. PICK d : CompletedAs(sq[j], x, bb, d) /\ ReadyAt(c, d, x)
    BY <1>3, CompleteFacts
  <1>t. d \in Seq(Entry)
    BY <1>5 DEF ReadyAt
  <1>u. sq' = [sq EXCEPT ![j] = [sq[j] EXCEPT !.completions = d]]
    BY <1>4, <1>5 DEF CompletedAs
  <1>6a. sq' = [sq EXCEPT ![j] = [sq[j] EXCEPT !.completions = d]]
    BY <1>u
  <1>6b. [sq[j] EXCEPT !.completions = d] \in Pipe
    BY <1>p, <1>t DEF Pipe
  <1>6c. /\ sq' \in [Jettys -> Pipe] /\ sq'[j] \in Pipe
       /\ sq'[j] = [sq[j] EXCEPT !.completions = d]
       /\ \A i \in Jettys : i # j => sq'[i] = sq[i]
    BY <1>p, <1>6a, <1>6b, SqUpdated
  <1>6d. /\ sq'[j].live = sq[j].live /\ sq'[j].consumer = sq[j].consumer
       /\ sq'[j].target = sq[j].target /\ sq'[j].direct = sq[j].direct
       /\ sq'[j].busy = sq[j].busy /\ sq'[j].issue = sq[j].issue
       /\ sq'[j].nextFetch = sq[j].nextFetch /\ sq'[j].cache = sq[j].cache
       /\ sq'[j].fetching = sq[j].fetching /\ sq'[j].cur = sq[j].cur
       /\ sq'[j].ordered = sq[j].ordered /\ sq'[j].failed = sq[j].failed
       /\ sq'[j].prepared = sq[j].prepared /\ sq'[j].completions = d
       /\ sq'[j].kick = sq[j].kick
    BY <1>p, <1>6c DEF Pipe
  <1>7. /\ Shaped(sq[j].completions, sq'[j].completions)
        /\ \A v, i : Waiting(j, v, i) /\ i # x => Waiting(j, v, i)'
    <2>1. ReadyAt(sq[j].completions, d, x) /\ sq'[j].completions = d
      BY <1>3, <1>5, <1>6d
    <2> QED BY <2>1, ReadyFacts
  <1>8. Kept(j)
    BY <1>un, <1>6d, <1>7 DEF Kept
  <1>9. sq[j].completions # <<>>
    <2>1. NetOK(j)
      BY JettyParts
    <2>2. Waiting(j, r.w, r.index)
      BY <1>j, <2>1 DEF NetOK
    <2> QED BY <2>2 DEF Waiting
  <1>10. NetOK(j)' /\ PreparedOK(j)'
    BY <1>j, <1>un, <1>2, <1>4, <1>6d, <1>7, FlightDone
  <1>11. /\ stack' \in Seq(Frame)
         /\ \A k \in DOMAIN stack' : stack'[k].j = j /\ stack'[k].op \in {"retire", "maybe"}
    <2>1. PICK st : Retirement(j, sq[j], x, bb, after, st) /\ st = stack'
      BY <1>j, <1>4 DEF Retirement, Completes
    <2>2. /\ st \in Seq(Frame)
          /\ \A k \in DOMAIN st : st[k].j = j /\ st[k].op \in {"retire", "maybe"}
      BY <2>1, RetireCalls
    <2> QED BY <2>1, <2>2
  <1>12. {"retire", "maybe"} \cap (Heads \cup Claims) = {}
    BY DEF Heads, Claims
  <1>13. /\ StackInv' /\ (Retries => Retries')
         /\ stack' # <<>> /\ stack'[1].op \in Heads => stack'[1].j = j
    BY <1>un, <1>11, <1>12, IdleStack
  <1>14. stack' # <<>> => stack'[1].op \notin {"fill", "decode", "handle"}
    BY <1>11, <1>12 DEF Heads
  <1>15. TypeOK'
    BY <1>un, <1>4, <1>6c, <1>11 DEF IInv, TypeOK
  <1>16. StepOf(j)
    BY <1>j, <1>un, <1>4, <1>6c, <1>13 DEF StepOf
  <1> QED BY <1>8, <1>9, <1>10, <1>13, <1>14, <1>15, <1>16, ShapedStep

\* A request moves on: its frame is sent, or its response is being written.
Moves(r, stage) ==
    /\ Idle /\ net' = (net \ {r}) \cup {[r EXCEPT !.stage = stage]}
    /\ UNCHANGED <<sq, posted, fetches, route, draining, stack, faults, sent>>

\* A request moves on in the network.
LEMMA MovesStep ==
    ASSUME IInv, NEW r \in net, NEW stage \in {"sent", "dma"}, Moves(r, stage)
    PROVE  IInv'
  <1>1. PICK q : q = [r EXCEPT !.stage = stage]
    OBVIOUS
  <1>2. r \in Request
    BY DEF IInv, TypeOK
  <1>3. q \in Request /\ q.j = r.j /\ q.w = r.w /\ q.index = r.index
    BY <1>1, <1>2 DEF Request
  <1>j. PICK j \in Jettys : j = r.j
    BY <1>2 DEF Request
  <1>p. /\ sq \in [Jettys -> Pipe] /\ sq[j] \in Pipe /\ posted[j] \in Seq(Wqe)
        /\ stack \in Seq(Frame)
    BY JettyParts
  <1>un. /\ UNCHANGED <<sq, posted, fetches, route, draining, stack, faults, sent>> /\ Idle
         /\ net' = (net \ {r}) \cup {q}
    BY <1>1 DEF Moves
  <1>4. NetOK(j)' /\ PreparedOK(j)'
    BY <1>j, <1>un, <1>3, FlightStaged
  <1>5. sq[j].completions # <<>>
    <2>1. NetOK(j)
      BY JettyParts
    <2>2. Waiting(j, r.w, r.index)
      BY <1>j, <2>1 DEF NetOK
    <2> QED BY <2>2 DEF Waiting
  <1>6. Shaped(sq[j].completions, sq'[j].completions)
    <2>1. EntryOK(j)
      BY JettyParts
    <2>2. PICK c \in Seq(Entry) : c = sq[j].completions
      BY <1>p, PipeFields
    <2> QED BY <1>un, <2>1, <2>2 DEF EntryOK, Shaped
  <1>7. Kept(j)
    BY <1>un, <1>6 DEF Kept
  <1>8. StackInv' /\ (Retries => Retries')
    BY <1>un DEF IInv, StackInv, Retries
  <1>9. TypeOK'
    BY <1>un, <1>3 DEF IInv, TypeOK
  <1>10. StepOf(j)
    BY <1>j, <1>un, <1>3 DEF StepOf, Idle
  <1>11. stack' # <<>> => stack'[1].op \notin {"fill", "decode", "handle"}
    BY <1>un DEF Idle
  <1> QED BY <1>4, <1>5, <1>7, <1>8, <1>9, <1>10, <1>11, ShapedStep

\* The network or the peer answers.
LEMMA NetworkStep ==
    ASSUME IInv, NEW r \in net,
           \/ FrameSent(r) \/ FrameRefused(r) \/ ReceiveWriteAck(r) \/ ReceiveRmaError(r)
           \/ ReceiveReadResponse(r) \/ ReadResponseWritten(r)
    PROVE  IInv'
  <1>0. faults \in 0..MaxFaults /\ (Fault => faults' \in 0..MaxFaults)
    BY FaultType DEF IInv, TypeOK
  <1>1. CASE FrameSent(r)
    <2>1. (Completes(r, <<>>) /\ faults' = faults) \/ Moves(r, "sent")
      BY <1>1 DEF FrameSent, Completes, Moves
    <2> QED BY <1>0, <2>1, AnsweredStep, MovesStep
  <1>2. CASE FrameRefused(r)
    <2>1. Completes(r, <<Call("maybe", r.j)>>) /\ Fault
      BY <1>2 DEF FrameRefused, Completes
    <2> QED BY <1>0, <2>1, AnsweredStep
  <1>3. CASE ReceiveWriteAck(r)
    <2>1. Completes(r, <<>>) /\ faults' = faults
      BY <1>3 DEF ReceiveWriteAck, Completes
    <2> QED BY <1>0, <2>1, AnsweredStep
  <1>4. CASE ReceiveRmaError(r)
    <2>1. Completes(r, <<>>) /\ Fault
      BY <1>4 DEF ReceiveRmaError, Completes
    <2> QED BY <1>0, <2>1, AnsweredStep
  <1>5. CASE ReceiveReadResponse(r)
    <2>1. Moves(r, "dma")
      BY <1>5 DEF ReceiveReadResponse, Moves
    <2> QED BY <2>1, MovesStep
  <1>6. CASE ReadResponseWritten(r)
    <2>1. Completes(r, <<Call("maybe", r.j)>>) /\ faults' = faults
      BY <1>6 DEF ReadResponseWritten, Completes
    <2> QED BY <1>0, <2>1, AnsweredStep
  <1> QED BY <1>1, <1>2, <1>3, <1>4, <1>5, <1>6

----------------------------------------------------------------------------
(* Publication *)

\* The CQE of entry k gets as far as p.
Publishes(j, k, p, b) ==
    /\ k \in DOMAIN sq[j].completions
    /\ sq' = [sq EXCEPT ![j] =
                 [sq[j] EXCEPT !.completions = [sq[j].completions EXCEPT ![k].pub = p],
                               !.failed = b]]
    /\ UNCHANGED <<posted, fetches, net, route, draining, sent>>

\* The CQE of a ready entry moves on, and nothing else of the jetty changes.
LEMMA PublishFacts ==
    ASSUME IInv, NEW j \in Jettys, NEW k, NEW b \in BOOLEAN,
           NEW p \in {"no", "issued", "landed", "done", "failed"}, Publishes(j, k, p, b),
           sq[j].completions[k].ready
    PROVE  /\ sq' \in [Jettys -> Pipe] /\ \A i \in Jettys : i # j => sq'[i] = sq[i]
           /\ Kept(j) /\ sq[j].completions # <<>> /\ sq'[j].fetching = sq[j].fetching
           /\ NetOK(j)' /\ PreparedOK(j)' /\ sq[j].live
  <1>p. /\ sq \in [Jettys -> Pipe] /\ sq[j] \in Pipe /\ posted[j] \in Seq(Wqe)
        /\ stack \in Seq(Frame)
    BY JettyParts
  <1>1. k \in DOMAIN sq[j].completions
    BY DEF Publishes
  <1>2. PICK d : d = [sq[j].completions EXCEPT ![k].pub = p]
    OBVIOUS
  <1>un. UNCHANGED <<posted, fetches, net, route, draining, sent>>
    BY DEF Publishes
  <1>u. sq' = [sq EXCEPT ![j] = [sq[j] EXCEPT !.completions = d, !.failed = b]]
    BY <1>2 DEF Publishes
  <1>t. d \in Seq(Entry) /\ Shaped(sq[j].completions, d)
    BY <1>1, <1>2, PublishedFacts
  <1>3a. sq' = [sq EXCEPT ![j] = [sq[j] EXCEPT !.completions = d, !.failed = b]]
    BY <1>u
  <1>3b. [sq[j] EXCEPT !.completions = d, !.failed = b] \in Pipe
    BY <1>p, <1>t DEF Pipe
  <1>3c. /\ sq' \in [Jettys -> Pipe] /\ sq'[j] \in Pipe
       /\ sq'[j] = [sq[j] EXCEPT !.completions = d, !.failed = b]
       /\ \A i \in Jettys : i # j => sq'[i] = sq[i]
    BY <1>p, <1>3a, <1>3b, SqUpdated
  <1>3d. /\ sq'[j].live = sq[j].live /\ sq'[j].consumer = sq[j].consumer
       /\ sq'[j].target = sq[j].target /\ sq'[j].direct = sq[j].direct
       /\ sq'[j].busy = sq[j].busy /\ sq'[j].issue = sq[j].issue
       /\ sq'[j].nextFetch = sq[j].nextFetch /\ sq'[j].cache = sq[j].cache
       /\ sq'[j].fetching = sq[j].fetching /\ sq'[j].cur = sq[j].cur
       /\ sq'[j].ordered = sq[j].ordered /\ sq'[j].failed = b
       /\ sq'[j].prepared = sq[j].prepared /\ sq'[j].completions = d
       /\ sq'[j].kick = sq[j].kick
    BY <1>p, <1>3c DEF Pipe
  <1>4. \A v, i : Waiting(j, v, i) => Waiting(j, v, i)'
    BY <1>1, <1>2, <1>3d, PublishedFacts
  <1>5. NetOK(j)' /\ PreparedOK(j)'
    BY <1>un, <1>3d, <1>4, FlightSame
  <1>6. Kept(j)
    BY <1>un, <1>t, <1>3d DEF Kept
  <1>7. sq[j].completions # <<>>
    BY <1>1
  <1> QED BY <1>3c, <1>3d, <1>5, <1>6, <1>7, LiveFacts

\* A callback publishes.
LEMMA PublishIdle ==
    ASSUME IInv, NEW j \in Jettys, NEW k, NEW b \in BOOLEAN,
           NEW p \in {"no", "issued", "landed", "done", "failed"}, Publishes(j, k, p, b),
           sq[j].completions[k].ready, Idle, faults' \in 0..MaxFaults,
           stack' = <<>> \/ stack' = <<Call("pop", j)>>
    PROVE  IInv'
  <1>1. /\ sq' \in [Jettys -> Pipe] /\ \A i \in Jettys : i # j => sq'[i] = sq[i]
        /\ Kept(j) /\ sq[j].completions # <<>>
        /\ NetOK(j)' /\ PreparedOK(j)' /\ sq[j].live
    BY PublishFacts
  <1>un. UNCHANGED <<posted, fetches, net, route, draining, sent>>
    BY DEF Publishes
  <1>2. /\ stack' \in Seq(Frame)
        /\ \A k2 \in DOMAIN stack' : k2 = 1 /\ stack'[k2].op = "pop" /\ stack'[k2].j = j
    <2>1. CASE stack' = <<>>
      BY <2>1
    <2>2. CASE stack' = <<Call("pop", j)>>
      <3>1. "pop" \in FrameOps
        BY DEF FrameOps
      <3>2. /\ stack' \in Seq(Frame) /\ DOMAIN stack' = {1}
            /\ stack'[1].op = "pop" /\ stack'[1].j = j
        BY <2>2, <3>1, IdleCalls
      <3> QED BY <3>2
    <2> QED BY <2>1, <2>2
  <1>3. "pop" \notin Claims
    BY DEF Claims
  <1>4. /\ StackInv' /\ (Retries => Retries')
        /\ stack' # <<>> /\ stack'[1].op \in Heads => stack'[1].j = j
    BY <1>2, <1>3, IdleStack
  <1>5. stack' # <<>> => stack'[1].op \notin {"fill", "decode", "handle"}
    BY <1>2
  <1>6. TypeOK'
    BY <1>un, <1>1, <1>2 DEF IInv, TypeOK
  <1>7. StepOf(j)
    BY <1>un, <1>1, <1>4 DEF StepOf
  <1> QED BY <1>1, <1>4, <1>5, <1>6, <1>7, ShapedStep

\* A CQE was issued because its entry was ready; its DMA moves on.
LEMMA CqeForms ==
    ASSUME IInv, NEW j \in Jettys, NEW k,
           CqeLands(j, k) \/ CqeWritten(j, k) \/ CqeFails(j, k)
    PROVE  /\ Idle /\ sq[j].completions[k].ready /\ faults' \in 0..MaxFaults
           /\ stack' = <<>> \/ stack' = <<Call("pop", j)>>
           /\ \E b \in BOOLEAN : \E p \in {"no", "issued", "landed", "done", "failed"} :
                 Publishes(j, k, p, b)
  <1>p. /\ sq \in [Jettys -> Pipe] /\ sq[j] \in Pipe /\ posted[j] \in Seq(Wqe)
        /\ stack \in Seq(Frame)
    BY JettyParts
  <1>0. faults \in 0..MaxFaults /\ (Fault => faults' \in 0..MaxFaults)
    BY FaultType DEF IInv, TypeOK
  <1>1. /\ Idle /\ k \in DOMAIN sq[j].completions /\ sq[j].completions[k].pub # "no"
    BY DEF CqeLands, CqeWritten, CqeFails
  <1>2. sq[j].completions[k].ready
    BY <1>1, JettyParts DEF EntryOK
  <1>3. PICK b \in BOOLEAN : b = sq[j].failed
    BY <1>p, PipeFields
  <1>s. \A c : [sq[j] EXCEPT !.completions = c] =
               [sq[j] EXCEPT !.completions = c, !.failed = b]
    BY <1>p, <1>3 DEF Pipe
  <1>4. CASE CqeLands(j, k)
    <2>1. sq' = [sq EXCEPT ![j] = [sq[j] EXCEPT !.completions =
                                     [sq[j].completions EXCEPT ![k].pub = "landed"]]]
      BY <1>4 DEF CqeLands
    <2>2. Publishes(j, k, "landed", b)
      BY <1>1, <1>s, <1>4, <2>1 DEF CqeLands, Publishes
    <2>3. stack' = <<>> /\ faults' = faults
      BY <1>1, <1>4 DEF CqeLands, Idle
    <2> QED BY <1>0, <1>1, <1>2, <2>2, <2>3
  <1>5. CASE CqeWritten(j, k)
    <2>1. sq' = [sq EXCEPT ![j] = [sq[j] EXCEPT !.completions =
                                     [sq[j].completions EXCEPT ![k].pub = "done"]]]
      BY <1>5 DEF CqeWritten, Finished
    <2>2. Publishes(j, k, "done", b)
      BY <1>1, <1>s, <1>5, <2>1 DEF CqeWritten, Publishes
    <2>3. stack' = <<Call("pop", j)>> /\ faults' = faults
      BY <1>5 DEF CqeWritten
    <2> QED BY <1>0, <1>1, <1>2, <2>2, <2>3
  <1>6. CASE CqeFails(j, k)
    <2>1. PICK e \in BOOLEAN : e = (sq[j].failed \/ Pipelined)
      OBVIOUS
    <2>2. sq' = [sq EXCEPT ![j] = [sq[j] EXCEPT !.completions =
                    [sq[j].completions EXCEPT ![k].pub = "failed"], !.failed = e]]
      BY <1>6, <2>1 DEF CqeFails
    <2>3. Publishes(j, k, "failed", e)
      BY <1>1, <1>6, <2>2 DEF CqeFails, Publishes
    <2>4. stack' = <<>> /\ Fault
      BY <1>1, <1>6 DEF CqeFails, Idle
    <2> QED BY <1>0, <1>1, <1>2, <2>3, <2>4
  <1> QED BY <1>4, <1>5, <1>6

\* The DMA of a CQE moves on.
LEMMA CqeStep ==
    ASSUME IInv, NEW j \in Jettys, NEW k,
           CqeLands(j, k) \/ CqeWritten(j, k) \/ CqeFails(j, k)
    PROVE  IInv'
  BY CqeForms, PublishIdle

\* RetireSq publishes.
LEMMA PublishRunning ==
    ASSUME IInv, NEW j \in Jettys, NEW k, NEW b \in BOOLEAN,
           NEW p \in {"no", "issued", "landed", "done", "failed"}, Publishes(j, k, p, b),
           sq[j].completions[k].ready, Running("retire", j), faults' = faults,
           stack' = stack \/ stack' = <<Call("pop", j)>> \o stack
    PROVE  IInv'
  <1>1. /\ sq' \in [Jettys -> Pipe] /\ \A i \in Jettys : i # j => sq'[i] = sq[i]
        /\ Kept(j) /\ sq[j].completions # <<>> /\ sq'[j].fetching = sq[j].fetching
        /\ NetOK(j)' /\ PreparedOK(j)' /\ sq[j].live
    BY PublishFacts
  <1>un. UNCHANGED <<posted, fetches, net, route, draining, sent>>
    BY DEF Publishes
  <1>2. stack # <<>> /\ stack[1].op = "retire" /\ stack[1].j = j
    BY RunningCall
  <1>3. "pop" \in FrameOps /\ "pop" \notin Claims /\ "retire" \notin Heads
    BY DEF FrameOps, Claims, Heads
  <1>4. /\ StackInv' /\ stack' \in Seq(Frame) /\ (Retries => Retries')
        /\ stack'[1].j = j /\ stack'[1].op \notin {"fill", "decode", "handle"}
    <2>1. CASE stack' = stack
      BY <1>1, <1>2, <2>1, SameStack
    <2>2. CASE stack' = <<Call("pop", j)>> \o stack
      <3>1. Pushed(stack', stack, 1, 1) /\ stack'[1].op = "pop" /\ stack'[1].j = j
        BY <1>2, <1>3, <2>2, OneCall
      <3> QED BY <1>1, <1>2, <1>3, <3>1, PlainStack
    <2> QED BY <2>1, <2>2
  <1>5. TypeOK'
    BY <1>un, <1>1, <1>4, QuietType
  <1>6. StepOf(j)
    BY <1>un, <1>1, <1>4 DEF StepOf
  <1> QED BY <1>1, <1>4, <1>5, <1>6, ShapedStep

\* RetireSq issues a CQE, or returns.
LEMMA RetireStep ==
    ASSUME IInv, NEW j \in Jettys, RetireSq(j)
    PROVE  IInv'
  <1>p. /\ sq \in [Jettys -> Pipe] /\ sq[j] \in Pipe /\ posted[j] \in Seq(Wqe)
        /\ stack \in Seq(Frame)
    BY JettyParts
  <1>1. /\ Running("retire", j)
        /\ UNCHANGED <<posted, fetches, net, route, draining, faults, sent>>
    BY DEF RetireSq
  <1>2. stack # <<>> /\ stack[1].op = "retire" /\ stack[1].j = j /\ Pushed(Rest, stack, 0, -1)
    BY <1>1, RunningCall
  <1>3. CASE stack' = Rest /\ sq' = sq
    BY <1>1, <1>2, <1>3, SameQuiet, QuietCall
  <1>4. CASE \E k \in Publishable(sq[j]) :
                \/ /\ sq' = [sq EXCEPT ![j].completions[k].pub = "issued"]
                   /\ UNCHANGED stack
                \/ /\ sq' = [sq EXCEPT ![j] = Finished(@, k)]
                   /\ stack' = <<Call("pop", j)>> \o stack
    <2>1. PICK k \in Publishable(sq[j]) :
                \/ /\ sq' = [sq EXCEPT ![j].completions[k].pub = "issued"]
                   /\ UNCHANGED stack
                \/ /\ sq' = [sq EXCEPT ![j] = Finished(@, k)]
                   /\ stack' = <<Call("pop", j)>> \o stack
      BY <1>4
    <2>2. k \in DOMAIN sq[j].completions /\ sq[j].completions[k].ready
      BY <2>1 DEF Publishable, NextEntry
    <2>3. PICK b \in BOOLEAN : b = sq[j].failed
      BY <1>p, PipeFields
    <2>s. \A c : [sq[j] EXCEPT !.completions = c] =
                 [sq[j] EXCEPT !.completions = c, !.failed = b]
      BY <1>p, <2>3 DEF Pipe
    <2>4. \E p \in {"no", "issued", "landed", "done", "failed"} :
             sq' = [sq EXCEPT ![j] = [sq[j] EXCEPT !.completions =
                                        [sq[j].completions EXCEPT ![k].pub = p]]]
      <3>1. CASE sq' = [sq EXCEPT ![j].completions[k].pub = "issued"]
        <4>1. sq' = [sq EXCEPT ![j] = [sq[j] EXCEPT !.completions =
                                        [sq[j].completions EXCEPT ![k].pub = "issued"]]]
          BY <3>1
        <4> QED BY <4>1
      <3>2. CASE sq' = [sq EXCEPT ![j] = Finished(@, k)]
        <4>1. sq' = [sq EXCEPT ![j] = [sq[j] EXCEPT !.completions =
                                        [sq[j].completions EXCEPT ![k].pub = "done"]]]
          BY <3>2 DEF Finished
        <4> QED BY <4>1
      <3> QED BY <2>1, <3>1, <3>2
    <2>5. PICK p \in {"no", "issued", "landed", "done", "failed"} :
             sq' = [sq EXCEPT ![j] = [sq[j] EXCEPT !.completions =
                                        [sq[j].completions EXCEPT ![k].pub = p]]]
      BY <2>4
    <2>6. Publishes(j, k, p, b)
      BY <1>1, <2>2, <2>s, <2>5 DEF Publishes
    <2>7. stack' = stack \/ stack' = <<Call("pop", j)>> \o stack
      BY <2>1
    <2> QED BY <1>1, <2>2, <2>6, <2>7, PublishRunning
  <1> QED BY <1>3, <1>4 DEF RetireSq

----------------------------------------------------------------------------
(* Retirement *)

\* The front entry leaves, and the consumer index passes its slots.
Leaves(j, c, n, b) ==
    /\ c = sq[j].completions /\ n + 1 = Len(c) /\ b = c[1].bb /\ c[1].pub = "done"
    /\ sq'[j].completions = Tail(c) /\ sq'[j].consumer = sq[j].consumer + b
    /\ sq'[j].issue = sq[j].issue /\ sq'[j].target = sq[j].target
    /\ sq'[j].ordered = sq[j].ordered /\ posted' = posted

\* The entries without the first one.
LEMMA TailFacts ==
    ASSUME NEW c \in Seq(Entry), NEW n \in Nat, n + 1 = Len(c)
    PROVE  /\ Tail(c) \in Seq(Entry) /\ Len(Tail(c)) = n /\ DOMAIN Tail(c) = 1..n
           /\ \A k \in 1..n : Tail(c)[k] = c[k + 1] /\ k + 1 \in 1..(n + 1)
           /\ DOMAIN c = 1..(n + 1) /\ 1 \in 1..(n + 1)
  OBVIOUS

\* The first entry leaves: the others keep their part of the invariant.
LEMMA LeavesParts ==
    ASSUME IInv, NEW j \in Jettys, NEW c \in Seq(Entry), NEW n \in Nat, NEW b,
           Leaves(j, c, n, b)
    PROVE  /\ EntryOK(j)' /\ TileOK(j)' /\ FenceOK(j)' /\ b \in Nat
           /\ \A v, i : Waiting(j, v, i) => Waiting(j, v, i)'
  <1>1. /\ c = sq[j].completions /\ n + 1 = Len(c) /\ b = c[1].bb /\ c[1].pub = "done"
        /\ sq'[j].consumer = sq[j].consumer + b
        /\ sq'[j].issue = sq[j].issue /\ sq'[j].target = sq[j].target
        /\ sq'[j].ordered = sq[j].ordered /\ posted' = posted
    BY DEF Leaves
  <1>2. PICK d : d = Tail(c)
    OBVIOUS
  <1>3. /\ d \in Seq(Entry) /\ Len(d) = n /\ DOMAIN d = 1..n
        /\ \A k \in 1..n : d[k] = c[k + 1] /\ k + 1 \in 1..(n + 1)
        /\ DOMAIN c = 1..(n + 1) /\ 1 \in 1..(n + 1)
    BY <1>1, <1>2, TailFacts
  <1>4. sq'[j].completions = d
    BY <1>2 DEF Leaves
  <1>5. EntryOK(j) /\ TileOK(j) /\ FenceOK(j)
    BY JettyParts
  <1>6. EntryOK(j)'
    <2>1. \A k \in 1..n : k + 1 \in DOMAIN sq[j].completions /\ d[k] = sq[j].completions[k + 1]
      BY <1>1, <1>3
    <2>2. \A k \in 1..n : /\ d[k].w \in DOMAIN posted[j]
                           /\ d[k].bb = posted[j][d[k].w].kind.bb
                           /\ (d[k].pub # "no" => d[k].ready)
      BY <1>5, <2>1 DEF EntryOK
    <2> QED BY <1>1, <1>3, <1>4, <2>2 DEF EntryOK
  <1>7. FenceOK(j)'
    <2> SUFFICES ASSUME NEW k \in 1..n, posted[j][d[k].w].kind.ordered
                 PROVE  Len(d) = 1 /\ sq'[j].ordered
      BY <1>1, <1>3, <1>4 DEF FenceOK
    <2>1. Len(c) = 1
      BY <1>1, <1>3, <1>5 DEF FenceOK
    <2> QED BY <1>1, <2>1
  <1>8. ASSUME NEW v, NEW i, Waiting(j, v, i) PROVE Waiting(j, v, i)'
    <2>1. PICK k \in 1..(n + 1) : c[k].w = v /\ c[k].index = i /\ ~c[k].ready
      BY <1>1, <1>3, <1>8 DEF Waiting
    <2>2. c[1].ready
      BY <1>1, <1>3, <1>5 DEF EntryOK
    <2>3. k - 1 \in 1..n /\ (k - 1) + 1 = k
      BY <2>1, <2>2
    <2>4. d[k - 1] = c[(k - 1) + 1]
      BY <1>3, <2>3
    <2>5. d[k - 1].w = v /\ d[k - 1].index = i /\ ~d[k - 1].ready
      BY <2>1, <2>3, <2>4
    <2> QED BY <1>3, <1>4, <2>3, <2>5 DEF Waiting
  <1>9. c[1] \in Entry /\ b \in Nat
    <2>1. c[1] \in Entry
      BY <1>1
    <2> QED BY <1>1, <2>1 DEF Entry
  <1>10. TileOK(j)'
    <2>1. PICK f : Tiles(c, f, sq[j].consumer, sq[j].issue)
      BY <1>1, <1>5 DEF TileOK
    <2>2. /\ f \in [1..((n + 1) + 1) -> Nat] /\ f[1] = sq[j].consumer
          /\ f[(n + 1) + 1] = sq[j].issue
          /\ \A k \in 1..(n + 1) : /\ f[k + 1] = f[k] + c[k].bb
                                   /\ c[k].index = (f[k + 1] - 1) % Depth
          /\ \A k, m \in 1..((n + 1) + 1) : k < m => f[k] < f[m]
      BY <1>1, <2>1 DEF Tiles
    <2>3. PICK g : g = [k \in 1..(n + 1) |-> f[k + 1]]
      OBVIOUS
    <2>4. \A k \in 1..(n + 1) : k + 1 \in 1..((n + 1) + 1) /\ k \in 1..((n + 1) + 1)
      OBVIOUS
    <2>5. g \in [1..(n + 1) -> Nat] /\ \A k \in 1..(n + 1) : g[k] = f[k + 1]
      BY <2>2, <2>3, <2>4
    <2>6. PICK from : from = sq[j].consumer + b
      OBVIOUS
    <2>7. g[1] = from /\ g[n + 1] = sq[j].issue
      <3>1. g[1] = f[1 + 1] /\ f[1 + 1] = f[1] + c[1].bb
        BY <1>3, <2>2, <2>5
      <3>2. n + 1 \in 1..(n + 1)
        OBVIOUS
      <3> QED BY <1>1, <2>2, <2>5, <2>6, <3>1, <3>2
    <2>8. ASSUME NEW k \in 1..n
          PROVE  g[k + 1] = g[k] + d[k].bb /\ d[k].index = (g[k + 1] - 1) % Depth
      <3>1. k \in 1..(n + 1) /\ k + 1 \in 1..(n + 1) /\ d[k] = c[k + 1]
        BY <1>3
      <3>2. g[k] = f[k + 1] /\ g[k + 1] = f[(k + 1) + 1]
        BY <2>5, <3>1
      <3>3. /\ f[(k + 1) + 1] = f[k + 1] + c[k + 1].bb
            /\ c[k + 1].index = (f[(k + 1) + 1] - 1) % Depth
        BY <2>2, <3>1
      <3> QED BY <3>1, <3>2, <3>3
    <2>9. ASSUME NEW k \in 1..(n + 1), NEW m \in 1..(n + 1), k < m
          PROVE  g[k] < g[m]
      <3>1. k + 1 \in 1..((n + 1) + 1) /\ m + 1 \in 1..((n + 1) + 1) /\ k + 1 < m + 1
        BY <2>4, <2>9
      <3>2. f[k + 1] < f[m + 1]
        BY <2>2, <3>1
      <3> QED BY <2>5, <3>2
    <2>10. Tiles(d, g, from, sq[j].issue)
      BY <1>3, <2>5, <2>7, <2>8, <2>9 DEF Tiles
    <2>11. Tiles(sq[j].completions, g, sq[j].consumer, sq[j].issue)'
      <3>1. sq'[j].completions = d /\ sq'[j].consumer = from /\ sq'[j].issue = sq[j].issue
        BY <1>1, <1>4, <2>6
      <3> QED BY <2>10, <3>1 DEF Tiles
    <2>12. /\ sq[j].issue <= sq[j].consumer + Depth /\ sq[j].issue <= sq[j].target
      BY <1>5 DEF TileOK
    <2>13. PICK u \in Nat : u = sq[j].consumer
      BY JettyParts, PipeFields
    <2>14. PICK i \in Nat : i = sq[j].issue
      BY JettyParts, PipeFields
    <2>15. i <= u + Depth /\ Depth \in Nat
      BY <2>12, <2>13, <2>14, SizeAssumption
    <2>16. i <= (u + b) + Depth
      BY <1>9, <2>15
    <2>17. sq'[j].issue <= sq'[j].consumer + Depth /\ sq'[j].issue <= sq'[j].target
      BY <1>1, <2>12, <2>13, <2>14, <2>16
    <2> QED BY <2>11, <2>17 DEF TileOK
  <1> QED BY <1>6, <1>7, <1>8, <1>9, <1>10

\* PopRetired pops the front entry.
Pops(j) ==
    /\ Running("pop", j) /\ FrontDone(sq[j])
    /\ sq' = [sq EXCEPT ![j].completions = Tail(@),
                        ![j].consumer = @ + sq[j].completions[1].bb]
    /\ UNCHANGED <<posted, fetches, net, route, draining, stack, faults, sent>>

\* The first entry retires its slots.
LEMMA PopStep ==
    ASSUME IInv, NEW j \in Jettys, Pops(j)
    PROVE  IInv'
  <1>p. /\ sq \in [Jettys -> Pipe] /\ sq[j] \in Pipe /\ posted[j] \in Seq(Wqe)
        /\ stack \in Seq(Frame)
    BY JettyParts
  <1>un. UNCHANGED <<posted, fetches, net, route, draining, stack, faults, sent>>
    BY DEF Pops
  <1>1. stack # <<>> /\ stack[1].op = "pop" /\ stack[1].j = j
    BY RunningCall DEF Pops
  <1>2. sq[j].completions # <<>> /\ sq[j].completions[1].pub = "done"
    BY DEF Pops, FrontDone
  <1>3. PICK c \in Seq(Entry) : c = sq[j].completions
    BY <1>p, PipeFields
  <1>4. PICK n \in Nat : n + 1 = Len(c)
    <2>1. Len(c) \in Nat /\ Len(c) # 0
      BY <1>2, <1>3
    <2>2. Len(c) - 1 \in Nat /\ (Len(c) - 1) + 1 = Len(c)
      BY <2>1
    <2> QED BY <2>2
  <1>5. PICK b : b = c[1].bb
    OBVIOUS
  <1>6. PICK d \in Seq(Entry) : d = Tail(c)
    BY <1>3, <1>4, TailFacts
  <1>7. PICK u : u = sq[j].consumer + b
    OBVIOUS
  <1>t. u \in Nat /\ d \in Seq(Entry)
    <2>1. c[1] \in Entry
      BY <1>4
    <2>2. b \in Nat /\ sq[j].consumer \in Nat
      BY <1>p, <1>5, <2>1, PipeFields DEF Entry
    <2> QED BY <1>6, <1>7, <2>2
  <1>u. sq' = [sq EXCEPT ![j].completions = d, ![j].consumer = u]
    BY <1>3, <1>5, <1>6, <1>7 DEF Pops
  <1>8a. sq' = [sq EXCEPT ![j] = [sq[j] EXCEPT !.completions = d, !.consumer = u]]
    BY <1>u
  <1>8b. [sq[j] EXCEPT !.completions = d, !.consumer = u] \in Pipe
    BY <1>p, <1>t DEF Pipe
  <1>8c. /\ sq' \in [Jettys -> Pipe] /\ sq'[j] \in Pipe
       /\ sq'[j] = [sq[j] EXCEPT !.completions = d, !.consumer = u]
       /\ \A i \in Jettys : i # j => sq'[i] = sq[i]
    BY <1>p, <1>8a, <1>8b, SqUpdated
  <1>8d. /\ sq'[j].live = sq[j].live /\ sq'[j].consumer = u
       /\ sq'[j].target = sq[j].target /\ sq'[j].direct = sq[j].direct
       /\ sq'[j].busy = sq[j].busy /\ sq'[j].issue = sq[j].issue
       /\ sq'[j].nextFetch = sq[j].nextFetch /\ sq'[j].cache = sq[j].cache
       /\ sq'[j].fetching = sq[j].fetching /\ sq'[j].cur = sq[j].cur
       /\ sq'[j].ordered = sq[j].ordered /\ sq'[j].failed = sq[j].failed
       /\ sq'[j].prepared = sq[j].prepared /\ sq'[j].completions = d
       /\ sq'[j].kick = sq[j].kick
    BY <1>p, <1>8c DEF Pipe
  <1>9. Leaves(j, c, n, b)
    BY <1>un, <1>2, <1>3, <1>4, <1>5, <1>6, <1>7, <1>8d DEF Leaves
  <1>10. /\ EntryOK(j)' /\ TileOK(j)' /\ FenceOK(j)' /\ b \in Nat
         /\ \A v, i : Waiting(j, v, i) => Waiting(j, v, i)'
    BY <1>9, LeavesParts
  <1>11. NetOK(j)' /\ PreparedOK(j)'
    BY <1>un, <1>8d, <1>10, FlightSame
  <1>12. sq[j].live /\ sq[j].busy /\ sq'[j].live /\ sq'[j].busy
    BY <1>2, <1>8d, LiveFacts, JettyParts DEF BusyOK
  <1>13. /\ StackInv' /\ stack' \in Seq(Frame) /\ (Retries => Retries') /\ stack'[1].j = j
    BY <1>un, <1>1, <1>8c, <1>8d, SameStack
  <1>14. LiveOK(j)' /\ BusyOK(j)' /\ TopOK(j)' /\ PostedOK(j)'
    <2>1. TopOK(j)'
      BY <1>un, <1>1, <1>12 DEF TopOK, Top
    <2>2. PostedOK(j)'
      BY <1>un, <1>8d, JettyParts DEF PostedOK
    <2> QED BY <1>12, <2>1, <2>2 DEF LiveOK, BusyOK
  <1>15. ReadOK(j)'
    <2>1. ReadOK(j)
      BY JettyParts
    <2>2. ASSUME NEW w, Fits(j, w) PROVE Fits(j, w)'
      <3>1. posted[j][w].kind.bb \in Nat \ {0}
        BY <2>2, WqeFacts DEF Fits
      <3>2. sq[j].issue \in Nat /\ sq[j].consumer \in Nat /\ Depth \in Nat
        BY <1>p, PipeFields, SizeAssumption
      <3>3. PICK y \in Nat : y = sq[j].issue + posted[j][w].kind.bb
        BY <3>1, <3>2
      <3>4. y <= sq[j].consumer + Depth => y <= (sq[j].consumer + b) + Depth
        BY <1>10, <3>2
      <3> QED BY <1>un, <1>7, <1>8d, <2>2, <3>3, <3>4 DEF Fits
    <2>3. PICK w : w = sq[j].cur /\ w = sq'[j].cur
      BY <1>8d
    <2>4. Fits(j, sq[j].cur) => Fits(j, sq[j].cur)'
      BY <2>2, <2>3 DEF Fits
    <2>5. sq[j].fetching = "payload" => ~posted[j][sq[j].cur].kind.ordered
      BY <1>2, <2>1 DEF ReadOK
    <2> QED BY <1>un, <1>8d, <2>1, <2>4, <2>5 DEF ReadOK
  <1>16. StepOf(j)
    BY <1>un, <1>8c, <1>13 DEF StepOf
  <1>17. TypeOK'
    BY <1>un, <1>8c, <1>13, QuietType
  <1>18. DestroyInv'
    <2>1. ResourceQueueBusy(j)'
      BY <1>12 DEF ResourceQueueBusy
    <2> QED BY <1>un, <1>12, <1>13, <1>16, <2>1, DestroyStep
  <1> QED BY <1>10, <1>11, <1>13, <1>14, <1>15, <1>16, <1>17, <1>18, StepInv

\* PopRetired has popped what it could.
Settles(j) ==
    /\ Running("pop", j)
    /\ sq' = [sq EXCEPT ![j].ordered = StillOrdered(sq[j]),
                        ![j].busy = Occupied(sq[j], Fetching(j))]
    /\ stack' = AfterFinish(j) \o Rest
    /\ UNCHANGED <<posted, fetches, net, route, draining, faults, sent>>

\* No acknowledged entry is left at the front.
LEMMA SettleStep ==
    ASSUME IInv, NEW j \in Jettys, Settles(j)
    PROVE  IInv'
  <1>p. /\ sq \in [Jettys -> Pipe] /\ sq[j] \in Pipe /\ posted[j] \in Seq(Wqe)
        /\ stack \in Seq(Frame)
    BY JettyParts
  <1>un. UNCHANGED <<posted, fetches, net, route, draining, faults, sent>>
    BY DEF Settles
  <1>1. stack # <<>> /\ stack[1].op = "pop" /\ stack[1].j = j /\ Top("pop", j)
    BY RunningCall DEF Settles
  <1>2. sq[j].live
    BY <1>1, JettyParts DEF TopOK
  <1>3. PICK o \in BOOLEAN : /\ o = StillOrdered(sq[j])
                             /\ o => sq[j].ordered
                             /\ sq[j].completions # <<>> => (o <=> sq[j].ordered)
    <2>1. sq[j].ordered \in BOOLEAN
      BY <1>p, PipeFields
    <2> QED BY <2>1 DEF StillOrdered
  <1>4. PICK b \in BOOLEAN :
           /\ b = Occupied(sq[j], Fetching(j))
           /\ ~b => /\ sq[j].fetching = "no" /\ sq[j].completions = <<>>
                    /\ \A f \in fetches : f.j # j
    BY DEF Occupied, Fetching
  <1>t. o \in BOOLEAN /\ b \in BOOLEAN /\ sq[j].target \in Nat /\ sq[j].issue \in Nat
    BY <1>p, <1>3, <1>4, PipeFields
  <1>u. sq' = [sq EXCEPT ![j].ordered = o, ![j].busy = b]
    BY <1>3, <1>4 DEF Settles
  <1>5a. sq' = [sq EXCEPT ![j] = [sq[j] EXCEPT !.ordered = o, !.busy = b]]
    BY <1>u
  <1>5b. [sq[j] EXCEPT !.ordered = o, !.busy = b] \in Pipe
    BY <1>p, <1>t DEF Pipe
  <1>5c. /\ sq' \in [Jettys -> Pipe] /\ sq'[j] \in Pipe
       /\ sq'[j] = [sq[j] EXCEPT !.ordered = o, !.busy = b]
       /\ \A i \in Jettys : i # j => sq'[i] = sq[i]
    BY <1>p, <1>5a, <1>5b, SqUpdated
  <1>5d. /\ sq'[j].live = sq[j].live /\ sq'[j].consumer = sq[j].consumer
       /\ sq'[j].target = sq[j].target /\ sq'[j].direct = sq[j].direct
       /\ sq'[j].busy = b /\ sq'[j].issue = sq[j].issue
       /\ sq'[j].nextFetch = sq[j].nextFetch /\ sq'[j].cache = sq[j].cache
       /\ sq'[j].fetching = sq[j].fetching /\ sq'[j].cur = sq[j].cur
       /\ sq'[j].ordered = o /\ sq'[j].failed = sq[j].failed
       /\ sq'[j].prepared = sq[j].prepared /\ sq'[j].completions = sq[j].completions
       /\ sq'[j].kick = sq[j].kick
    BY <1>p, <1>5c DEF Pipe
  <1>6. /\ Pushed(stack', stack, 3, 2) /\ stack'[1].op = "retire" /\ stack'[1].j = j
        /\ stack'[2].op = "maybe" /\ stack'[2].j = j
        /\ stack'[3].op = "enter" /\ stack'[3].j = j
    <2>0. "retire" \in FrameOps /\ "maybe" \in FrameOps /\ "enter" \in FrameOps
      BY DEF FrameOps
    <2>1. PICK x \in Frame : x = Call("retire", j) /\ x.op = "retire" /\ x.j = j
      BY <2>0, CallType
    <2>2. PICK y \in Frame : y = Call("maybe", j) /\ y.op = "maybe" /\ y.j = j
      BY <2>0, CallType
    <2>3. PICK z \in Frame : z = Call("enter", j) /\ z.op = "enter" /\ z.j = j
      BY <2>0, CallType
    <2>4. stack' = <<x, y, z>> \o Rest
      BY <2>1, <2>2, <2>3 DEF Settles, AfterFinish
    <2>5. /\ Pushed(<<x, y, z>> \o Rest, stack, 3, 2)
          /\ (<<x, y, z>> \o Rest)[1] = x /\ (<<x, y, z>> \o Rest)[2] = y
          /\ (<<x, y, z>> \o Rest)[3] = z
      BY <1>p, <1>1, PushedThree
    <2> QED BY <2>1, <2>2, <2>3, <2>4, <2>5
  <1>7. /\ \A k \in 1..3 : /\ stack'[k].op \notin Claims /\ stack'[k].j = j
                           /\ stack'[k].op \notin Heads
    <2>1. {"retire", "maybe", "enter"} \cap (Heads \cup Claims) = {}
      BY DEF Heads, Claims
    <2>2. \A k \in 1..3 : k = 1 \/ k = 2 \/ k = 3
      OBVIOUS
    <2> QED BY <1>6, <2>1, <2>2
  <1>8. StackInv' /\ stack' \in Seq(Frame)
    <2>1. 3 \in 0..3 /\ 2 \in Int /\ 3 - 2 \in {0, 1} /\ 3 # 2 /\ 3 # 0
      OBVIOUS
    <2>2. PICK n \in 0..3 : n = 3
      BY <2>1
    <2>3. PICK d \in Int : d = 2
      OBVIOUS
    <2>4. /\ n - d \in {0, 1} /\ n # 0 /\ n # d /\ Pushed(stack', stack, n, d)
          /\ \A k \in 1..n : /\ stack'[k].op \notin Claims /\ stack'[k].j = j
                             /\ stack'[k].op \notin Heads
      BY <1>6, <1>7, <2>1, <2>2, <2>3
    <2>5. sq'[j].fetching = sq[j].fetching /\ \A i \in Jettys : i # j => sq'[i] = sq[i]
      BY <1>5c, <1>5d
    <2> QED BY <2>4, <2>5, PlainStack
  <1>9. Retries' /\ stack'[1].op \notin Heads
    <2>1. Len(stack') = Len(stack) + 2 /\ Len(stack) \in Nat
      BY <1>p, <1>6 DEF Pushed
    <2>2. 2 \in DOMAIN stack'
      BY <1>8, <2>1
    <2> QED BY <1>6, <1>7, <2>2 DEF Retries
  <1>10. StepOf(j)
    BY <1>un, <1>5c, <1>9 DEF StepOf
  <1>11. TypeOK'
    BY <1>un, <1>5c, <1>8, QuietType
  <1>12. LiveOK(j)' /\ BusyOK(j)' /\ TopOK(j)'
    <2>1. TopOK(j)'
      BY <1>9 DEF TopOK, Top, Heads
    <2>2. BusyOK(j)'
      BY <1>un, <1>4, <1>5d DEF BusyOK
    <2>3. LiveOK(j)'
      BY <1>2, <1>5d DEF LiveOK
    <2> QED BY <2>1, <2>2, <2>3
  <1>13. PostedOK(j)'
    BY <1>un, <1>5d, JettyParts DEF PostedOK
  <1>14. ReadOK(j)'
    <2>1. ReadOK(j)
      BY JettyParts
    <2>2. Fits(j, sq[j].cur) => Fits(j, sq[j].cur)'
      BY <1>un, <1>5d DEF Fits
    <2> QED BY <1>un, <1>3, <1>5d, <2>1, <2>2 DEF ReadOK
  <1>15. EntryOK(j)' /\ FenceOK(j)'
    <2>1. EntryOK(j) /\ FenceOK(j)
      BY JettyParts
    <2>2. CASE sq[j].completions = <<>>
      BY <1>un, <1>5d, <2>2 DEF EntryOK, FenceOK
    <2>3. CASE sq[j].completions # <<>>
      <3>1. sq[j].ordered => sq'[j].ordered
        BY <1>3, <1>5d, <2>3
      <3> QED BY <1>un, <1>5d, <2>1, <3>1, EntriesKept
    <2> QED BY <2>2, <2>3
  <1>16. TileOK(j)' /\ NetOK(j)' /\ PreparedOK(j)'
    <2>1. TileOK(j) /\ NetOK(j) /\ PreparedOK(j)
      BY JettyParts
    <2>2. TileOK(j)'
      BY <1>t, <1>5d, <2>1, TileKept
    <2> QED BY <1>un, <1>5d, <2>1, <2>2, FlightKept
  <1>17. DestroyInv'
    BY <1>un, <1>5d, <1>9, <1>10, DestroyStep
  <1> QED BY <1>8, <1>10, <1>11, <1>12, <1>13, <1>14, <1>15, <1>16, <1>17, StepInv

\* The acknowledged prefix retires.
LEMMA PopRetiredStep ==
    ASSUME IInv, NEW j \in Jettys, PopRetired(j)
    PROVE  IInv'
  <1>1. Pops(j) \/ Settles(j)
    BY DEF PopRetired, Pops, Settles
  <1> QED BY <1>1, PopStep, SettleStep

----------------------------------------------------------------------------
(* Prepared WRITEs *)

\* q is p without its first element.
Shorter(p, q, n) ==
    /\ q \in Seq(PreparedWrite) /\ n + 1 = Len(p) /\ Len(q) = n
    /\ \A k \in 1..n : q[k] = p[k + 1]

\* The prepared WRITEs without the first one.
LEMMA RemovedFirst ==
    ASSUME NEW p \in Seq(PreparedWrite), 1 \in DOMAIN p, NEW q, q = RemoveAt(p, 1)
    PROVE  \E n \in Nat : Shorter(p, q, n)
  <1>1. PICK n \in Nat : n + 1 = Len(p)
    <2>1. Len(p) \in Nat /\ Len(p) >= 1
      OBVIOUS
    <2>2. Len(p) - 1 \in Nat /\ (Len(p) - 1) + 1 = Len(p)
      BY <2>1
    <2> QED BY <2>2
  <1>2. PICK a : a = SubSeq(p, 1, 0)
    OBVIOUS
  <1>3. a \in Seq(PreparedWrite) /\ Len(a) = 0
    BY <1>2
  <1>4. PICK b : b = SubSeq(p, 2, n + 1)
    OBVIOUS
  <1>5. b \in Seq(PreparedWrite) /\ Len(b) = n /\ \A k \in 1..n : b[k] = p[k + 1]
    BY <1>1, <1>4
  <1>6. q = a \o b
    BY <1>1, <1>2, <1>4 DEF RemoveAt
  <1>7. /\ q \in Seq(PreparedWrite) /\ Len(q) = Len(a) + Len(b)
        /\ \A k \in 1..Len(b) : q[k + Len(a)] = b[k]
    <2>1. a \in Seq(PreparedWrite) /\ b \in Seq(PreparedWrite)
      BY <1>3, <1>5
    <2>2. /\ a \o b \in Seq(PreparedWrite) /\ Len(a \o b) = Len(a) + Len(b)
          /\ \A k \in 1..Len(b) : (a \o b)[k + Len(a)] = b[k]
      BY <2>1, Joined
    <2> QED BY <1>6, <2>2
  <1>8. Len(q) = n /\ \A k \in 1..n : q[k] = b[k]
    BY <1>3, <1>5, <1>7
  <1> QED BY <1>1, <1>5, <1>7, <1>8 DEF Shorter

\* The first prepared WRITE leaves, possibly for the network.
LEMMA FlightLeft ==
    ASSUME IInv, NEW j \in Jettys, posted' = posted, NEW n \in Nat, NEW x, NEW w,
           Shorter(sq[j].prepared, sq'[j].prepared, n),
           x = sq[j].prepared[1].index, w = sq[j].prepared[1].w,
           \A v, i : Waiting(j, v, i) /\ i # x => Waiting(j, v, i)',
           \/ net' = net
           \/ /\ Waiting(j, w, x)'
              /\ \E r : net' = net \cup {r} /\ r.j = j /\ r.w = w /\ r.index = x
    PROVE  NetOK(j)' /\ PreparedOK(j)'
  <1>1. NetOK(j) /\ PreparedOK(j) /\ sq[j].prepared \in Seq(PreparedWrite)
    BY JettyParts, PipeFields
  <1>2. PICK p \in Seq(PreparedWrite) : p = sq[j].prepared
    BY <1>1
  <1>3. PICK q \in Seq(PreparedWrite) : q = sq'[j].prepared
    BY DEF Shorter
  <1>4. /\ DOMAIN p = 1..(n + 1) /\ DOMAIN q = 1..n /\ 1 \in 1..(n + 1)
        /\ \A k \in 1..n : q[k] = p[k + 1] /\ k + 1 \in 1..(n + 1) /\ k + 1 # 1
    BY <1>2, <1>3 DEF Shorter
  <1>5. \A k \in 1..(n + 1) :
           /\ Waiting(j, p[k].w, p[k].index)
           /\ posted[j][p[k].w].kind.op = "WRITE"
           /\ \A m \in 1..(n + 1) : p[m].index = p[k].index => m = k
           /\ \A r \in net : r.j = j => r.index # p[k].index
    BY <1>1, <1>2, <1>4 DEF PreparedOK
  <1>6. \A r \in net : r.j = j => r.index # x /\ Waiting(j, r.w, r.index)'
    BY <1>1, <1>2, <1>4, <1>5 DEF NetOK
  <1>7. NetOK(j)'
    <2>1. CASE net' = net
      BY <1>1, <1>6, <2>1 DEF NetOK
    <2>2. CASE /\ Waiting(j, w, x)'
               /\ \E r : net' = net \cup {r} /\ r.j = j /\ r.w = w /\ r.index = x
      <3>1. PICK r : net' = net \cup {r} /\ r.j = j /\ r.w = w /\ r.index = x
        BY <2>2
      <3>2. \A u \in net' : u.j = j => Waiting(j, u.w, u.index)'
        <4> SUFFICES ASSUME NEW u \in net', u.j = j PROVE Waiting(j, u.w, u.index)'
          OBVIOUS
        <4>1. CASE u = r
          BY <2>2, <3>1, <4>1
        <4>2. CASE u \in net
          BY <1>6, <4>2
        <4> QED BY <3>1, <4>1, <4>2
      <3>3. \A t, u \in net' : t.j = j /\ u.j = j /\ t.index = u.index => t = u
        BY <1>1, <1>6, <3>1 DEF NetOK
      <3> QED BY <3>2, <3>3 DEF NetOK
    <2> QED BY <2>1, <2>2
  <1>8. \A r \in net' : r.j = j => r \in net \/ r.index = x
    OBVIOUS
  <1>9. ASSUME NEW k \in 1..n
        PROVE  /\ Waiting(j, sq[j].prepared[k].w, sq[j].prepared[k].index)'
               /\ posted[j][q[k].w].kind.op = "WRITE"
               /\ \A m \in 1..n : q[m].index = q[k].index => m = k
               /\ \A r \in net' : r.j = j => r.index # q[k].index
    <2>1. PICK y \in 2..(n + 1) : y = k + 1 /\ q[k] = p[y]
      BY <1>4
    <2>2. p[y].index # x
      BY <1>2, <1>4, <1>5, <2>1
    <2>3. PICK v : v = p[y].w
      OBVIOUS
    <2>4. PICK i : i = p[y].index
      OBVIOUS
    <2>5. Waiting(j, v, i)'
      BY <1>5, <2>1, <2>2, <2>3, <2>4
    <2>6. Waiting(j, sq[j].prepared[k].w, sq[j].prepared[k].index)'
      BY <1>3, <2>1, <2>3, <2>4, <2>5 DEF Waiting
    <2>7. ASSUME NEW m \in 1..n, q[m].index = q[k].index PROVE m = k
      <3>1. p[m + 1].index = p[k + 1].index /\ m + 1 \in 1..(n + 1) /\ k + 1 \in 1..(n + 1)
        BY <1>4, <2>7
      <3>2. m + 1 = k + 1
        BY <1>5, <3>1
      <3> QED BY <3>2
    <2>8. posted[j][q[k].w].kind.op = "WRITE"
      BY <1>4, <1>5
    <2>9. \A r \in net' : r.j = j => r.index # q[k].index
      BY <1>4, <1>5, <1>8, <2>1, <2>2
    <2> QED BY <2>6, <2>7, <2>8, <2>9
  <1>10. PreparedOK(j)'
    BY <1>3, <1>4, <1>9 DEF PreparedOK
  <1> QED BY <1>7, <1>10

\* DrainPreparedWrites takes the first WRITE off, and its entry may be completed.
Drains(j, q, d) ==
    /\ Running("drain", j) /\ 1 \in DOMAIN sq[j].prepared
    /\ q = RemoveAt(sq[j].prepared, 1)
    /\ sq' = [sq EXCEPT ![j] = [sq[j] EXCEPT !.prepared = q, !.completions = d]]
    /\ stack' = stack \/ stack' = <<Call("retire", j)>> \o stack
    /\ UNCHANGED <<posted, fetches, route, draining, faults>>

\* WQE w, with ring index x, is the oldest prepared WRITE.
FirstWrite(j, w, x) == w = sq[j].prepared[1].w /\ x = sq[j].prepared[1].index

\* The frame of WQE w is sent, or its entry is ready.
Sent(j, w, x, d) ==
    \/ UNCHANGED <<net, sent>>
    \/ d = sq[j].completions /\ SendFrame(j, w, x)

\* The oldest prepared WRITE leaves.
LEMMA DrainsStep ==
    ASSUME IInv, NEW j \in Jettys, NEW q, NEW d, Drains(j, q, d),
           NEW x, NEW w, FirstWrite(j, w, x), ReadyAt(sq[j].completions, d, x),
           Sent(j, w, x, d)
    PROVE  IInv'
  <1>p. /\ sq \in [Jettys -> Pipe] /\ sq[j] \in Pipe /\ posted[j] \in Seq(Wqe)
        /\ stack \in Seq(Frame)
    BY JettyParts
  <1>un. UNCHANGED <<posted, fetches, route, draining, faults>>
    BY DEF Drains
  <1>1. stack # <<>> /\ stack[1].op = "drain" /\ stack[1].j = j
    BY RunningCall DEF Drains
  <1>2. PICK p \in Seq(PreparedWrite) : p = sq[j].prepared
    BY <1>p, PipeFields
  <1>3. 1 \in DOMAIN p /\ q = RemoveAt(p, 1)
    BY <1>2 DEF Drains
  <1>4. PICK n \in Nat : Shorter(p, q, n)
    BY <1>3, RemovedFirst
  <1>t. q \in Seq(PreparedWrite) /\ d \in Seq(Entry)
    BY <1>4 DEF Shorter, ReadyAt
  <1>u. sq' = [sq EXCEPT ![j] = [sq[j] EXCEPT !.prepared = q, !.completions = d]]
    BY DEF Drains
  <1>5a. sq' = [sq EXCEPT ![j] = [sq[j] EXCEPT !.prepared = q, !.completions = d]]
    BY <1>u
  <1>5b. [sq[j] EXCEPT !.prepared = q, !.completions = d] \in Pipe
    BY <1>p, <1>t DEF Pipe
  <1>5c. /\ sq' \in [Jettys -> Pipe] /\ sq'[j] \in Pipe
       /\ sq'[j] = [sq[j] EXCEPT !.prepared = q, !.completions = d]
       /\ \A i \in Jettys : i # j => sq'[i] = sq[i]
    BY <1>p, <1>5a, <1>5b, SqUpdated
  <1>5d. /\ sq'[j].live = sq[j].live /\ sq'[j].consumer = sq[j].consumer
       /\ sq'[j].target = sq[j].target /\ sq'[j].direct = sq[j].direct
       /\ sq'[j].busy = sq[j].busy /\ sq'[j].issue = sq[j].issue
       /\ sq'[j].nextFetch = sq[j].nextFetch /\ sq'[j].cache = sq[j].cache
       /\ sq'[j].fetching = sq[j].fetching /\ sq'[j].cur = sq[j].cur
       /\ sq'[j].ordered = sq[j].ordered /\ sq'[j].failed = sq[j].failed
       /\ sq'[j].prepared = q /\ sq'[j].completions = d /\ sq'[j].kick = sq[j].kick
    BY <1>p, <1>5c DEF Pipe
  <1>6. /\ Shaped(sq[j].completions, sq'[j].completions)
        /\ \A v, i : Waiting(j, v, i) /\ i # x => Waiting(j, v, i)'
    <2>1. sq'[j].completions = d
      BY <1>5d
    <2> QED BY <2>1, ReadyFacts
  <1>7. p[1] \in PreparedWrite /\ p # <<>>
    BY <1>3
  <1>8. w \in Numbers /\ x \in 0..(Depth - 1)
    BY <1>2, <1>7 DEF PreparedWrite, FirstWrite
  <1>9. Waiting(j, w, x) /\ KindOf(j, w).op = "WRITE"
    <2>1. PreparedOK(j)
      BY JettyParts
    <2> QED BY <1>2, <1>3, <2>1 DEF PreparedOK, KindOf, FirstWrite
  <1>10. sq[j].completions # <<>>
    BY <1>9 DEF Waiting
  <1>11. /\ net' \subseteq Request /\ sent' \in [Jettys -> Seq(Numbers)]
         /\ \A i \in Jettys : i # j => sent'[i] = sent[i]
         /\ \/ net' = net
            \/ /\ d = sq[j].completions
               /\ \E r : net' = net \cup {r} /\ r.j = j /\ r.w = w /\ r.index = x
    <2>1. CASE UNCHANGED <<net, sent>>
      BY <2>1 DEF IInv, TypeOK
    <2>2. CASE d = sq[j].completions /\ SendFrame(j, w, x)
      BY <1>8, <1>9, <2>2, SendFacts
    <2> QED BY <2>1, <2>2 DEF Sent
  <1>12. d = sq[j].completions => Waiting(j, w, x)'
    BY <1>5d, <1>9 DEF Waiting
  <1>13. NetOK(j)' /\ PreparedOK(j)'
    <2>1. Shorter(sq[j].prepared, sq'[j].prepared, n)
      BY <1>2, <1>4, <1>5d
    <2>2. x = sq[j].prepared[1].index /\ w = sq[j].prepared[1].w
      BY DEF FirstWrite
    <2> QED BY <1>un, <1>6, <1>11, <1>12, <2>1, <2>2, FlightLeft
  <1>14. Kept(j)
    BY <1>un, <1>2, <1>5d, <1>6, <1>7 DEF Kept
  <1>15. "retire" \in FrameOps /\ "retire" \notin Claims /\ "retire" \notin Heads
         /\ "drain" \notin Heads
    BY DEF FrameOps, Claims, Heads
  <1>16. /\ StackInv' /\ stack' \in Seq(Frame) /\ (Retries => Retries')
         /\ stack'[1].j = j /\ stack'[1].op \notin {"fill", "decode", "handle"}
    <2>1. CASE stack' = stack
      BY <1>1, <1>5c, <1>5d, <2>1, SameStack
    <2>2. CASE stack' = <<Call("retire", j)>> \o stack
      <3>1. Pushed(stack', stack, 1, 1) /\ stack'[1].op = "retire" /\ stack'[1].j = j
        BY <1>1, <1>15, <2>2, OneCall
      <3>2. /\ sq'[j].fetching = sq[j].fetching
            /\ \A i \in Jettys : i # j => sq'[i] = sq[i]
        BY <1>5c, <1>5d
      <3> QED BY <1>1, <1>15, <3>1, <3>2, PlainStack
    <2> QED BY <2>1, <2>2 DEF Drains
  <1>17. TypeOK'
    BY <1>un, <1>5c, <1>11, <1>16 DEF IInv, TypeOK
  <1>18. StepOf(j)
    BY <1>un, <1>5c, <1>11, <1>16 DEF StepOf
  <1> QED BY <1>10, <1>13, <1>14, <1>16, <1>17, <1>18, ShapedStep

\* Nothing more can be drained: the queue is served, and destroy is retried.
Resumes(j) ==
    /\ Running("drain", j) /\ stack' = <<Call("enter", j), Call("maybe", j)>> \o Rest
    /\ UNCHANGED <<sq, posted, fetches, net, route, draining, faults, sent>>

\* No prepared WRITE can leave.
LEMMA ResumesStep ==
    ASSUME IInv, NEW j \in Jettys, Resumes(j)
    PROVE  IInv'
  <1>p. /\ sq \in [Jettys -> Pipe] /\ sq[j] \in Pipe /\ posted[j] \in Seq(Wqe)
        /\ stack \in Seq(Frame)
    BY JettyParts
  <1>un. UNCHANGED <<sq, posted, fetches, net, route, draining, faults, sent>>
    BY DEF Resumes
  <1>1. stack # <<>> /\ stack[1].op = "drain" /\ stack[1].j = j
    BY RunningCall DEF Resumes
  <1>2. "enter" \in FrameOps /\ "maybe" \in FrameOps
        /\ "enter" \notin Heads \cup Claims /\ "maybe" \notin Heads \cup Claims
    BY DEF FrameOps, Heads, Claims
  <1>3. /\ Pushed(stack', stack, 2, 1) /\ stack'[1] = Call("enter", j)
        /\ stack'[2] = Call("maybe", j)
        /\ Call("enter", j).op = "enter" /\ Call("enter", j).j = j
        /\ Call("maybe", j).op = "maybe" /\ Call("maybe", j).j = j
    BY <1>1, <1>2, TwoCalls DEF Resumes
  <1>4. \A k \in 1..2 : /\ stack'[k].op \notin Claims /\ stack'[k].j = j
                        /\ stack'[k].op \notin Heads
    BY <1>2, <1>3
  <1>5. StackInv' /\ stack' \in Seq(Frame)
    BY <1>un, <1>1, <1>3, <1>4, PlainStack
  <1>6. Retries' /\ stack'[1].op \notin Heads
    <2>1. Len(stack') = Len(stack) + 1 /\ Len(stack) \in Nat /\ Len(stack) # 0
      BY <1>p, <1>1, <1>3 DEF Pushed
    <2>2. 2 \in DOMAIN stack'
      BY <1>5, <2>1
    <2> QED BY <1>3, <1>4, <2>2 DEF Retries
  <1>7. TopOK(j)'
    BY <1>6 DEF TopOK, Top, Heads
  <1>8. StepOf(j)
    BY <1>un, <1>6 DEF StepOf
  <1>9. TypeOK'
    BY <1>un, <1>p, <1>5, QuietType
  <1>10. Quiet(j) /\ Steady(j)
    BY <1>un, SameQuiet DEF QuietPipe, Quiet, Steady
  <1> QED BY <1>un, <1>5, <1>6, <1>7, <1>8, <1>9, <1>10, QuietStep

\* Entries that stay are entries of which none became ready.
LEMMA SameReady ==
    ASSUME NEW c \in Seq(Entry), NEW x
    PROVE  ReadyAt(c, c, x)
  BY DEF ReadyAt

\* The alternatives of DrainPreparedWrites, with the names of its definitions.
Fails(j, s, x, bb) ==
    /\ sq' = [sq EXCEPT ![j] = CompleteSq(s, x, bb)]
    /\ stack' = RetireCall(j, s, x, bb) \o stack
    /\ UNCHANGED <<net, sent>>

\* The frame of the oldest prepared WRITE leaves, unless the TP is gone.
Sends(j, s, x, w) ==
    /\ sq' = [sq EXCEPT ![j] = s] /\ UNCHANGED stack
    /\ UNCHANGED <<net, sent>> \/ SendFrame(j, w, x)

\* The alternatives of DrainPreparedWrites.
LEMMA DrainForms ==
    ASSUME IInv, NEW j \in Jettys, DrainPreparedWrites(j)
    PROVE  \/ Resumes(j)
           \/ \E q, d, x, w : /\ Drains(j, q, d) /\ FirstWrite(j, w, x)
                              /\ ReadyAt(sq[j].completions, d, x) /\ Sent(j, w, x, d)
  <1>p. /\ sq \in [Jettys -> Pipe] /\ sq[j] \in Pipe /\ posted[j] \in Seq(Wqe)
        /\ stack \in Seq(Frame)
    BY JettyParts
  <1>1. Running("drain", j) /\ UNCHANGED <<posted, fetches, route, draining, faults>>
    BY DEF DrainPreparedWrites
  <1>2. PICK w : w = sq[j].prepared[1].w
    OBVIOUS
  <1>3. PICK x : x = sq[j].prepared[1].index
    OBVIOUS
  <1>4. PICK bb : bb = KindOf(j, w).bb
    OBVIOUS
  <1>5. PICK q : q = RemoveAt(sq[j].prepared, 1)
    OBVIOUS
  <1>6. PICK s : s = [sq[j] EXCEPT !.prepared = q]
    OBVIOUS
  <1>7. \/ 1 \in DOMAIN sq[j].prepared /\ (Fails(j, s, x, bb) \/ Sends(j, s, x, w))
        \/ Resumes(j)
    <2>1. CASE \E k \in Drainable(sq[j]) :
             LET p == sq[j].prepared[k]
                 b2 == KindOf(j, p.w).bb
                 t == [sq[j] EXCEPT !.prepared = RemoveAt(@, k)]
             IN IF p.state = "failed"
                THEN /\ sq' = [sq EXCEPT ![j] = CompleteSq(t, p.index, b2)]
                     /\ stack' = RetireCall(j, t, p.index, b2) \o stack
                     /\ UNCHANGED <<net, sent>>
                ELSE /\ sq' = [sq EXCEPT ![j] = t]
                     /\ UNCHANGED stack
                     /\ IF route = "none" THEN UNCHANGED <<net, sent>>
                        ELSE SendFrame(j, p.w, p.index)
      <3>1. \A k \in Drainable(sq[j]) : k = 1 /\ k \in DOMAIN sq[j].prepared
        BY DEF Drainable
      <3> QED BY <1>2, <1>3, <1>4, <1>5, <1>6, <2>1, <3>1 DEF Fails, Sends
    <2>2. CASE Drainable(sq[j]) = {} /\ UNCHANGED <<sq, net, sent>>
               /\ stack' = <<Call("enter", j), Call("maybe", j)>> \o Rest
      BY <1>1, <2>2 DEF Resumes
    <2> QED BY <2>1, <2>2 DEF DrainPreparedWrites
  <1>8. PICK c \in Seq(Entry) : c = sq[j].completions
    BY <1>p, PipeFields
  <1>9. s.completions = c
    BY <1>p, <1>6, <1>8 DEF Pipe
  <1>10. CASE 1 \in DOMAIN sq[j].prepared /\ Fails(j, s, x, bb)
    <2>1. PICK d : CompletedAs(s, x, bb, d) /\ ReadyAt(c, d, x)
      BY <1>9, CompleteFacts
    <2>2. sq' = [sq EXCEPT ![j] = [sq[j] EXCEPT !.prepared = q, !.completions = d]]
      <3>1. sq' = [sq EXCEPT ![j] = [s EXCEPT !.completions = d]]
        BY <1>10, <2>1 DEF Fails, CompletedAs
      <3> QED BY <1>6, <3>1
    <2>3. stack' = stack \/ stack' = <<Call("retire", j)>> \o stack
      <3>1. \/ RetireCall(j, s, x, bb) = <<>>
            \/ RetireCall(j, s, x, bb) = <<Call("retire", j)>>
        BY DEF RetireCall
      <3>2. stack' = RetireCall(j, s, x, bb) \o stack
        BY <1>10 DEF Fails
      <3>3. <<>> \o stack = stack
        BY <1>p
      <3> QED BY <3>1, <3>2, <3>3
    <2>4. Drains(j, q, d)
      BY <1>1, <1>5, <1>10, <2>2, <2>3 DEF Drains
    <2>5. UNCHANGED <<net, sent>>
      BY <1>10 DEF Fails
    <2>6. ReadyAt(sq[j].completions, d, x)
      BY <1>8, <2>1
    <2>7. FirstWrite(j, w, x) /\ Sent(j, w, x, d)
      BY <1>2, <1>3, <2>5, <2>6 DEF FirstWrite, Sent
    <2> QED BY <2>4, <2>6, <2>7
  <1>11. CASE 1 \in DOMAIN sq[j].prepared /\ Sends(j, s, x, w)
    <2>1. s = [sq[j] EXCEPT !.prepared = q, !.completions = c]
      BY <1>p, <1>6, <1>8 DEF Pipe
    <2>2. Drains(j, q, c)
      BY <1>1, <1>5, <1>11, <2>1 DEF Drains, Sends
    <2>3. ReadyAt(sq[j].completions, c, x) /\ c = sq[j].completions
      BY <1>8, SameReady
    <2>4. UNCHANGED <<net, sent>> \/ SendFrame(j, w, x)
      BY <1>11 DEF Sends
    <2>5. FirstWrite(j, w, x) /\ Sent(j, w, x, c)
      BY <1>2, <1>3, <2>3, <2>4 DEF FirstWrite, Sent
    <2> QED BY <2>2, <2>3, <2>5
  <1> QED BY <1>7, <1>10, <1>11

\* DrainPreparedWrites.
LEMMA DrainStep ==
    ASSUME IInv, NEW j \in Jettys, DrainPreparedWrites(j)
    PROVE  IInv'
  BY DrainForms, DrainsStep, ResumesStep

----------------------------------------------------------------------------
(* Creation and destruction *)

\* The fields of a pipeline just created or erased.
FreshPipe(s) ==
    /\ s.direct = 0 /\ s.cache = {} /\ s.fetching = "no" /\ s.completions = <<>>
    /\ s.prepared = <<>> /\ s.consumer = 0 /\ s.issue = 0 /\ s.target = 0
    /\ s.gen \in 0..MaxGen
    /\ s.live \/ s = NoPipe(s.gen)

\* A pipeline just created or erased is fresh.
LEMMA FreshFields ==
    ASSUME NEW g \in 0..MaxGen
    PROVE  FreshPipe(NewPipe(g)) /\ FreshPipe(NoPipe(g))
  <1>1. /\ NewPipe(g).direct = 0 /\ NewPipe(g).cache = {} /\ NewPipe(g).fetching = "no"
        /\ NewPipe(g).completions = <<>> /\ NewPipe(g).prepared = <<>>
        /\ NewPipe(g).consumer = 0 /\ NewPipe(g).issue = 0 /\ NewPipe(g).target = 0
        /\ NewPipe(g).gen = g /\ NewPipe(g).live
    BY DEF NewPipe
  <1>2. /\ NoPipe(g).direct = 0 /\ NoPipe(g).cache = {} /\ NoPipe(g).fetching = "no"
        /\ NoPipe(g).completions = <<>> /\ NoPipe(g).prepared = <<>>
        /\ NoPipe(g).consumer = 0 /\ NoPipe(g).issue = 0 /\ NoPipe(g).target = 0
        /\ NoPipe(g).gen = g
    BY DEF NewPipe, NoPipe
  <1> QED BY <1>1, <1>2 DEF FreshPipe

\* A fresh pipeline satisfies everything the invariant says of a jetty.
LEMMA FreshParts ==
    ASSUME NEW j \in Jettys, FreshPipe(sq'[j]), posted'[j] = <<>>, sent'[j] = <<>>,
           \A r \in net' : r.j # j, \A f \in fetches' : f.j # j,
           stack' # <<>> => stack'[1].op \notin Heads
    PROVE  /\ LiveOK(j)' /\ BusyOK(j)' /\ PostedOK(j)' /\ ReadOK(j)' /\ TopOK(j)'
           /\ EntryOK(j)' /\ TileOK(j)' /\ NetOK(j)' /\ PreparedOK(j)' /\ FenceOK(j)'
  <1>1. /\ sq'[j].direct = 0 /\ sq'[j].cache = {} /\ sq'[j].fetching = "no"
        /\ sq'[j].completions = <<>> /\ sq'[j].prepared = <<>>
        /\ sq'[j].consumer = 0 /\ sq'[j].issue = 0 /\ sq'[j].target = 0
        /\ sq'[j].live \/ sq'[j] = NoPipe(sq'[j].gen)
    BY DEF FreshPipe
  <1>2. DOMAIN <<>> = {} /\ Len(<<>>) = 0
    OBVIOUS
  <1>3. LiveOK(j)' /\ BusyOK(j)'
    BY <1>1 DEF LiveOK, BusyOK, NoPipe, NewPipe
  <1>4. PostedOK(j)'
    <2>1. IsFiniteSet({})
      BY FS_EmptySet
    <2> QED BY <1>1, <1>2, <2>1, LimitAssumption DEF PostedOK
  <1>5. ReadOK(j)'
    BY <1>1 DEF ReadOK
  <1>6. TopOK(j)'
    BY DEF TopOK, Top, Heads
  <1>7. EntryOK(j)' /\ PreparedOK(j)' /\ FenceOK(j)'
    BY <1>1, <1>2 DEF EntryOK, PreparedOK, FenceOK
  <1>8. NetOK(j)'
    BY DEF NetOK
  <1>9. TileOK(j)'
    <2> DEFINE f == [k \in 1..1 |-> 0]
    <2>1. f \in [1..1 -> Nat] /\ f[1] = 0
      OBVIOUS
    <2> HIDE DEF f
    <2>2. Tiles(<<>>, f, 0, 0)
      BY <1>2, <2>1 DEF Tiles
    <2>3. Tiles(sq[j].completions, f, sq[j].consumer, sq[j].issue)'
      BY <1>1, <2>2 DEF Tiles
    <2>4. 0 <= 0 + Depth /\ 0 <= 0
      BY SizeAssumption
    <2> QED BY <1>1, <2>3, <2>4 DEF TileOK
  <1> QED BY <1>3, <1>4, <1>5, <1>6, <1>7, <1>8, <1>9

\* Erasing a live queue that is not busy.
LEMMA EraseParts ==
    ASSUME IInv, NEW j \in Jettys, sq[j].live, ~ResourceQueueBusy(j), Erase(j),
           fetches' = fetches, net' = net, draining' = {},
           route' = route, faults' = faults,
           stack' \in Seq(Frame), StackInv',
           stack' # <<>> => stack'[1].op \notin Heads
    PROVE  IInv'
  <1>1. /\ sq \in [Jettys -> Pipe] /\ sq[j] \in Pipe /\ posted \in [Jettys -> Seq(Wqe)]
        /\ sent \in [Jettys -> Seq(Numbers)] /\ BusyOK(j) /\ NetOK(j)
    BY JettyParts
  <1>2. sq[j].gen \in 0..MaxGen
    BY <1>1, PipeFields
  <1>3. NoPipe(sq[j].gen) \in Pipe /\ FreshPipe(NoPipe(sq[j].gen))
    BY <1>2, NewPipeType, FreshFields
  <1>4. sq' = [sq EXCEPT ![j] = NoPipe(sq[j].gen)]
    BY DEF Erase
  <1>5. /\ sq' \in [Jettys -> Pipe] /\ sq'[j] = NoPipe(sq[j].gen)
        /\ \A i \in Jettys : i # j => sq'[i] = sq[i]
    BY <1>1, <1>3, <1>4, SqUpdated
  <1>6. /\ posted' \in [Jettys -> Seq(Wqe)] /\ posted'[j] = <<>>
        /\ \A i \in Jettys : i # j => posted'[i] = posted[i]
        /\ sent' \in [Jettys -> Seq(Numbers)] /\ sent'[j] = <<>>
        /\ \A i \in Jettys : i # j => sent'[i] = sent[i]
    BY <1>1 DEF Erase
  <1>7. /\ sq[j].completions = <<>> /\ \A f \in fetches : f.j # j
    BY <1>1 DEF BusyOK, ResourceQueueBusy
  <1>8. \A r \in net : r.j # j
    BY <1>1, <1>7 DEF NetOK, Waiting
  <1>9. StepOf(j)
    BY <1>5, <1>6 DEF StepOf
  <1>10. TypeOK'
    BY <1>5, <1>6 DEF IInv, TypeOK
  <1>11. DestroyInv'
    BY DEF DestroyInv
  <1>12. FreshPipe(sq'[j])
    BY <1>3, <1>5
  <1>13. (\A r \in net' : r.j # j) /\ (\A f \in fetches' : f.j # j)
    BY <1>7, <1>8
  <1>14. /\ LiveOK(j)' /\ BusyOK(j)' /\ PostedOK(j)' /\ ReadOK(j)' /\ TopOK(j)'
         /\ EntryOK(j)' /\ TileOK(j)' /\ NetOK(j)' /\ PreparedOK(j)' /\ FenceOK(j)'
    BY <1>6, <1>12, <1>13, FreshParts
  <1> QED BY <1>9, <1>10, <1>11, <1>14, StepInv

\* MaybeCompleteQueueDestroy.
LEMMA MaybeStep ==
    ASSUME IInv, NEW j \in Jettys, MaybeCompleteQueueDestroy(j)
    PROVE  IInv'
  <1>1. /\ Running("maybe", j) /\ stack' = Rest
        /\ UNCHANGED <<fetches, net, route, faults>>
    BY DEF MaybeCompleteQueueDestroy
  <1>2. Pushed(stack', stack, 0, -1) /\ stack # <<>> /\ stack[1].op = "maybe"
    BY <1>1, RunningCall
  <1>3. draining \subseteq Jettys /\ \A d, e \in draining : d = e
    BY DEF IInv, TypeOK
  <1>4. stack' \in Seq(Frame)
    BY <1>2 DEF Pushed
  <1>5. 0 \in 0..3 /\ -1 \in Int /\ 0 - (-1) = 1
    OBVIOUS
  <1>6. CASE \E d \in draining : ~ResourceQueueBusy(d)
    <2>1. PICK d \in draining : ~ResourceQueueBusy(d)
      BY <1>6
    <2>2. Erase(d) /\ draining' = {}
      BY <1>3, <1>6 DEF MaybeCompleteQueueDestroy
    <2>3. d \in Jettys /\ sq[d].live
      BY <1>3 DEF IInv, DestroyInv
    <2>4. sq[d] \in Pipe /\ sq \in [Jettys -> Pipe] /\ BusyOK(d)
      BY <2>3, JettyParts
    <2>5. \A i \in Jettys : i # d => sq'[i] = sq[i]
      BY <2>2, <2>4 DEF Erase
    <2>6. sq[d].fetching = "no"
      BY <2>1, <2>3, <2>4 DEF BusyOK, ResourceQueueBusy
    <2>7. sq'[d].fetching = "no"
      BY <2>2, <2>3, <2>4 DEF Erase, NoPipe, NewPipe
    <2>8. PICK n \in 0..3, e \in Int : n = 0 /\ e = -1
      BY <1>5
    <2>9. Pushed(stack', stack, n, e) /\ n - e \in {0, 1} /\ (n # 0 \/ e # 0)
          /\ (n = e /\ stack # <<>> => stack[1].op \notin Heads)
          /\ \A k \in 1..n : FALSE
      BY <1>2, <2>8
    <2>10. /\ StackInv'
           /\ stack' # <<>> /\ stack'[1].op \in Heads => n > 0
      BY <2>3, <2>5, <2>6, <2>7, <2>9, PlainStack
    <2> QED BY <1>1, <1>4, <2>1, <2>2, <2>3, <2>8, <2>10, EraseParts
  <1>7. CASE ~\E d \in draining : ~ResourceQueueBusy(d)
    <2>1. UNCHANGED <<sq, posted, sent, draining>>
      BY <1>7 DEF MaybeCompleteQueueDestroy
    <2>2. PICK n \in 0..3, e \in Int : n = 0 /\ e = -1
      BY <1>5
    <2>3. Pushed(stack', stack, n, e) /\ n - e \in {0, 1} /\ (n # 0 \/ e # 0)
          /\ (n = e /\ stack # <<>> => stack[1].op \notin Heads)
          /\ \A k \in 1..n : FALSE
      BY <1>2, <2>2
    <2>4. /\ StackInv'
          /\ stack' # <<>> /\ stack'[1].op \in Heads => n > 0
      BY <2>1, <2>3, PlainStack
    <2>5. stack' # <<>> => stack'[1].op \notin Heads
      BY <2>2, <2>4
    <2>6. StepOf(j) /\ TopOK(j)'
      BY <1>1, <2>1, <2>5 DEF StepOf, TopOK, Top, Heads
    <2>7. TypeOK'
      BY <1>1, <1>4, <2>1 DEF IInv, TypeOK
    <2>8. Quiet(j) /\ Steady(j) /\ sq'[j] \in Pipe
      BY <1>1, <2>1, SameQuiet DEF Quiet, Steady, QuietPipe
    <2>9. LiveOK(j)'
      BY <1>1, <2>1, JettyParts DEF LiveOK
    <2>10. DestroyInv'
      <3> SUFFICES ASSUME NEW i \in draining'
                   PROVE  sq'[i].live /\ ResourceQueueBusy(i)'
        BY DEF DestroyInv
      <3>1. sq[i].live /\ ResourceQueueBusy(i)
        BY <1>7, <2>1 DEF IInv, DestroyInv
      <3> QED BY <1>1, <2>1, <3>1 DEF ResourceQueueBusy, IsRma
    <2> QED BY <2>4, <2>6, <2>7, <2>8, <2>9, <2>10, QuietParts, SteadyParts, StepInv
  <1> QED BY <1>6, <1>7

\* The guest creates a jetty.
LEMMA CreateStep ==
    ASSUME IInv, NEW j \in Jettys, CreateJetty(j)
    PROVE  IInv'
  <1>1. /\ Idle /\ draining = {} /\ ~sq[j].live /\ sq[j].gen < MaxGen
        /\ sq' = [sq EXCEPT ![j] = NewPipe(sq[j].gen + 1)]
        /\ UNCHANGED <<posted, fetches, net, route, draining, stack, faults, sent>>
    BY DEF CreateJetty
  <1>2. sq \in [Jettys -> Pipe] /\ sq[j] \in Pipe /\ LiveOK(j)
    BY JettyParts
  <1>3. sq[j].gen + 1 \in 0..MaxGen
    BY <1>1, <1>2, PipeFields, LimitAssumption
  <1>4. NewPipe(sq[j].gen + 1) \in Pipe /\ FreshPipe(NewPipe(sq[j].gen + 1))
    BY <1>3, NewPipeType, FreshFields
  <1>5. /\ sq' \in [Jettys -> Pipe] /\ sq'[j] = NewPipe(sq[j].gen + 1)
        /\ \A i \in Jettys : i # j => sq'[i] = sq[i]
    BY <1>1, <1>2, <1>4, SqUpdated
  <1>6. stack' = <<>> /\ DOMAIN <<>> = {}
    BY <1>1 DEF Idle
  <1>7. StepOf(j)
    BY <1>1, <1>5, <1>6 DEF StepOf
  <1>8. TypeOK'
    BY <1>1, <1>5 DEF IInv, TypeOK
  <1>9. StackInv' /\ DestroyInv'
    BY <1>1, <1>6 DEF StackInv, DestroyInv
  <1>10. FreshPipe(sq'[j])
    BY <1>4, <1>5
  <1>11. /\ posted'[j] = <<>> /\ sent'[j] = <<>>
         /\ (\A r \in net' : r.j # j) /\ (\A f \in fetches' : f.j # j)
    BY <1>1, <1>2 DEF LiveOK
  <1>12. /\ LiveOK(j)' /\ BusyOK(j)' /\ PostedOK(j)' /\ ReadOK(j)' /\ TopOK(j)'
         /\ EntryOK(j)' /\ TileOK(j)' /\ NetOK(j)' /\ PreparedOK(j)' /\ FenceOK(j)'
    BY <1>6, <1>10, <1>11, FreshParts
  <1> QED BY <1>7, <1>8, <1>9, <1>12, StepInv

\* The guest destroys a jetty, at once or deferred.
LEMMA DestroyJettyStep ==
    ASSUME IInv, NEW j \in Jettys, DestroyJetty(j)
    PROVE  IInv'
  <1>1. /\ Idle /\ draining = {} /\ sq[j].live
        /\ UNCHANGED <<fetches, net, route, stack, faults>>
    BY DEF DestroyJetty
  <1>2. stack' = <<>> /\ DOMAIN <<>> = {} /\ stack = <<>>
    BY <1>1 DEF Idle
  <1>3. StackInv' /\ stack' \in Seq(Frame)
    BY <1>1, <1>2 DEF StackInv, IInv, TypeOK
  <1>4. CASE ResourceQueueBusy(j)
    <2>1. draining' = {j} /\ UNCHANGED <<sq, posted, sent>>
      BY <1>4 DEF DestroyJetty
    <2>2. StepOf(j) /\ TopOK(j)'
      BY <1>1, <1>2, <2>1 DEF StepOf, TopOK, Top
    <2>3. TypeOK'
      BY <1>1, <2>1 DEF IInv, TypeOK
    <2>4. Quiet(j) /\ Steady(j) /\ sq'[j] \in Pipe
      BY <1>1, <2>1, SameQuiet DEF Quiet, Steady, QuietPipe
    <2>5. LiveOK(j)'
      BY <1>1, <2>1, JettyParts DEF LiveOK
    <2>6. ResourceQueueBusy(j)' /\ sq'[j].live
      BY <1>1, <1>4, <2>1 DEF ResourceQueueBusy, IsRma
    <2>7. DestroyInv'
      <3>1. \A i \in draining' : sq'[i].live /\ ResourceQueueBusy(i)'
        BY <2>1, <2>6
      <3> QED BY <3>1 DEF DestroyInv
    <2> QED BY <1>3, <2>2, <2>3, <2>4, <2>5, <2>7, QuietParts, SteadyParts, StepInv
  <1>5. CASE ~ResourceQueueBusy(j)
    <2>1. Erase(j) /\ draining' = {}
      BY <1>1, <1>5 DEF DestroyJetty
    <2> QED BY <1>1, <1>2, <1>3, <1>5, <2>1, EraseParts
  <1> QED BY <1>4, <1>5

----------------------------------------------------------------------------
(* The invariant *)

\* One turn of the dispatch loop.
LEMMA ProcessStep ==
    ASSUME IInv, NEW j \in Jettys, ProcessSqOnce(j)
    PROVE  IInv'
  <1> DEFINE s == [sq[j] EXCEPT !.kick = FALSE]
             quiet == Blocked(s) \/ s.issue = s.target \/ DepthExceeded(s) \/ ~UsesDirect(s)
  <1>1. CASE j \in draining \/ quiet
    BY <1>1, ProcessQuiet
  <1>2. CASE j \notin draining /\ ~quiet
    BY <1>2, ProcessDirect
  <1> QED BY <1>1, <1>2

\* Every initial state satisfies the invariant.
LEMMA InitInv ==
    ASSUME Init PROVE IInv
  <1>1. /\ sq = [j \in Jettys |-> NoPipe(0)] /\ posted = [j \in Jettys |-> <<>>]
        /\ fetches = {} /\ net = {} /\ draining = {} /\ stack = <<>>
        /\ route = "up" /\ faults = 0 /\ sent = [j \in Jettys |-> <<>>]
    BY DEF Init
  <1>2. 0 \in 0..MaxGen /\ DOMAIN <<>> = {} /\ Len(<<>>) = 0 /\ 0 \in 0..MaxFaults
    BY LimitAssumption
  <1>3. NoPipe(0) \in Pipe /\ FreshPipe(NoPipe(0))
    BY <1>2, NewPipeType, FreshFields
  <1>4. TypeOK
    BY <1>1, <1>2, <1>3 DEF TypeOK
  <1>5. StackInv /\ DestroyInv
    BY <1>1, <1>2 DEF StackInv, DestroyInv
  <1>6. ASSUME NEW j \in Jettys
        PROVE  /\ LiveOK(j) /\ BusyOK(j) /\ PostedOK(j) /\ ReadOK(j) /\ TopOK(j)
               /\ EntryOK(j) /\ TileOK(j) /\ NetOK(j) /\ PreparedOK(j) /\ FenceOK(j)
    <2>1. /\ sq[j].direct = 0 /\ sq[j].cache = {} /\ sq[j].fetching = "no"
          /\ sq[j].completions = <<>> /\ sq[j].prepared = <<>>
          /\ sq[j].consumer = 0 /\ sq[j].issue = 0 /\ sq[j].target = 0
          /\ sq[j].live \/ sq[j] = NoPipe(sq[j].gen)
      BY <1>1, <1>3 DEF FreshPipe
    <2>2. posted[j] = <<>> /\ sent[j] = <<>>
      BY <1>1
    <2>3. LiveOK(j) /\ BusyOK(j)
      BY <1>1, <2>1, <2>2 DEF LiveOK, BusyOK
    <2>4. PostedOK(j)
      <3>1. IsFiniteSet({})
        BY FS_EmptySet
      <3> QED BY <1>2, <2>1, <2>2, <3>1, LimitAssumption DEF PostedOK
    <2>5. ReadOK(j) /\ TopOK(j)
      BY <1>1, <2>1 DEF ReadOK, TopOK, Top
    <2>6. EntryOK(j) /\ PreparedOK(j) /\ FenceOK(j) /\ NetOK(j)
      BY <1>1, <1>2, <2>1 DEF EntryOK, PreparedOK, FenceOK, NetOK
    <2>7. TileOK(j)
      <3> DEFINE f == [k \in 1..1 |-> 0]
      <3>1. f \in [1..1 -> Nat] /\ f[1] = 0
        OBVIOUS
      <3> HIDE DEF f
      <3>2. Tiles(<<>>, f, 0, 0)
        BY <1>2, <3>1 DEF Tiles
      <3>3. 0 <= 0 + Depth /\ 0 <= 0
        BY SizeAssumption
      <3> QED BY <2>1, <3>2, <3>3 DEF TileOK
    <2> QED BY <2>3, <2>4, <2>5, <2>6, <2>7
  <1> QED BY <1>4, <1>5, <1>6 DEF IInv, JettyInv

\* A step that changes nothing.
LEMMA StutterInv ==
    ASSUME IInv, UNCHANGED vars PROVE IInv'
  <1>1. UNCHANGED <<sq, posted, fetches, net, route, draining, stack, faults, sent>>
    BY DEF vars
  <1>2. TypeOK'
    BY <1>1 DEF IInv, TypeOK
  <1>3. StackInv' /\ DestroyInv'
    BY <1>1 DEF IInv, StackInv, DestroyInv, ResourceQueueBusy, IsRma
  <1>4. ASSUME NEW j \in Jettys
        PROVE  /\ LiveOK(j)' /\ BusyOK(j)' /\ PostedOK(j)' /\ ReadOK(j)' /\ TopOK(j)'
               /\ EntryOK(j)' /\ TileOK(j)' /\ NetOK(j)' /\ PreparedOK(j)' /\ FenceOK(j)'
    <2>1. Quiet(j) /\ Steady(j) /\ sq'[j] \in Pipe
      BY <1>1, SameQuiet DEF Quiet, Steady, QuietPipe
    <2>2. LiveOK(j)' /\ TopOK(j)'
      BY <1>1, JettyParts DEF LiveOK, TopOK, Top, Fits
    <2> QED BY <2>1, <2>2, QuietParts, SteadyParts
  <1>5. JettyInv'
    BY <1>4 DEF JettyInv
  <1> QED BY <1>2, <1>3, <1>5 DEF IInv

\* A step of the running handler.
LEMMA HandlerInv ==
    ASSUME IInv, HandlerStep PROVE IInv'
  BY MaybeStep, EnterStep, LeaveStep, ProcessStep, FillStep, DecodeStep, HandleFailsStep,
     HandleWaitsStep, HandleIssuesStep, ReleaseStep, DrainStep, RetireStep, PopRetiredStep
     DEF HandlerStep

\* A callback, a reply or a failure.
LEMMA AnswerInv ==
    ASSUME IInv, Answer \/ Failure PROVE IInv'
  <1>1. TRUE \in BOOLEAN /\ FALSE \in BOOLEAN
    OBVIOUS
  <1>2. CASE \E f \in fetches, ok \in BOOLEAN : Fetched(f, ok)
    BY <1>2, FetchedStep
  <1>3. CASE \E j \in Jettys, ok \in BOOLEAN : ContinueSqWqe(j, ok) \/ SendPayloadRead(j, ok)
    BY <1>3, ContinueStep, SendPayloadStep
  <1>4. CASE \E j \in Jettys, k \in Numbers, ok \in BOOLEAN : WritePayloadRead(j, k, ok)
    BY <1>4, PayloadStep
  <1>5. CASE \E j \in Jettys, k \in Numbers :
                CqeLands(j, k) \/ CqeWritten(j, k) \/ CqeFails(j, k)
    BY <1>5, CqeStep
  <1>6. CASE \E r \in net :
                \/ FrameSent(r) \/ FrameRefused(r) \/ ReceiveWriteAck(r)
                \/ ReceiveRmaError(r) \/ ReceiveReadResponse(r) \/ ReadResponseWritten(r)
    BY <1>6, NetworkStep
  <1>7. CASE DeactivateTp \/ RemoveTp
    BY <1>7, TpStep
  <1>8. CASE Answer
    BY <1>1, <1>2, <1>3, <1>4, <1>5, <1>6, <1>8 DEF Answer
  <1>9. CASE Failure
    BY <1>1, <1>2, <1>3, <1>4, <1>5, <1>6, <1>7, <1>9 DEF Failure
  <1> QED BY <1>8, <1>9

\* A step of the guest.
LEMMA GuestInv ==
    ASSUME IInv, GuestStep PROVE IInv'
  BY CreateStep, DestroyJettyStep, DoorbellStep, DirectStep, PostStep DEF GuestStep

\* The invariant holds in every reachable state of the send queue engine.
THEOREM Invariant == Spec => []IInv
  <1>1. Init => IInv
    BY InitInv
  <1>2. IInv /\ [Next]_vars => IInv'
    BY HandlerInv, AnswerInv, GuestInv, StutterInv DEF Next
  <1> QED BY <1>1, <1>2, PTL DEF Spec

\* Type correctness of jetty contexts, pipelines, DMAs in flight and calls.
THEOREM TypeCorrect == Spec => []TypeOK
  <1>1. IInv => TypeOK
    BY DEF IInv
  <1> QED BY <1>1, Invariant, PTL

\* A ring index names one unretired entry, and everything in flight finds its
\* own entry there, waiting (CompleteSq looks entries up by ring index).
THEOREM IndexUnique == Spec => []CompletionIndexUnique
  <1>1. IInv => CompletionIndexUnique
    <2> SUFFICES ASSUME IInv PROVE CompletionIndexUnique
      OBVIOUS
    <2>1. ASSUME NEW j \in Jettys
          PROVE  /\ \A r \in net : r.j = j => Waiting(j, r.w, r.index)
                 /\ \A k \in DOMAIN sq[j].prepared :
                       Waiting(j, sq[j].prepared[k].w, sq[j].prepared[k].index)
      BY JettyParts DEF NetOK, PreparedOK
    <2> QED BY <2>1, TiledIndex DEF CompletionIndexUnique, Waiting
  <1> QED BY <1>1, Invariant, PTL

\* A strongly ordered or fenced WQE is alone between issue and retirement.
THEOREM FencedAlone == Spec => []OrderedAlone
  <1>1. IInv => OrderedAlone
    BY JettyParts DEF OrderedAlone, FenceOK, KindOf
  <1> QED BY <1>1, Invariant, PTL

\* A deferred jetty destroy always has something in flight that will retry it.
THEOREM DestroyNotLost == Spec => []NoLostDestroy
  <1>1. IInv => NoLostDestroy
    BY DEF IInv, DestroyInv, NoLostDestroy, Idle
  <1> QED BY <1>1, Invariant, PTL

----------------------------------------------------------------------------
(* Which WQEs are executed, and in which order.  Here p is what the guest    *)
(* posted to a jetty, s the jetty's pipeline and n its frames.               *)
(*                                                                         *)
(* This part is about guests that ring doorbells and write no direct WQEs: a *)
(* direct WQE kept behind a fenced one is executed a second time.            *)

\* Where WQE w ends.
End(p, w) == p[w].start + p[w].kind.bb

\* Where the last WQE ends.
Written(p) == IF p = <<>> THEN 0 ELSE End(p, Len(p))

\* The WQEs follow each other in the ring.
RingOK(p) ==
    /\ \A w \in DOMAIN p : p[w].start = IF w = 1 THEN 0 ELSE End(p, w - 1)
    /\ \A v, w \in DOMAIN p : v < w => End(p, v) <= p[w].start

\* The doorbell names posted WQEs, and no slot is reused that was not issued.
BellOK(p, s) ==
    s.target <= Written(p) /\ Written(p) <= s.issue + Depth /\ s.direct = 0

\* A descriptor read ahead is the one the guest posted at its position.
AheadOK(p, s) ==
    /\ s.nextFetch <= s.target
    /\ \A c \in s.cache :
          /\ s.issue <= c.at /\ c.at < s.nextFetch
          /\ c.w # 0 => c.w \in DOMAIN p /\ p[c.w].start <= c.at /\ c.at < End(p, c.w)

\* The issue index is at the end of a WQE, and the WQE in work is the next one.
WorkOK(p, s) ==
    /\ s.issue = 0 \/ \E w \in DOMAIN p : s.issue = End(p, w)
    /\ s.fetching \in {"cont", "payload"} => p[s.cur].start = s.issue

\* The unretired entries are successive WQEs, from the consumer to the issue index.
SuccessionOK(p, s) ==
    /\ \A k \in DOMAIN s.completions :
          /\ s.completions[k].w = s.completions[1].w + (k - 1)
          /\ s.completions[k].index = (End(p, s.completions[k].w) - 1) % Depth
    /\ s.completions # <<>> =>
          /\ s.consumer = p[s.completions[1].w].start
          /\ s.issue = End(p, s.completions[Len(s.completions)].w)

\* Frames sent, and frames waiting for their payload, are in SQ order.
FramesOK(p, s, n) ==
    /\ \A a \in DOMAIN n : n[a] \in DOMAIN p /\ End(p, n[a]) <= s.issue
    /\ \A a, b \in DOMAIN n : a < b => n[a] < n[b]
    /\ \A a \in DOMAIN n : \A k \in DOMAIN s.prepared : n[a] < s.prepared[k].w
    /\ \A k, m \in DOMAIN s.prepared : k < m => s.prepared[k].w < s.prepared[m].w

\* What holds of a jetty whose doorbells carry no WQE of their own.
Succeeds(p, s, n) ==
    /\ RingOK(p) /\ BellOK(p, s) /\ AheadOK(p, s) /\ WorkOK(p, s)
    /\ SuccessionOK(p, s) /\ FramesOK(p, s, n)

\* What the running call relies on.
CallOK(j) ==
    /\ Top("fill", j) => sq[j].issue <= sq[j].nextFetch
    /\ Top("handle", j) => posted[j][stack[1].w].start = sq[j].issue

\* The inductive invariant of the order of execution.
OrderInv == \A j \in Jettys : Succeeds(posted[j], sq[j], sent[j]) /\ CallOK(j)

\* A posted WQE.
LEMMA WqeIn ==
    ASSUME NEW p \in Seq(Wqe), NEW w \in DOMAIN p
    PROVE  /\ w \in Nat \ {0} /\ w \in 1..Len(p) /\ Len(p) \in Nat
           /\ p[w].start \in Nat /\ p[w].kind.bb \in Nat \ {0}
           /\ End(p, w) \in Nat /\ End(p, w) = p[w].start + p[w].kind.bb
           /\ p[w].start < End(p, w)
  <1>1. p[w] \in Wqe /\ w \in Nat \ {0} /\ w \in 1..Len(p) /\ Len(p) \in Nat
    OBVIOUS
  <1>2. p[w].kind \in Kinds /\ p[w].start \in Nat
    BY <1>1 DEF Wqe
  <1>3. p[w].kind.bb \in Nat \ {0}
    BY <1>2, KindAssumption DEF Kind
  <1> QED BY <1>1, <1>2, <1>3 DEF End

\* Where the WQEs v and w lie.
LEMMA Places ==
    ASSUME NEW p \in Seq(Wqe), RingOK(p), NEW v \in DOMAIN p, NEW w \in DOMAIN p
    PROVE  /\ v < w => End(p, v) <= p[w].start
           /\ v <= w => End(p, v) <= End(p, w)
           /\ p[v].start < End(p, w) => v <= w
           /\ End(p, v) < End(p, w) => v < w
           /\ End(p, v) <= p[w].start => v < w
           /\ End(p, v) = p[w].start => w = v + 1
  <1>1. /\ v \in Nat \ {0} /\ v \in 1..Len(p) /\ p[v].start \in Nat /\ End(p, v) \in Nat
        /\ p[v].start < End(p, v)
    BY WqeIn
  <1>2. /\ w \in Nat \ {0} /\ w \in 1..Len(p) /\ p[w].start \in Nat /\ End(p, w) \in Nat
        /\ p[w].start < End(p, w)
    BY WqeIn
  <1>4. /\ v < w => End(p, v) <= p[w].start
        /\ w < v => End(p, w) <= p[v].start
    BY DEF RingOK
  <1>5. v = w => End(p, v) = End(p, w)
    OBVIOUS
  <1>6. /\ v <= w => End(p, v) <= End(p, w)
        /\ p[v].start < End(p, w) => v <= w
        /\ End(p, v) < End(p, w) => v < w
        /\ End(p, v) <= p[w].start => v < w
    BY <1>1, <1>2, <1>4, <1>5
  <1>7. ASSUME End(p, v) = p[w].start PROVE w = v + 1
    <2>1. v < w
      BY <1>1, <1>2, <1>6, <1>7
    <2>2. CASE v + 1 < w
      <3>1. v + 1 \in DOMAIN p /\ v + 1 # 1 /\ (v + 1) - 1 = v
        BY <1>1, <1>2, <2>1
      <3>2. p[v + 1].start = End(p, v)
        BY <3>1 DEF RingOK
      <3>3. End(p, v + 1) <= p[w].start
        BY <2>2, <3>1 DEF RingOK
      <3>4. p[v + 1].start < End(p, v + 1) /\ End(p, v + 1) \in Nat
        BY <3>1, WqeIn
      <3> QED BY <1>1, <1>2, <1>7, <3>2, <3>3, <3>4
    <2> QED BY <1>1, <1>2, <2>1, <2>2
  <1> QED BY <1>4, <1>6, <1>7

\* What is written ends with the last WQE.
LEMMA WrittenFacts ==
    ASSUME NEW p \in Seq(Wqe), RingOK(p)
    PROVE  /\ Written(p) \in Nat
           /\ \A w \in DOMAIN p : End(p, w) <= Written(p)
           /\ p # <<>> => Len(p) \in DOMAIN p /\ Written(p) = End(p, Len(p))
  <1>2. CASE p = <<>>
    BY <1>2 DEF Written
  <1>3. CASE p # <<>>
    <2>1. /\ Len(p) \in DOMAIN p /\ Written(p) = End(p, Len(p))
          /\ \A w \in DOMAIN p : w <= Len(p)
      BY <1>3 DEF Written
    <2>2. \A w \in DOMAIN p : End(p, w) <= End(p, Len(p))
      BY <2>1, Places
    <2>3. End(p, Len(p)) \in Nat
      BY <2>1, WqeIn
    <2> QED BY <2>1, <2>2, <2>3
  <1> QED BY <1>2, <1>3

\* Every position written belongs to a WQE.
LEMMA Covered ==
    ASSUME NEW p \in Seq(Wqe), RingOK(p), NEW x \in Nat, x < Written(p)
    PROVE  \E v \in DOMAIN p : p[v].start <= x /\ x < End(p, v)
  <1> DEFINE S == {v \in DOMAIN p : x < End(p, v)}
  <1>1. p # <<>>
    BY DEF Written
  <1>2. Len(p) \in S /\ S \subseteq Nat
    BY <1>1, WrittenFacts
  <1>3. PICK v \in S : \A u \in S : ~(<<u, v>> \in OpToRel(<, Nat))
    BY <1>2, NatLessThanWellFounded, WFMin
  <1>4. \A u \in S : ~(u < v)
    BY <1>2, <1>3 DEF OpToRel
  <1>5. v \in DOMAIN p /\ x < End(p, v) /\ v \in 1..Len(p)
    OBVIOUS
  <1>6. p[v].start <= x
    <2>1. CASE v = 1
      BY <1>5, <2>1 DEF RingOK
    <2>2. CASE v # 1
      <3>1. v - 1 \in DOMAIN p /\ v - 1 < v
        BY <1>5, <2>2
      <3>2. ~(x < End(p, v - 1))
        BY <1>4, <3>1
      <3>3. End(p, v - 1) \in Nat
        BY <3>1, WqeIn
      <3>4. p[v].start = End(p, v - 1)
        BY <1>5, <2>2 DEF RingOK
      <3> QED BY <3>2, <3>3, <3>4
    <2> QED BY <2>1, <2>2
  <1> QED BY <1>5, <1>6

\* What a DMA finds in a ring slot.
LEMMA InRingChosen ==
    ASSUME IInv, NEW j \in Jettys, NEW p, NEW x, x = InRing(j, p)
    PROVE  /\ x \in 0..Len(posted[j])
           /\ \/ /\ x > 0 /\ InSlot(j, x, p)
                 /\ \A u \in (x + 1)..Len(posted[j]) : ~InSlot(j, u, p)
              \/ /\ x = 0 /\ \A u \in 1..Len(posted[j]) : ~InSlot(j, u, p)
  <1> DEFINE S == {w \in 1..Len(posted[j]) : InSlot(j, w, p)}
             P(w) == \/ /\ w > 0
                        /\ InSlot(j, w, p)
                        /\ \A v \in (w + 1)..Len(posted[j]) : ~InSlot(j, v, p)
                     \/ /\ w = 0
                        /\ \A v \in 1..Len(posted[j]) : ~InSlot(j, v, p)
  <1>1. Len(posted[j]) \in Nat
    BY JettyParts
  <1>2. \E w \in 0..Len(posted[j]) : P(w)
    <2>1. CASE S = {}
      BY <1>1, <2>1
    <2>2. CASE S # {}
      <3>1. PICK y \in S : TRUE
        BY <2>2
      <3>2. S \in SUBSET (0..Len(posted[j]))
        BY <1>1
      <3>3. PICK m \in S : \A y1 \in S : y1 <= m
        BY <1>1, <3>1, <3>2, Largest
      <3>4. P(m)
        BY <1>1, <3>3
      <3> QED BY <1>1, <3>3, <3>4
    <2> QED BY <2>1, <2>2
  <1>3. x = CHOOSE w \in 0..Len(posted[j]) : P(w)
    BY DEF InRing, InSlot
  <1> QED BY <1>2, <1>3

\* A DMA that reads a submitted position that is not issued yet finds the WQE
\* posted there: the guest has not overwritten it.
LEMMA InRingExact ==
    ASSUME IInv, NEW j \in Jettys, NEW q \in Seq(Wqe), q = posted[j], RingOK(q),
           BellOK(q, sq[j]), NEW p \in Nat,
           sq[j].issue <= p, p < sq[j].target, NEW x, x = InRing(j, p)
    PROVE  x \in DOMAIN q /\ q[x].start <= p /\ p < End(q, x)
  <1>1. /\ sq[j].target \in Nat /\ sq[j].issue \in Nat
        /\ Written(q) \in Nat /\ Depth \in Nat \ {0}
    BY JettyParts, PipeFields, WrittenFacts, SizeAssumption
  <1>2. p < Written(q) /\ Written(q) <= p + Depth
    BY <1>1 DEF BellOK
  <1>3. PICK v \in DOMAIN q : q[v].start <= p /\ p < End(q, v)
    BY <1>2, Covered
  <1>4. v \in 1..Len(q) /\ Len(q) \in Nat /\ q[v].start \in Nat /\ End(q, v) \in Nat
    BY <1>3, WqeIn
  <1>e. \A u : EndOf(j, u) = End(q, u)
    BY DEF EndOf, End
  <1>5. InSlot(j, v, p)
    <2>1. p \in q[v].start..(End(q, v) - 1)
      BY <1>3, <1>4
    <2> QED BY <1>e, <2>1 DEF InSlot
  <1>6. /\ x \in 0..Len(q)
        /\ \/ /\ x > 0 /\ InSlot(j, x, p)
              /\ \A u \in (x + 1)..Len(q) : ~InSlot(j, u, p)
           \/ /\ x = 0 /\ \A u \in 1..Len(q) : ~InSlot(j, u, p)
    BY InRingChosen
  <1>8. x > 0 /\ InSlot(j, x, p) /\ v <= x
    BY <1>4, <1>5, <1>6
  <1>9. x \in DOMAIN q
    BY <1>6, <1>8
  <1>10. v = x
    <2>1. PICK y \in q[x].start..(End(q, x) - 1) : y % Depth = p % Depth
      BY <1>8, <1>e DEF InSlot
    <2>2. q[x].start \in Nat /\ End(q, x) \in Nat /\ End(q, x) <= Written(q)
      BY <1>9, WqeIn, WrittenFacts
    <2>3. y \in Int /\ q[x].start <= y /\ y < Written(q)
      BY <1>1, <2>1, <2>2
    <2>4. v < x => End(q, v) <= q[x].start
      BY <1>9, Places
    <2>5. v < x => y > p
      BY <1>3, <1>4, <2>2, <2>3, <2>4
    <2>6. CASE v < x
      <3>1. y - p < Depth /\ p - y < Depth /\ y # p
        BY <1>1, <1>2, <2>3, <2>5, <2>6
      <3>2. /\ y \in Int /\ p \in Int /\ Depth \in Nat \ {0} /\ y % Depth = p % Depth
            /\ y - p < Depth /\ p - y < Depth
        BY <1>1, <2>1, <2>3, <3>1
      <3>3. y = p
        BY <3>2, SameSlot
      <3> QED BY <3>1, <3>3
    <2> QED BY <1>4, <1>6, <1>8, <2>6
  <1> QED BY <1>3, <1>9, <1>10

\* Issue index and consumer.
LEMMA WindowFacts ==
    ASSUME IInv, NEW j \in Jettys
    PROVE  /\ sq[j].consumer \in Nat /\ sq[j].issue \in Nat /\ sq[j].target \in Nat
           /\ sq[j].consumer <= sq[j].issue /\ sq[j].issue <= sq[j].target
           /\ sq[j].completions = <<>> => sq[j].consumer = sq[j].issue
  <1>1. /\ sq[j].consumer \in Nat /\ sq[j].issue \in Nat /\ sq[j].target \in Nat /\ TileOK(j)
    BY JettyParts, PipeFields
  <1>2. PICK c \in Seq(Entry) : c = sq[j].completions
    BY JettyParts, PipeFields
  <1>3. PICK f : Tiles(c, f, sq[j].consumer, sq[j].issue)
    BY <1>1, <1>2 DEF TileOK
  <1>4. PICK m \in Nat : m = Len(c)
    OBVIOUS
  <1>5. /\ f[1] = sq[j].consumer /\ f[m + 1] = sq[j].issue
        /\ 1 \in 1..(m + 1) /\ m + 1 \in 1..(m + 1)
        /\ \A k, l \in 1..(m + 1) : k < l => f[k] < f[l]
    BY <1>3, <1>4 DEF Tiles
  <1>6. c = <<>> => m = 0
    BY <1>4
  <1>7. m = 0 => sq[j].consumer = sq[j].issue
    BY <1>5
  <1>8. m # 0 => sq[j].consumer < sq[j].issue
    BY <1>4, <1>5
  <1>9. sq[j].issue <= sq[j].target
    BY <1>1 DEF TileOK
  <1> QED BY <1>1, <1>2, <1>6, <1>7, <1>8, <1>9

----------------------------------------------------------------------------
(* Steps of one pipeline *)

\* The pipelines s and t agree on window, doorbell, entries and frames, and a
\* read of t is one of s.
Alike(s, t) ==
    /\ t.issue = s.issue /\ t.consumer = s.consumer /\ t.target = s.target
    /\ t.direct \in {0, s.direct}
    /\ t.fetching \in {"cont", "payload"} => t.fetching = s.fetching /\ t.cur = s.cur
    /\ Len(t.completions) = Len(s.completions)
    /\ \A k \in 1..Len(s.completions) : /\ t.completions[k].w = s.completions[k].w
                                        /\ t.completions[k].index = s.completions[k].index
    /\ Len(t.prepared) = Len(s.prepared)
    /\ \A k \in 1..Len(s.prepared) : t.prepared[k].w = s.prepared[k].w

\* They also agree on what was read ahead.
Unread(s, t) == t.nextFetch = s.nextFetch /\ t.cache = s.cache

\* Entries in the same places.
LEMMA AlikeEntries ==
    ASSUME NEW p \in Seq(Wqe), NEW s \in Pipe, NEW t \in Pipe, SuccessionOK(p, s),
           Alike(s, t)
    PROVE  SuccessionOK(p, t)
  <1>1. PICK c \in Seq(Entry) : c = s.completions
    BY PipeFields
  <1>2. PICK d \in Seq(Entry) : d = t.completions
    BY PipeFields
  <1>3. PICK m \in Nat : m = Len(c) /\ m = Len(d) /\ DOMAIN c = 1..m /\ DOMAIN d = 1..m
    BY <1>1, <1>2 DEF Alike
  <1>4. \A k \in 1..m : d[k].w = c[k].w /\ d[k].index = c[k].index
    BY <1>1, <1>2, <1>3 DEF Alike
  <1>5. \A k \in 1..m : c[k].w = c[1].w + (k - 1) /\ c[k].index = (End(p, c[k].w) - 1) % Depth
    BY <1>1, <1>3 DEF SuccessionOK
  <1>6. m # 0 => s.consumer = p[c[1].w].start /\ s.issue = End(p, c[m].w)
    BY <1>1, <1>3 DEF SuccessionOK
  <1>7. m # 0 => 1 \in 1..m /\ m \in 1..m
    BY <1>3
  <1>8. \A k \in 1..m : d[k].w = d[1].w + (k - 1) /\ d[k].index = (End(p, d[k].w) - 1) % Depth
    <2> SUFFICES ASSUME NEW k \in 1..m
                 PROVE  d[k].w = d[1].w + (k - 1) /\ d[k].index = (End(p, d[k].w) - 1) % Depth
      OBVIOUS
    <2>1. 1 \in 1..m
      BY <1>3
    <2> QED BY <1>4, <1>5, <2>1
  <1>9. m # 0 => t.consumer = p[d[1].w].start /\ t.issue = End(p, d[m].w)
    BY <1>4, <1>6, <1>7 DEF Alike
  <1>10. d # <<>> => m # 0
    BY <1>3
  <1> QED BY <1>2, <1>3, <1>8, <1>9, <1>10 DEF SuccessionOK

\* Frames in the same order.
LEMMA AlikeFrames ==
    ASSUME NEW p \in Seq(Wqe), NEW s \in Pipe, NEW t \in Pipe, NEW n \in Seq(Numbers),
           FramesOK(p, s, n), Alike(s, t)
    PROVE  FramesOK(p, t, n)
  <1>1. PICK c \in Seq(PreparedWrite) : c = s.prepared
    BY PipeFields
  <1>2. PICK d \in Seq(PreparedWrite) : d = t.prepared
    BY PipeFields
  <1>3. PICK m \in Nat : m = Len(c) /\ m = Len(d) /\ DOMAIN c = 1..m /\ DOMAIN d = 1..m
    BY <1>1, <1>2 DEF Alike
  <1>4. (\A k \in 1..m : d[k].w = c[k].w) /\ t.issue = s.issue
    BY <1>1, <1>2, <1>3 DEF Alike
  <1> QED BY <1>1, <1>2, <1>3, <1>4 DEF FramesOK

\* A step that keeps window, doorbell, entries and frames.
LEMMA AlikeOrder ==
    ASSUME NEW p \in Seq(Wqe), NEW s \in Pipe, NEW t \in Pipe, NEW n \in Seq(Numbers),
           Succeeds(p, s, n), Alike(s, t), AheadOK(p, t)
    PROVE  Succeeds(p, t, n)
  <1>1. /\ RingOK(p) /\ BellOK(p, s) /\ WorkOK(p, s) /\ SuccessionOK(p, s)
        /\ FramesOK(p, s, n)
    BY DEF Succeeds
  <1>2. BellOK(p, t)
    BY <1>1 DEF BellOK, Alike
  <1>3. WorkOK(p, t)
    BY <1>1 DEF WorkOK, Alike
  <1>4. SuccessionOK(p, t) /\ FramesOK(p, t, n)
    BY <1>1, AlikeEntries, AlikeFrames
  <1> QED BY <1>1, <1>2, <1>3, <1>4 DEF Succeeds

\* The same, of a step that reads nothing ahead.
LEMMA UnreadOrder ==
    ASSUME NEW p \in Seq(Wqe), NEW s \in Pipe, NEW t \in Pipe, NEW n \in Seq(Numbers),
           Succeeds(p, s, n), Alike(s, t), Unread(s, t)
    PROVE  Succeeds(p, t, n)
  <1>1. AheadOK(p, s)
    BY DEF Succeeds
  <1>2. AheadOK(p, t)
    BY <1>1 DEF AheadOK, Alike, Unread
  <1> QED BY <1>2, AlikeOrder

\* A WQE is taken: it is in the cache at the issue index.
LEMMA HeadStart ==
    ASSUME NEW p \in Seq(Wqe), NEW s \in Pipe, NEW n, Succeeds(p, s, n),
           NEW c \in s.cache, c.at = s.issue, c.w # 0
    PROVE  c.w \in DOMAIN p /\ p[c.w].start = s.issue
  <1>1. /\ c.w \in DOMAIN p /\ p[c.w].start <= s.issue /\ s.issue < End(p, c.w)
    BY DEF Succeeds, AheadOK
  <1>2. /\ p[c.w].start \in Nat /\ End(p, c.w) \in Nat /\ s.issue \in Nat /\ RingOK(p)
    BY <1>1, WqeIn, PipeFields DEF Succeeds
  <1>3. CASE s.issue = 0
    BY <1>1, <1>2, <1>3
  <1>4. CASE s.issue # 0
    <2>1. PICK v \in DOMAIN p : s.issue = End(p, v)
      BY <1>4 DEF Succeeds, WorkOK
    <2>2. v < c.w
      BY <1>1, <1>2, <2>1, Places
    <2>3. End(p, v) <= p[c.w].start
      BY <1>1, <1>2, <2>2, Places
    <2> QED BY <1>1, <1>2, <2>1, <2>3
  <1> QED BY <1>3, <1>4

\* Window and entries as the pipeline invariant has them.
Tidy(p, s) ==
    /\ \A k \in DOMAIN s.completions : s.completions[k].w \in DOMAIN p
    /\ \A k \in DOMAIN s.prepared : \E m \in DOMAIN s.completions :
          s.completions[m].w = s.prepared[k].w
    /\ s.completions = <<>> => s.consumer = s.issue

\* An entry ends at or before the issue index.
LEMMA EntryBound ==
    ASSUME NEW p \in Seq(Wqe), NEW s \in Pipe, RingOK(p), SuccessionOK(p, s),
           Tidy(p, s), NEW k \in DOMAIN s.completions
    PROVE  /\ s.completions[k].w \in DOMAIN p
           /\ End(p, s.completions[k].w) <= s.issue
  <1>1. PICK c \in Seq(Entry) : c = s.completions
    BY PipeFields
  <1>2. /\ k \in 1..Len(c) /\ Len(c) \in 1..Len(c) /\ c # <<>> /\ 1 \in DOMAIN c
        /\ DOMAIN c = 1..Len(c) /\ Len(c) \in Nat
    BY <1>1
  <1>3. c[k].w \in DOMAIN p /\ c[Len(c)].w \in DOMAIN p
    BY <1>1, <1>2 DEF Tidy
  <1>4. c[k].w = c[1].w + (k - 1) /\ c[Len(c)].w = c[1].w + (Len(c) - 1)
        /\ s.issue = End(p, c[Len(c)].w)
    BY <1>1, <1>2 DEF SuccessionOK
  <1>5. c[1].w \in Nat
    <2>1. c[1] \in Entry
      BY <1>1, <1>2
    <2> QED BY <2>1 DEF Entry, Numbers
  <1>6. c[k].w <= c[Len(c)].w
    BY <1>2, <1>4, <1>5
  <1>7. End(p, c[k].w) <= End(p, c[Len(c)].w)
    BY <1>3, <1>6, Places
  <1> QED BY <1>1, <1>3, <1>4, <1>7

\* So does a WRITE whose payload is being read.
LEMMA PreparedBound ==
    ASSUME NEW p \in Seq(Wqe), NEW s \in Pipe, RingOK(p), SuccessionOK(p, s),
           Tidy(p, s), NEW k \in DOMAIN s.prepared
    PROVE  /\ s.prepared[k].w \in DOMAIN p
           /\ End(p, s.prepared[k].w) <= s.issue
  <1>1. PICK m \in DOMAIN s.completions : s.completions[m].w = s.prepared[k].w
    BY DEF Tidy
  <1>2. s.completions[m].w \in DOMAIN p /\ End(p, s.completions[m].w) <= s.issue
    BY EntryBound
  <1> QED BY <1>1, <1>2

\* The pipelines of the invariant are tidy.
LEMMA TidyPipe ==
    ASSUME IInv, NEW j \in Jettys
    PROVE  Tidy(posted[j], sq[j])
  <1>1. EntryOK(j) /\ PreparedOK(j)
    BY JettyParts
  <1>2. sq[j].completions = <<>> => sq[j].consumer = sq[j].issue
    BY WindowFacts
  <1>3. \A k \in DOMAIN sq[j].completions : sq[j].completions[k].w \in DOMAIN posted[j]
    BY <1>1 DEF EntryOK
  <1>4. \A k \in DOMAIN sq[j].prepared : \E m \in DOMAIN sq[j].completions :
           sq[j].completions[m].w = sq[j].prepared[k].w
    BY <1>1 DEF PreparedOK, Waiting
  <1> QED BY <1>2, <1>3, <1>4 DEF Tidy

\* t is s with one more entry, for WQE w, which starts at the issue index.
Takes(p, s, t, w) ==
    /\ w \in DOMAIN p /\ p[w].start = s.issue
    /\ t.issue = s.issue + p[w].kind.bb
    /\ t.consumer = s.consumer /\ t.target = s.target /\ t.direct = s.direct
    /\ t.nextFetch = s.nextFetch
    /\ \A c \in t.cache : c \in s.cache /\ c.at \notin s.issue..(s.issue + p[w].kind.bb - 1)
    /\ t.fetching \notin {"cont", "payload"}
    /\ Len(t.completions) = Len(s.completions) + 1
    /\ \A k \in 1..Len(s.completions) : /\ t.completions[k].w = s.completions[k].w
                                        /\ t.completions[k].index = s.completions[k].index
    /\ t.completions[Len(s.completions) + 1].w = w
    /\ t.completions[Len(s.completions) + 1].index = (s.issue + p[w].kind.bb - 1) % Depth

\* The WQE taken is the next one.
LEMMA TakenEntries ==
    ASSUME NEW p \in Seq(Wqe), NEW s \in Pipe, NEW t \in Pipe, NEW w, RingOK(p),
           SuccessionOK(p, s), Tidy(p, s), Takes(p, s, t, w)
    PROVE  SuccessionOK(p, t)
  <1>1. PICK c \in Seq(Entry) : c = s.completions
    BY PipeFields
  <1>2. PICK d \in Seq(Entry) : d = t.completions
    BY PipeFields
  <1>3. PICK m \in Nat : m = Len(c) /\ DOMAIN c = 1..m
    BY <1>1
  <1>4. Len(d) = m + 1 /\ DOMAIN d = 1..(m + 1) /\ m + 1 \in 1..(m + 1) /\ d # <<>>
        /\ 1 \in 1..(m + 1)
    BY <1>1, <1>2, <1>3 DEF Takes
  <1>5. /\ \A k \in 1..m : d[k].w = c[k].w /\ d[k].index = c[k].index
        /\ d[m + 1].w = w /\ d[m + 1].index = (s.issue + p[w].kind.bb - 1) % Depth
        /\ t.consumer = s.consumer /\ t.issue = s.issue + p[w].kind.bb
        /\ w \in DOMAIN p /\ p[w].start = s.issue
    BY <1>1, <1>2, <1>3 DEF Takes
  <1>6. /\ End(p, w) = s.issue + p[w].kind.bb /\ w \in Nat
        /\ (End(p, w) - 1) % Depth = (s.issue + p[w].kind.bb - 1) % Depth
    <2>1. /\ End(p, w) = s.issue + p[w].kind.bb /\ w \in Nat
          /\ s.issue \in Nat /\ p[w].kind.bb \in Nat
      BY <1>5, WqeIn
    <2>2. End(p, w) - 1 = s.issue + p[w].kind.bb - 1
      BY <2>1
    <2> QED BY <2>1, <2>2
  <1>6a. d[m + 1].index = (End(p, d[m + 1].w) - 1) % Depth
    BY <1>5, <1>6
  <1>7. CASE m = 0
    <2>0. c = <<>>
      BY <1>3, <1>7
    <2>1. s.consumer = s.issue
      BY <1>1, <2>0 DEF Tidy
    <2>2. \A k \in 1..(m + 1) : k = m + 1 /\ d[k].w = w /\ d[k].w = d[1].w + (k - 1)
      BY <1>5, <1>6, <1>7
    <2>3. \A k \in 1..(m + 1) : d[k].index = (End(p, d[k].w) - 1) % Depth
      BY <1>6a, <2>2
    <2>4. t.consumer = p[d[1].w].start /\ t.issue = End(p, d[Len(d)].w)
      BY <1>4, <1>5, <1>6, <1>7, <2>1
    <2> QED BY <1>2, <1>4, <2>2, <2>3, <2>4 DEF SuccessionOK
  <1>8. CASE m # 0
    <2>1. 1 \in 1..m /\ m \in 1..m /\ c # <<>> /\ m \in DOMAIN s.completions
      BY <1>1, <1>3, <1>8
    <2>2. /\ s.consumer = p[c[1].w].start /\ s.issue = End(p, c[m].w)
          /\ c[m].w = c[1].w + (m - 1)
          /\ \A k \in 1..m : c[k].w = c[1].w + (k - 1)
                             /\ c[k].index = (End(p, c[k].w) - 1) % Depth
      BY <1>1, <1>3, <2>1 DEF SuccessionOK
    <2>3. c[m].w \in DOMAIN p
      BY <1>1, <2>1 DEF Tidy
    <2>4. w = c[m].w + 1
      BY <1>5, <2>2, <2>3, Places
    <2>5. c[1].w \in Nat
      <3>1. c[1] \in Entry
        BY <1>3, <2>1
      <3> QED BY <3>1 DEF Entry, Numbers
    <2>6. w = c[1].w + m /\ d[1].w = c[1].w
      <3>1. d[1].w = c[1].w
        BY <1>5, <2>1
      <3>2. PICK y \in Nat : y = c[1].w
        BY <2>5
      <3>3. w = (y + (m - 1)) + 1
        BY <2>2, <2>4, <3>2
      <3>4. w = y + m
        BY <3>3
      <3> QED BY <3>1, <3>2, <3>4
    <2>7. \A k \in 1..(m + 1) : d[k].w = d[1].w + (k - 1)
                                /\ d[k].index = (End(p, d[k].w) - 1) % Depth
      <3> SUFFICES ASSUME NEW k \in 1..(m + 1)
                   PROVE  d[k].w = d[1].w + (k - 1)
                          /\ d[k].index = (End(p, d[k].w) - 1) % Depth
        OBVIOUS
      <3>1. CASE k \in 1..m
        BY <1>5, <2>2, <2>6, <3>1
      <3>2. CASE k = m + 1
        <4>1. d[k].w = w /\ k - 1 = m
          BY <1>5, <3>2
        <4> QED BY <1>6a, <2>6, <3>2, <4>1
      <3> QED BY <3>1, <3>2
    <2>8. t.consumer = p[d[1].w].start /\ t.issue = End(p, d[Len(d)].w)
      BY <1>4, <1>5, <1>6, <2>2, <2>6
    <2> QED BY <1>2, <1>4, <2>7, <2>8 DEF SuccessionOK
  <1> QED BY <1>7, <1>8

\* A WQE is taken; its frame is dealt with apart.
LEMMA TakesOrder ==
    ASSUME NEW p \in Seq(Wqe), NEW s \in Pipe, NEW t \in Pipe, NEW n, NEW m, NEW w,
           Succeeds(p, s, n), Tidy(p, s), Takes(p, s, t, w), FramesOK(p, t, m)
    PROVE  Succeeds(p, t, m)
  <1>1. /\ RingOK(p) /\ BellOK(p, s) /\ AheadOK(p, s) /\ WorkOK(p, s)
        /\ SuccessionOK(p, s)
    BY DEF Succeeds
  <1>2. /\ w \in DOMAIN p /\ t.issue = End(p, w) /\ p[w].kind.bb \in Nat \ {0}
        /\ t.issue = s.issue + p[w].kind.bb
    <2>1. w \in DOMAIN p /\ p[w].start = s.issue /\ t.issue = s.issue + p[w].kind.bb
      BY DEF Takes
    <2> QED BY <2>1, WqeIn
  <1>3. /\ s.issue \in Nat /\ Written(p) \in Nat /\ Depth \in Nat /\ s.cache \subseteq Cached
    BY <1>1, PipeFields, WrittenFacts, SizeAssumption
  <1>4. BellOK(p, t)
    BY <1>1, <1>2, <1>3 DEF BellOK, Takes
  <1>5. AheadOK(p, t)
    <2>1. t.nextFetch <= t.target
      BY <1>1 DEF AheadOK, Takes
    <2> SUFFICES ASSUME NEW c \in t.cache
                 PROVE  /\ t.issue <= c.at /\ c.at < t.nextFetch
                        /\ c.w # 0 => /\ c.w \in DOMAIN p
                                      /\ p[c.w].start <= c.at /\ c.at < End(p, c.w)
      BY <2>1 DEF AheadOK
    <2>2. /\ c \in s.cache /\ c.at \notin s.issue..(s.issue + p[w].kind.bb - 1)
          /\ t.nextFetch = s.nextFetch
      BY DEF Takes
    <2>3. /\ s.issue <= c.at /\ c.at < s.nextFetch
          /\ c.w # 0 => c.w \in DOMAIN p /\ p[c.w].start <= c.at /\ c.at < End(p, c.w)
      BY <1>1, <2>2 DEF AheadOK
    <2>4. c \in Cached
      BY <1>3, <2>2
    <2>5. c.at \in Nat
      BY <2>4 DEF Cached
    <2>6. s.issue + p[w].kind.bb <= c.at
      BY <1>2, <1>3, <2>2, <2>3, <2>5
    <2> QED BY <1>2, <2>2, <2>3, <2>6
  <1>6. WorkOK(p, t)
    BY <1>2 DEF WorkOK, Takes
  <1>7. SuccessionOK(p, t)
    BY <1>1, TakenEntries
  <1> QED BY <1>1, <1>4, <1>5, <1>6, <1>7 DEF Succeeds

\* The frames of earlier WQEs precede the frame of a WQE that is taken.
LEMMA TakenLast ==
    ASSUME NEW p \in Seq(Wqe), NEW s \in Pipe, NEW t \in Pipe, NEW n \in Seq(Numbers),
           NEW w, Succeeds(p, s, n), Tidy(p, s), Takes(p, s, t, w)
    PROVE  /\ \A a \in DOMAIN n : /\ n[a] \in DOMAIN p /\ End(p, n[a]) <= t.issue
                                  /\ n[a] < w
           /\ \A k \in DOMAIN s.prepared : s.prepared[k].w < w
           /\ w \in DOMAIN p /\ End(p, w) <= t.issue
  <1>1. RingOK(p) /\ SuccessionOK(p, s) /\ FramesOK(p, s, n) /\ s.issue \in Nat
    BY PipeFields DEF Succeeds
  <1>2. /\ w \in DOMAIN p /\ p[w].start = s.issue /\ t.issue = s.issue + p[w].kind.bb
    BY DEF Takes
  <1>3. p[w].kind.bb \in Nat /\ End(p, w) = t.issue
    BY <1>2, WqeIn
  <1>4. ASSUME NEW a \in DOMAIN n
        PROVE  n[a] \in DOMAIN p /\ End(p, n[a]) <= t.issue /\ n[a] < w
    <2>1. n[a] \in DOMAIN p /\ End(p, n[a]) <= s.issue
      BY <1>1 DEF FramesOK
    <2>2. End(p, n[a]) \in Nat
      BY <2>1, WqeIn
    <2>3. n[a] < w
      BY <1>1, <1>2, <2>1, Places
    <2> QED BY <1>1, <1>2, <1>3, <2>1, <2>2, <2>3
  <1>5. ASSUME NEW k \in DOMAIN s.prepared PROVE s.prepared[k].w < w
    <2>1. s.prepared[k].w \in DOMAIN p /\ End(p, s.prepared[k].w) <= s.issue
      BY <1>1, PreparedBound
    <2> QED BY <1>1, <1>2, <2>1, Places
  <1>6. End(p, w) <= t.issue
    BY <1>1, <1>2, <1>3
  <1> QED BY <1>2, <1>4, <1>5, <1>6

\* No frame is sent for the WQE.
LEMMA TakesQuietly ==
    ASSUME NEW p \in Seq(Wqe), NEW s \in Pipe, NEW t \in Pipe, NEW n \in Seq(Numbers),
           NEW w, Succeeds(p, s, n), Tidy(p, s), Takes(p, s, t, w),
           t.prepared = s.prepared
    PROVE  Succeeds(p, t, n)
  <1>1. FramesOK(p, s, n)
    BY DEF Succeeds
  <1>2. \A a \in DOMAIN n : n[a] \in DOMAIN p /\ End(p, n[a]) <= t.issue
    BY TakenLast
  <1>3. FramesOK(p, t, n)
    BY <1>1, <1>2 DEF FramesOK
  <1> QED BY <1>3, TakesOrder

\* Its frame is sent at once.
LEMMA TakesSending ==
    ASSUME NEW p \in Seq(Wqe), NEW s \in Pipe, NEW t \in Pipe, NEW n \in Seq(Numbers),
           NEW w \in Numbers, Succeeds(p, s, n), Tidy(p, s), Takes(p, s, t, w),
           s.prepared = <<>>, t.prepared = <<>>, NEW m, m = Append(n, w)
    PROVE  Succeeds(p, t, m)
  <1>1. FramesOK(p, s, n)
    BY DEF Succeeds
  <1>2. /\ \A a \in DOMAIN n : n[a] \in DOMAIN p /\ End(p, n[a]) <= t.issue /\ n[a] < w
        /\ w \in DOMAIN p /\ End(p, w) <= t.issue
    BY TakenLast
  <1>3. PICK l \in Nat : l = Len(n) /\ DOMAIN n = 1..l
    OBVIOUS
  <1>4. /\ DOMAIN m = 1..(l + 1) /\ m[l + 1] = w /\ \A a \in 1..l : m[a] = n[a]
    BY <1>3
  <1>5. \A a \in 1..(l + 1) : m[a] \in DOMAIN p /\ End(p, m[a]) <= t.issue
    <2> SUFFICES ASSUME NEW a \in 1..(l + 1) PROVE m[a] \in DOMAIN p /\ End(p, m[a]) <= t.issue
      OBVIOUS
    <2>0. a \in 1..l \/ a = l + 1
      OBVIOUS
    <2>1. CASE a \in 1..l
      BY <1>2, <1>3, <1>4, <2>1
    <2>2. CASE a = l + 1
      BY <1>2, <1>4, <2>2
    <2> QED BY <2>0, <2>1, <2>2
  <1>6. \A a, b \in 1..(l + 1) : a < b => m[a] < m[b]
    <2> SUFFICES ASSUME NEW a \in 1..(l + 1), NEW b \in 1..(l + 1), a < b
                 PROVE  m[a] < m[b]
      OBVIOUS
    <2>1. a \in 1..l /\ (b \in 1..l \/ b = l + 1)
      OBVIOUS
    <2>2. CASE b \in 1..l
      BY <1>1, <1>3, <1>4, <2>1, <2>2 DEF FramesOK
    <2>3. CASE b = l + 1
      BY <1>2, <1>3, <1>4, <2>1, <2>3
    <2> QED BY <2>1, <2>2, <2>3
  <1>7. DOMAIN t.prepared = {}
    OBVIOUS
  <1>8. FramesOK(p, t, m)
    BY <1>4, <1>5, <1>6, <1>7 DEF FramesOK
  <1> QED BY <1>8, TakesOrder

\* Its payload is read first.
LEMMA TakesWriting ==
    ASSUME NEW p \in Seq(Wqe), NEW s \in Pipe, NEW t \in Pipe, NEW n \in Seq(Numbers),
           NEW w, Succeeds(p, s, n), Tidy(p, s), Takes(p, s, t, w),
           NEW x \in PreparedWrite, x.w = w, t.prepared = Append(s.prepared, x)
    PROVE  Succeeds(p, t, n)
  <1>1. FramesOK(p, s, n)
    BY DEF Succeeds
  <1>2. /\ \A a \in DOMAIN n : n[a] \in DOMAIN p /\ End(p, n[a]) <= t.issue /\ n[a] < w
        /\ \A k \in DOMAIN s.prepared : s.prepared[k].w < w
    BY TakenLast
  <1>3. PICK c \in Seq(PreparedWrite) : c = s.prepared
    BY PipeFields
  <1>4. PICK d : d = t.prepared
    OBVIOUS
  <1>5. PICK l \in Nat : l = Len(c) /\ DOMAIN c = 1..l
    OBVIOUS
  <1>6. DOMAIN d = 1..(l + 1) /\ d[l + 1] = x /\ \A k \in 1..l : d[k] = c[k]
    BY <1>3, <1>4, <1>5
  <1>7. \A a \in DOMAIN n : \A k \in 1..(l + 1) : n[a] < d[k].w
    <2> SUFFICES ASSUME NEW a \in DOMAIN n, NEW k \in 1..(l + 1) PROVE n[a] < d[k].w
      OBVIOUS
    <2>0. k \in 1..l \/ k = l + 1
      OBVIOUS
    <2>1. CASE k \in 1..l
      BY <1>1, <1>3, <1>5, <1>6, <2>1 DEF FramesOK
    <2>2. CASE k = l + 1
      BY <1>2, <1>6, <2>2
    <2> QED BY <2>0, <2>1, <2>2
  <1>8. \A k, m \in 1..(l + 1) : k < m => d[k].w < d[m].w
    <2> SUFFICES ASSUME NEW k \in 1..(l + 1), NEW m \in 1..(l + 1), k < m
                 PROVE  d[k].w < d[m].w
      OBVIOUS
    <2>1. k \in 1..l /\ (m \in 1..l \/ m = l + 1)
      OBVIOUS
    <2>2. CASE m \in 1..l
      BY <1>1, <1>3, <1>5, <1>6, <2>1, <2>2 DEF FramesOK
    <2>3. CASE m = l + 1
      BY <1>2, <1>3, <1>5, <1>6, <2>1, <2>3
    <2> QED BY <2>1, <2>2, <2>3
  <1>9. FramesOK(p, t, n)
    BY <1>1, <1>2, <1>4, <1>6, <1>7, <1>8 DEF FramesOK
  <1> QED BY <1>9, TakesOrder

\* t is s without its oldest prepared WRITE.
Unprepares(s, t) ==
    /\ 1 \in DOMAIN s.prepared
    /\ \E m \in Nat : Shorter(s.prepared, t.prepared, m)
    /\ t.issue = s.issue /\ t.consumer = s.consumer /\ t.target = s.target
    /\ t.direct = s.direct /\ t.fetching = s.fetching /\ t.cur = s.cur
    /\ Len(t.completions) = Len(s.completions)
    /\ \A k \in 1..Len(s.completions) : /\ t.completions[k].w = s.completions[k].w
                                        /\ t.completions[k].index = s.completions[k].index
    /\ Unread(s, t)

\* The oldest prepared WRITE leaves, with or without its frame.
LEMMA UnpreparesOrder ==
    ASSUME NEW p \in Seq(Wqe), NEW s \in Pipe, NEW t \in Pipe, NEW n \in Seq(Numbers),
           Succeeds(p, s, n), Tidy(p, s), Unprepares(s, t),
           NEW o \in Seq(Numbers), o = n \/ o = Append(n, s.prepared[1].w)
    PROVE  Succeeds(p, t, o)
  <1>1. /\ RingOK(p) /\ BellOK(p, s) /\ AheadOK(p, s) /\ WorkOK(p, s)
        /\ SuccessionOK(p, s) /\ FramesOK(p, s, n)
    BY DEF Succeeds
  <1>2. BellOK(p, t) /\ AheadOK(p, t) /\ WorkOK(p, t)
    BY <1>1 DEF BellOK, AheadOK, WorkOK, Unprepares, Unread
  <1>3. SuccessionOK(p, t)
    <2>1. PICK u : u = [t EXCEPT !.prepared = s.prepared]
      OBVIOUS
    <2>2. /\ u \in Pipe /\ u.issue = t.issue /\ u.consumer = t.consumer
          /\ u.completions = t.completions /\ u.target = t.target /\ u.direct = t.direct
          /\ u.fetching = t.fetching /\ u.cur = t.cur /\ u.prepared = s.prepared
      BY <2>1 DEF Pipe
    <2>3. Alike(s, u)
      BY <2>2 DEF Alike, Unprepares
    <2>4. SuccessionOK(p, u)
      BY <1>1, <2>2, <2>3, AlikeEntries
    <2> QED BY <2>2, <2>4 DEF SuccessionOK
  <1>4. PICK m \in Nat : Shorter(s.prepared, t.prepared, m)
    BY DEF Unprepares
  <1>5. PICK c \in Seq(PreparedWrite) : c = s.prepared
    BY PipeFields
  <1>6. PICK d \in Seq(PreparedWrite) : d = t.prepared
    BY PipeFields
  <1>7. /\ DOMAIN c = 1..(m + 1) /\ DOMAIN d = 1..m /\ 1 \in 1..(m + 1)
        /\ \A k \in 1..m : d[k] = c[k + 1] /\ k + 1 \in 1..(m + 1) /\ 1 < k + 1
    BY <1>4, <1>5, <1>6 DEF Shorter
  <1>8. PICK w : w = c[1].w
    OBVIOUS
  <1>9. /\ \A a \in DOMAIN n : n[a] \in DOMAIN p /\ End(p, n[a]) <= s.issue /\ n[a] < w
        /\ \A a, b \in DOMAIN n : a < b => n[a] < n[b]
        /\ \A a \in DOMAIN n : \A k \in 1..m : n[a] < d[k].w
        /\ \A k \in 1..m : w < d[k].w
        /\ \A k, l \in 1..m : k < l => d[k].w < d[l].w
    <2>1. /\ \A a \in DOMAIN n : n[a] \in DOMAIN p /\ End(p, n[a]) <= s.issue
          /\ \A a, b \in DOMAIN n : a < b => n[a] < n[b]
          /\ \A a \in DOMAIN n : \A k \in 1..(m + 1) : n[a] < c[k].w
          /\ \A k, l \in 1..(m + 1) : k < l => c[k].w < c[l].w
      BY <1>1, <1>5, <1>7 DEF FramesOK
    <2>2. ASSUME NEW k \in 1..m, NEW l \in 1..m, k < l PROVE d[k].w < d[l].w
      <3>1. /\ d[k] = c[k + 1] /\ d[l] = c[l + 1] /\ k + 1 \in 1..(m + 1)
            /\ l + 1 \in 1..(m + 1)
        BY <1>7
      <3>2. k + 1 < l + 1
        BY <2>2
      <3>3. c[k + 1].w < c[l + 1].w
        BY <2>1, <3>1, <3>2
      <3> QED BY <3>1, <3>3
    <2>3. \A k \in 1..m : w < d[k].w
      BY <1>7, <1>8, <2>1
    <2> QED BY <1>7, <1>8, <2>1, <2>2, <2>3
  <1>10. w \in DOMAIN p /\ End(p, w) <= s.issue
    BY <1>1, <1>5, <1>7, <1>8, PreparedBound
  <1>11. t.issue = s.issue
    BY DEF Unprepares
  <1>12. CASE o = n
    <2>1. FramesOK(p, t, o)
      BY <1>6, <1>7, <1>9, <1>11, <1>12 DEF FramesOK
    <2> QED BY <1>1, <1>2, <1>3, <2>1 DEF Succeeds
  <1>13. CASE o = Append(n, w)
    <2>1. PICK l \in Nat : l = Len(n) /\ DOMAIN n = 1..l
      OBVIOUS
    <2>2. DOMAIN o = 1..(l + 1) /\ o[l + 1] = w /\ \A a \in 1..l : o[a] = n[a]
      <3>1. n \in Seq(Nat) /\ w \in Nat
        BY <1>10, LimitAssumption DEF Numbers
      <3> QED BY <1>13, <2>1, <3>1
    <2>3. \A a \in 1..(l + 1) : a \in 1..l \/ a = l + 1
      OBVIOUS
    <2>4. \A a \in 1..(l + 1) : /\ o[a] \in DOMAIN p /\ End(p, o[a]) <= s.issue
                                /\ \A k \in 1..m : o[a] < d[k].w
      BY <1>9, <1>10, <2>1, <2>2, <2>3
    <2>5. \A a, b \in 1..(l + 1) : a < b => o[a] < o[b]
      <3> SUFFICES ASSUME NEW a \in 1..(l + 1), NEW b \in 1..(l + 1), a < b
                   PROVE  o[a] < o[b]
        OBVIOUS
      <3>1. a \in 1..l /\ (b \in 1..l \/ b = l + 1)
        BY <2>3
      <3>2. CASE b \in 1..l
        BY <1>9, <2>1, <2>2, <3>1, <3>2
      <3>3. CASE b = l + 1
        BY <1>9, <2>1, <2>2, <3>1, <3>3
      <3> QED BY <3>1, <3>2, <3>3
    <2>6. FramesOK(p, t, o)
      BY <1>6, <1>7, <1>9, <1>11, <2>2, <2>4, <2>5 DEF FramesOK
    <2> QED BY <1>1, <1>2, <1>3, <2>6 DEF Succeeds
  <1> QED BY <1>5, <1>8, <1>12, <1>13

\* t is s without its first entry.
Retires(s, t) ==
    /\ s.completions # <<>> /\ t.completions = Tail(s.completions)
    /\ t.consumer = s.consumer + s.completions[1].bb
    /\ t.issue = s.issue /\ t.target = s.target /\ t.direct = s.direct
    /\ t.fetching = s.fetching /\ t.cur = s.cur /\ t.prepared = s.prepared
    /\ Unread(s, t)

\* The first entry retires, and the next WQE becomes the first one.
LEMMA RetiresOrder ==
    ASSUME NEW p \in Seq(Wqe), NEW s \in Pipe, NEW t \in Pipe, NEW n,
           Succeeds(p, s, n), Tidy(p, s), Retires(s, t),
           s.completions[1].bb = p[s.completions[1].w].kind.bb
    PROVE  Succeeds(p, t, n)
  <1>1. /\ RingOK(p) /\ BellOK(p, s) /\ AheadOK(p, s) /\ WorkOK(p, s)
        /\ SuccessionOK(p, s) /\ FramesOK(p, s, n)
    BY DEF Succeeds
  <1>2. /\ BellOK(p, t) /\ AheadOK(p, t) /\ WorkOK(p, t)
    BY <1>1 DEF BellOK, AheadOK, WorkOK, Retires, Unread
  <1>3. FramesOK(p, t, n)
    BY <1>1 DEF FramesOK, Retires
  <1>4. PICK c \in Seq(Entry) : c = s.completions
    BY PipeFields
  <1>5. PICK m \in Nat : m + 1 = Len(c)
    <2>1. Len(c) \in Nat /\ Len(c) # 0
      BY <1>4 DEF Retires
    <2>2. Len(c) - 1 \in Nat /\ (Len(c) - 1) + 1 = Len(c)
      BY <2>1
    <2> QED BY <2>2
  <1>6. PICK d : d = Tail(c)
    OBVIOUS
  <1>7. /\ d \in Seq(Entry) /\ Len(d) = m /\ DOMAIN d = 1..m
        /\ \A k \in 1..m : d[k] = c[k + 1] /\ k + 1 \in 1..(m + 1)
        /\ DOMAIN c = 1..(m + 1) /\ 1 \in 1..(m + 1)
    BY <1>5, <1>6, TailFacts
  <1>8. t.completions = d /\ t.issue = s.issue
    BY <1>4, <1>6 DEF Retires
  <1>9. /\ \A k \in 1..(m + 1) : /\ c[k].w = c[1].w + (k - 1)
                                 /\ c[k].index = (End(p, c[k].w) - 1) % Depth
        /\ s.consumer = p[c[1].w].start /\ s.issue = End(p, c[m + 1].w)
    <2>1. s.completions # <<>> /\ Len(s.completions) = m + 1 /\ DOMAIN s.completions = 1..(m + 1)
      BY <1>4, <1>5, <1>7 DEF Retires
    <2> QED BY <1>1, <1>4, <2>1 DEF SuccessionOK
  <1>10. CASE m = 0
    <2>1. d = <<>>
      BY <1>7, <1>10
    <2>2. DOMAIN d = {}
      BY <1>7, <1>10
    <2>3. SuccessionOK(p, t)
      BY <1>8, <2>1, <2>2 DEF SuccessionOK
    <2> QED BY <1>1, <1>2, <1>3, <2>3 DEF Succeeds
  <1>11. CASE m # 0
    <2>1. 1 \in 1..m /\ m \in 1..m /\ 2 \in 1..(m + 1) /\ 1 + 1 = 2
      BY <1>11
    <2>2. PICK y \in Nat : y = c[1].w
      <3>1. c[1] \in Entry
        BY <1>7
      <3> QED BY <3>1 DEF Entry, Numbers
    <2>3. d[1].w = y + 1 /\ d[m].w = c[m + 1].w
      <3>1. d[1] = c[2] /\ d[m] = c[m + 1]
        BY <1>7, <2>1
      <3>2. c[2].w = c[1].w + (2 - 1)
        BY <1>9, <2>1
      <3> QED BY <2>2, <3>1, <3>2
    <2>4. \A k \in 1..m : d[k].w = d[1].w + (k - 1) /\ d[k].index = (End(p, d[k].w) - 1) % Depth
      <3> SUFFICES ASSUME NEW k \in 1..m
                   PROVE  /\ d[k].w = d[1].w + (k - 1)
                          /\ d[k].index = (End(p, d[k].w) - 1) % Depth
        OBVIOUS
      <3>1. d[k] = c[k + 1] /\ k + 1 \in 1..(m + 1)
        BY <1>7
      <3>2. c[k + 1].w = c[1].w + ((k + 1) - 1)
            /\ c[k + 1].index = (End(p, c[k + 1].w) - 1) % Depth
        BY <1>9, <3>1
      <3>3. d[k].w = y + k
        BY <2>2, <3>1, <3>2
      <3> QED BY <2>3, <3>1, <3>2, <3>3
    <2>5. y \in DOMAIN p /\ y + 1 \in DOMAIN p
      <3>1. c[1].w \in DOMAIN p /\ c[2].w \in DOMAIN p
        BY <1>4, <1>7, <2>1 DEF Tidy
      <3>2. c[2].w = y + 1
        BY <1>7, <2>1, <2>3
      <3> QED BY <2>2, <3>1, <3>2
    <2>6. p[y + 1].start = End(p, y)
      <3>1. y + 1 # 1 /\ (y + 1) - 1 = y
        BY <2>2, <2>5
      <3> QED BY <1>1, <2>5, <3>1 DEF RingOK
    <2>7. t.consumer = End(p, y)
      BY <1>4, <1>9, <2>2 DEF End, Retires
    <2>8. t.consumer = p[d[1].w].start /\ t.issue = End(p, d[Len(d)].w)
      BY <1>7, <1>8, <1>9, <2>3, <2>6, <2>7
    <2>9. SuccessionOK(p, t)
      BY <1>7, <1>8, <2>4, <2>8 DEF SuccessionOK
    <2> QED BY <1>1, <1>2, <1>3, <2>9 DEF Succeeds
  <1> QED BY <1>10, <1>11

\* A jetty that is created or erased.
LEMMA FreshOrder ==
    ASSUME NEW s \in Pipe, s.issue = 0, s.consumer = 0, s.target = 0, s.direct = 0,
           s.nextFetch = 0, s.cache = {}, s.fetching = "no", s.completions = <<>>,
           s.prepared = <<>>
    PROVE  Succeeds(<<>>, s, <<>>)
  <1>1. RingOK(<<>>)
    BY DEF RingOK
  <1>2. BellOK(<<>>, s)
    BY SizeAssumption DEF BellOK, Written
  <1>3. AheadOK(<<>>, s) /\ WorkOK(<<>>, s)
    BY DEF AheadOK, WorkOK
  <1>4. SuccessionOK(<<>>, s) /\ FramesOK(<<>>, s, <<>>)
    BY DEF SuccessionOK, FramesOK
  <1> QED BY <1>1, <1>2, <1>3, <1>4 DEF Succeeds

\* The doorbell moves on to what is written.
LEMMA BellOrder ==
    ASSUME NEW p \in Seq(Wqe), NEW s \in Pipe, NEW t \in Pipe, NEW n,
           Succeeds(p, s, n), t = [s EXCEPT !.target = Written(p)]
    PROVE  Succeeds(p, t, n)
  <1>1. /\ RingOK(p) /\ BellOK(p, s) /\ AheadOK(p, s) /\ WorkOK(p, s)
        /\ SuccessionOK(p, s) /\ FramesOK(p, s, n)
    BY DEF Succeeds
  <1>2. /\ t.target = Written(p) /\ t.issue = s.issue /\ t.consumer = s.consumer
        /\ t.direct = s.direct /\ t.nextFetch = s.nextFetch /\ t.cache = s.cache
        /\ t.fetching = s.fetching /\ t.cur = s.cur /\ t.completions = s.completions
        /\ t.prepared = s.prepared
    BY DEF Pipe
  <1>3. Written(p) \in Nat /\ s.target \in Nat /\ s.nextFetch \in Nat
    BY <1>1, WrittenFacts, PipeFields
  <1>4. BellOK(p, t)
    BY <1>1, <1>2, <1>3 DEF BellOK
  <1>5. AheadOK(p, t)
    BY <1>1, <1>2, <1>3 DEF AheadOK, BellOK
  <1>6. WorkOK(p, t) /\ SuccessionOK(p, t) /\ FramesOK(p, t, n)
    BY <1>1, <1>2 DEF WorkOK, SuccessionOK, FramesOK
  <1> QED BY <1>1, <1>4, <1>5, <1>6 DEF Succeeds

\* A WQE is written after the others.
LEMMA PostOrder ==
    ASSUME NEW p \in Seq(Wqe), NEW s \in Pipe, NEW n \in Seq(Numbers), Succeeds(p, s, n),
           Tidy(p, s), s.fetching \in {"cont", "payload"} => s.cur \in DOMAIN p,
           NEW x \in Wqe, x.start = Written(p),
           Written(p) + x.kind.bb <= s.issue + Depth,
           NEW q, q = Append(p, x)
    PROVE  Succeeds(q, s, n)
  <1>1. /\ RingOK(p) /\ BellOK(p, s) /\ AheadOK(p, s) /\ WorkOK(p, s)
        /\ SuccessionOK(p, s) /\ FramesOK(p, s, n)
    BY DEF Succeeds
  <1>2. PICK l \in Nat : l = Len(p) /\ DOMAIN p = 1..l
    OBVIOUS
  <1>3. /\ q \in Seq(Wqe) /\ Len(q) = l + 1 /\ DOMAIN q = 1..(l + 1) /\ q[l + 1] = x
        /\ \A w \in 1..l : q[w] = p[w] /\ w \in 1..(l + 1)
        /\ l + 1 \in 1..(l + 1) /\ q # <<>>
    BY <1>2
  <1>4. \A w \in 1..l : End(q, w) = End(p, w)
    BY <1>3 DEF End
  <1>5. /\ Written(p) \in Nat /\ \A w \in DOMAIN p : End(p, w) <= Written(p)
        /\ p # <<>> => Len(p) \in DOMAIN p /\ Written(p) = End(p, Len(p))
    BY <1>1, WrittenFacts
  <1>5a. p = <<>> => Written(p) = 0
    BY DEF Written
  <1>6. RingOK(q)
    <2>1. ASSUME NEW w \in 1..(l + 1)
          PROVE  q[w].start = IF w = 1 THEN 0 ELSE End(q, w - 1)
      <3>0. w \in 1..l \/ w = l + 1
        BY <1>2
      <3>1. CASE w \in 1..l
        <4>1. q[w].start = p[w].start
          BY <1>3, <3>1
        <4>2. p[w].start = IF w = 1 THEN 0 ELSE End(p, w - 1)
          BY <1>1, <1>2, <3>1 DEF RingOK
        <4>3. w # 1 => w - 1 \in 1..l
          BY <1>2, <3>1
        <4> QED BY <1>4, <4>1, <4>2, <4>3
      <3>2. CASE w = l + 1
        <4>1. CASE l = 0
          <5>1. p = <<>>
            BY <1>2, <4>1
          <5> QED BY <1>3, <1>5a, <3>2, <4>1, <5>1
        <4>2. CASE l # 0
          <5>1. p # <<>> /\ w # 1 /\ w - 1 = l /\ l \in 1..l
            BY <1>2, <3>2, <4>2
          <5>2. End(q, l) = Written(p)
            BY <1>2, <1>4, <1>5, <5>1
          <5> QED BY <1>3, <3>2, <5>1, <5>2
        <4> QED BY <4>1, <4>2
      <3> QED BY <3>0, <3>1, <3>2
    <2>2. ASSUME NEW v \in 1..(l + 1), NEW w \in 1..(l + 1), v < w
          PROVE  End(q, v) <= q[w].start
      <3>0. v \in 1..l /\ (w \in 1..l \/ w = l + 1)
        BY <2>2
      <3>1. CASE w \in 1..l
        <4>1. End(p, v) <= p[w].start
          BY <1>1, <1>2, <2>2, <3>0, <3>1 DEF RingOK
        <4> QED BY <1>3, <1>4, <3>0, <3>1, <4>1
      <3>2. CASE w = l + 1
        BY <1>2, <1>3, <1>4, <1>5, <3>0, <3>2
      <3> QED BY <3>0, <3>1, <3>2
    <2> QED BY <1>3, <2>1, <2>2 DEF RingOK
  <1>7. x.kind.bb \in Nat \ {0}
    <2>1. x.kind \in Kinds
      BY DEF Wqe
    <2> QED BY <2>1, KindAssumption DEF Kind
  <1>8. Written(q) = Written(p) + x.kind.bb
    BY <1>3 DEF Written, End
  <1>9. BellOK(q, s)
    <2>1. s.target \in Nat /\ s.issue \in Nat /\ Depth \in Nat
      BY PipeFields, SizeAssumption
    <2> QED BY <1>1, <1>5, <1>7, <1>8, <2>1 DEF BellOK
  <1>10. AheadOK(q, s)
    BY <1>1, <1>2, <1>3, <1>4 DEF AheadOK
  <1>11. WorkOK(q, s)
    <2>1. s.fetching \in {"cont", "payload"} => q[s.cur].start = s.issue
      BY <1>1, <1>2, <1>3 DEF WorkOK
    <2>2. s.issue = 0 \/ \E w \in DOMAIN q : s.issue = End(q, w)
      BY <1>1, <1>2, <1>3, <1>4 DEF WorkOK
    <2> QED BY <2>1, <2>2 DEF WorkOK
  <1>12. SuccessionOK(q, s)
    <2>1. PICK c \in Seq(Entry) : c = s.completions
      BY PipeFields
    <2>2. \A k \in DOMAIN c : c[k].w \in 1..l
      BY <1>2, <2>1 DEF Tidy
    <2>3. c # <<>> => 1 \in DOMAIN c /\ Len(c) \in DOMAIN c
      BY <2>1
    <2>4. /\ \A k \in DOMAIN c : /\ c[k].w = c[1].w + (k - 1)
                                 /\ c[k].index = (End(q, c[k].w) - 1) % Depth
      BY <1>1, <1>4, <2>1, <2>2 DEF SuccessionOK
    <2>5. c # <<>> => s.consumer = q[c[1].w].start /\ s.issue = End(q, c[Len(c)].w)
      BY <1>1, <1>3, <1>4, <2>1, <2>2, <2>3 DEF SuccessionOK
    <2> QED BY <2>1, <2>4, <2>5 DEF SuccessionOK
  <1>13. FramesOK(q, s, n)
    BY <1>1, <1>2, <1>3, <1>4 DEF FramesOK
  <1> QED BY <1>6, <1>9, <1>10, <1>11, <1>12, <1>13 DEF Succeeds

\* The guest reuses only what the device has issued.
LEMMA GuestCiBound ==
    ASSUME IInv, NEW j \in Jettys, NEW n, Succeeds(posted[j], sq[j], n)
    PROVE  GuestCi(j) \in Nat /\ GuestCi(j) <= sq[j].issue
  <1>0. PICK p \in Seq(Wqe) : p = posted[j]
    BY JettyParts
  <1>1. /\ sq[j].issue \in Nat /\ sq[j].consumer \in Nat /\ sq[j] \in Pipe
        /\ sq[j].consumer <= sq[j].issue
    BY JettyParts, WindowFacts
  <1>2. RingOK(p) /\ SuccessionOK(p, sq[j]) /\ WorkOK(p, sq[j]) /\ Tidy(p, sq[j])
    BY <1>0, TidyPipe DEF Succeeds
  <1>e. \A u : EndOf(j, u) = End(p, u)
    BY <1>0 DEF EndOf, End
  <1>3. ASSUME NEW v \in DOMAIN p, CqeVisible(j, v)
        PROVE  End(p, v) \in Nat /\ End(p, v) <= sq[j].issue
    <2>0. End(p, v) \in Nat /\ p[v].start \in Nat
      BY WqeIn
    <2>1. CASE Retired(j, v)
      <3>1. p[v].start < sq[j].issue
        BY <1>0, <1>1, <2>0, <2>1 DEF Retired
      <3>2. sq[j].issue # 0
        BY <2>0, <3>1
      <3>3. PICK w \in DOMAIN p : sq[j].issue = End(p, w)
        BY <1>2, <3>2 DEF WorkOK
      <3>4. v <= w
        BY <1>2, <3>1, <3>3, Places
      <3>5. End(p, v) <= End(p, w)
        BY <1>2, <3>4, Places
      <3> QED BY <2>0, <3>3, <3>5
    <2>2. CASE \E k \in DOMAIN sq[j].completions : sq[j].completions[k].w = v
      <3>1. PICK k \in DOMAIN sq[j].completions : sq[j].completions[k].w = v
        BY <2>2
      <3>2. End(p, sq[j].completions[k].w) <= sq[j].issue
        BY <1>1, <1>2, EntryBound
      <3> QED BY <2>0, <3>1, <3>2
    <2> QED BY <1>3, <2>1, <2>2 DEF CqeVisible
  <1>4. Reusable(j) \in SUBSET (0..sq[j].issue)
    <2> SUFFICES ASSUME NEW y \in Reusable(j) PROVE y \in 0..sq[j].issue
      OBVIOUS
    <2>1. CASE y = 0
      BY <1>1, <2>1
    <2>2. CASE y # 0
      <3>1. PICK v \in DOMAIN p :
               /\ y = End(p, v) /\ KindOf(j, v).signaled
               /\ \A u \in 1..v : KindOf(j, u).signaled => CqeVisible(j, u)
        BY <1>0, <1>e, <2>2 DEF Reusable
      <3>2. v \in 1..v
        BY WqeIn
      <3>3. CqeVisible(j, v)
        BY <3>1, <3>2
      <3>4. y \in Nat /\ y <= sq[j].issue
        BY <1>3, <3>1, <3>3
      <3> QED BY <1>1, <3>4
    <2> QED BY <2>1, <2>2
  <1>5. 0 \in Reusable(j)
    BY DEF Reusable
  <1>6. \E y \in Reusable(j) : \A z \in Reusable(j) : z <= y
    <2>1. PICK m \in Nat : m = sq[j].issue
      BY <1>1
    <2>2. PICK S : S = Reusable(j)
      OBVIOUS
    <2>3. S \in SUBSET (0..m) /\ 0 \in S
      BY <1>4, <1>5, <2>1, <2>2
    <2>4. \E y \in S : \A z \in S : z <= y
      BY <2>3, Largest
    <2> QED BY <2>2, <2>4
  <1>7. GuestCi(j) \in Reusable(j)
    BY <1>6 DEF GuestCi
  <1> QED BY <1>1, <1>4, <1>7

----------------------------------------------------------------------------
(* Steps of the device *)

\* The call on top of the stack t is neither FillSqCache nor HandleSqWqe.
Plain(t) == t # <<>> => t[1].op \notin {"fill", "handle"}

\* Calls before a stack.
LEMMA PlainJoin ==
    ASSUME NEW a \in Seq(Frame), NEW t \in Seq(Frame), Plain(a), a # <<>> \/ Plain(t)
    PROVE  Plain(a \o t)
  <1>1. CASE a = <<>>
    <2>1. a \o t = t
      BY <1>1
    <2> QED BY <1>1, <2>1
  <1>2. CASE a # <<>>
    <2>1. (a \o t)[1] = a[1]
      BY <1>2
    <2> QED BY <1>2, <2>1 DEF Plain
  <1> QED BY <1>1, <1>2

\* Calls other than FillSqCache and HandleSqWqe.
PlainOps == {"enter", "loop", "decode", "release", "resume", "retire", "pop", "drain",
             "maybe"}

\* Such calls on any stack.
LEMMA PlainCalls ==
    ASSUME NEW j \in Jettys, NEW t \in Seq(Frame), NEW o \in PlainOps,
           NEW o2 \in PlainOps, NEW o3 \in PlainOps
    PROVE  /\ Plain(<<Call(o, j)>> \o t) /\ Plain(<<Call(o, j)>>)
           /\ Plain(<<Call(o, j), Call(o2, j)>> \o t) /\ Plain(<<Call(o, j), Call(o2, j)>>)
           /\ Plain(<<Call(o, j), Call(o2, j), Call(o3, j)>> \o t)
  <1>1. o \in FrameOps /\ o2 \in FrameOps /\ o3 \in FrameOps
    BY DEF PlainOps, FrameOps
  <1>2. /\ Call(o, j) \in Frame /\ Call(o, j).op = o /\ Call(o2, j) \in Frame
        /\ Call(o3, j) \in Frame
    BY <1>1, CallType
  <1>3. PICK a \in Frame : a = Call(o, j)
    BY <1>2
  <1>4. PICK b \in Frame : b = Call(o2, j)
    BY <1>2
  <1>5. PICK c \in Frame : c = Call(o3, j)
    BY <1>2
  <1>6. a.op \notin {"fill", "handle"}
    BY <1>2, <1>3 DEF PlainOps
  <1>7. /\ <<a>> \in Seq(Frame) /\ <<a>> # <<>> /\ <<a>>[1] = a
        /\ <<a, b>> \in Seq(Frame) /\ <<a, b>> # <<>> /\ <<a, b>>[1] = a
        /\ <<a, b, c>> \in Seq(Frame) /\ <<a, b, c>> # <<>> /\ <<a, b, c>>[1] = a
    OBVIOUS
  <1>8. Plain(<<a>>) /\ Plain(<<a, b>>) /\ Plain(<<a, b, c>>)
    BY <1>6, <1>7 DEF Plain
  <1>9. Plain(<<a>> \o t) /\ Plain(<<a, b>> \o t) /\ Plain(<<a, b, c>> \o t)
    BY <1>7, <1>8, PlainJoin
  <1> QED BY <1>3, <1>4, <1>5, <1>8, <1>9

\* What is below the running call, and a stack whose top call is another one.
LEMMA PlainBelow ==
    ASSUME IInv
    PROVE  /\ stack \in Seq(Frame)
           /\ stack # <<>> => Rest \in Seq(Frame) /\ Plain(Rest)
           /\ Idle => Plain(stack)
  <1>1. stack \in Seq(Frame) /\ StackInv
    BY DEF IInv, TypeOK
  <1>2. ASSUME stack # <<>> PROVE Rest \in Seq(Frame) /\ Plain(Rest)
    <2>1. Rest \in Seq(Frame) /\ Len(Rest) = Len(stack) - 1
          /\ \A k \in 1..Len(Rest) : Rest[k] = stack[k + 1]
      BY <1>1, <1>2 DEF Rest
    <2>2. ASSUME Rest # <<>> PROVE Rest[1].op \notin {"fill", "handle"}
      <3>1. Rest[1] = stack[2] /\ 2 \in DOMAIN stack
        BY <1>1, <2>1, <2>2
      <3>2. stack[2].op \notin Heads
        BY <1>1, <3>1 DEF StackInv
      <3> QED BY <3>1, <3>2 DEF Heads
    <2> QED BY <2>1, <2>2 DEF Plain
  <1>3. Idle => Plain(stack)
    BY DEF Idle, Plain
  <1> QED BY <1>1, <1>2, <1>3

\* Only jetty j changes.
Others(j) ==
    \A i \in Jettys : i # j =>
        sq'[i] = sq[i] /\ posted'[i] = posted[i] /\ sent'[i] = sent[i]

\* A step of jetty j.
LEMMA OrderStep ==
    ASSUME OrderInv, NEW j \in Jettys, Others(j),
           Plain(stack') \/ stack'[1].j = j,
           Succeeds(posted'[j], sq'[j], sent'[j]), CallOK(j)'
    PROVE  OrderInv'
  <1> SUFFICES ASSUME NEW i \in Jettys
               PROVE  Succeeds(posted'[i], sq'[i], sent'[i]) /\ CallOK(i)'
    BY DEF OrderInv
  <1>1. CASE i = j
    BY <1>1
  <1>2. CASE i # j
    <2>1. Succeeds(posted[i], sq[i], sent[i])
      BY DEF OrderInv
    <2>2. sq'[i] = sq[i] /\ posted'[i] = posted[i] /\ sent'[i] = sent[i]
      BY <1>2 DEF Others
    <2>3. ~Top("fill", i)' /\ ~Top("handle", i)'
      BY <1>2 DEF Plain, Top
    <2> QED BY <2>1, <2>2, <2>3 DEF CallOK
  <1> QED BY <1>1, <1>2

\* No call of jetty j that relies on anything runs.
LEMMA PlainCallOK ==
    ASSUME NEW j \in Jettys, Plain(stack')
    PROVE  CallOK(j)'
  BY DEF Plain, CallOK, Top

\* A step that changes flags of one pipeline only.
LEMMA AlikeStep ==
    ASSUME IInv, OrderInv, NEW j \in Jettys, NEW t \in Pipe,
           sq' = [sq EXCEPT ![j] = t], Alike(sq[j], t), Unread(sq[j], t),
           posted' = posted, sent' = sent, Plain(stack')
    PROVE  OrderInv'
  <1>1. /\ sq \in [Jettys -> Pipe] /\ sq[j] \in Pipe /\ posted[j] \in Seq(Wqe)
        /\ sent[j] \in Seq(Numbers)
    BY JettyParts
  <1>2. sq'[j] = t /\ Others(j)
    BY <1>1 DEF Others
  <1>3. Succeeds(posted[j], sq[j], sent[j])
    BY DEF OrderInv
  <1>4. Succeeds(posted[j], t, sent[j])
    BY <1>1, <1>3, UnreadOrder
  <1> QED BY <1>2, <1>4, PlainCallOK, OrderStep

\* A step that leaves every pipeline alone.
LEMMA SameOrder ==
    ASSUME OrderInv, UNCHANGED <<sq, posted, sent>>, Plain(stack')
    PROVE  OrderInv'
  BY DEF OrderInv, CallOK, Plain, Top

\* Window, entries, reads ahead and prepared WRITEs of the pipeline stay, and
\* nothing is read for the WQE in work.
Still(s, t) ==
    /\ t.issue = s.issue /\ t.consumer = s.consumer /\ t.target = s.target
    /\ t.direct \in {0, s.direct} /\ t.nextFetch = s.nextFetch /\ t.cache = s.cache
    /\ t.fetching \in {"cont", "payload"} => t.fetching = s.fetching /\ t.cur = s.cur
    /\ t.completions = s.completions /\ t.prepared = s.prepared

\* Flags other than those of the entries.
LEMMA StillStep ==
    ASSUME IInv, OrderInv, NEW j \in Jettys, NEW t \in Pipe,
           sq' = [sq EXCEPT ![j] = t], Still(sq[j], t),
           posted' = posted, sent' = sent, Plain(stack')
    PROVE  OrderInv'
  <1>1. Alike(sq[j], t) /\ Unread(sq[j], t)
    BY DEF Still, Alike, Unread
  <1> QED BY <1>1, AlikeStep

\* One pipeline changes.
LEMMA Changed ==
    ASSUME IInv, TypeOK', NEW j \in Jettys, NEW t, sq' = [sq EXCEPT ![j] = t]
    PROVE  /\ sq'[j] = t /\ t \in Pipe /\ sq[j] \in Pipe
           /\ \A i \in Jettys : i # j => sq'[i] = sq[i]
  <1>1. sq \in [Jettys -> Pipe] /\ sq' \in [Jettys -> Pipe]
    BY DEF IInv, TypeOK
  <1> QED BY <1>1

\* Flags of a pipeline.
LEMMA StillFlags ==
    ASSUME NEW s \in Pipe, NEW a, NEW b, NEW f
    PROVE  /\ Still(s, [s EXCEPT !.kick = a])
           /\ Still(s, [s EXCEPT !.kick = a, !.direct = 0])
           /\ Still(s, [s EXCEPT !.failed = a])
           /\ Still(s, [s EXCEPT !.fetching = "sync", !.busy = a])
           /\ Still(s, [s EXCEPT !.fetching = "no", !.busy = a])
           /\ Still(s, [s EXCEPT !.ordered = a, !.busy = b])
           /\ Still(s, [s EXCEPT !.failed = a, !.fetching = "sync", !.cur = 0])
  BY DEF Still, Pipe

\* A step of the device that changes flags of one pipeline.
LEMMA FlagStep ==
    ASSUME IInv, TypeOK', OrderInv, NEW j \in Jettys, NEW t,
           sq' = [sq EXCEPT ![j] = t], Still(sq[j], t), UNCHANGED <<posted, sent>>,
           Plain(stack')
    PROVE  OrderInv'
  <1>1. t \in Pipe
    BY Changed
  <1> QED BY <1>1, StillStep

\* The running call of a plain kind.
LEMMA PlainTop ==
    ASSUME IInv, NEW j, NEW o \in PlainOps, Running(o, j)
    PROVE  Plain(stack) /\ stack # <<>> /\ Rest \in Seq(Frame) /\ Plain(Rest)
           /\ stack \in Seq(Frame)
  <1>1. stack # <<>> /\ stack[1].op = o
    BY RunningCall
  <1>2. o \notin {"fill", "handle"}
    BY DEF PlainOps
  <1> QED BY <1>1, <1>2, PlainBelow DEF Plain

\* The dispatch loop ends.
LEMMA LeaveOrder ==
    ASSUME IInv, OrderInv, NEW j \in Jettys, LeaveSq(j)
    PROVE  OrderInv'
  <1>1. Running("loop", j) /\ stack' = Rest /\ UNCHANGED <<sq, posted, sent>>
    BY DEF LeaveSq
  <1>2. "loop" \in PlainOps
    BY DEF PlainOps
  <1>3. Plain(stack')
    BY <1>1, <1>2, PlainTop
  <1> QED BY <1>1, <1>3, SameOrder

\* ProcessSq is called.
LEMMA EnterOrder ==
    ASSUME IInv, TypeOK', OrderInv, NEW j \in Jettys, EnterSq(j)
    PROVE  OrderInv'
  <1>1. Running("enter", j) /\ UNCHANGED <<posted, sent>>
    BY DEF EnterSq
  <1>2. "enter" \in PlainOps /\ "loop" \in PlainOps
    BY DEF PlainOps
  <1>3. Plain(Rest) /\ Rest \in Seq(Frame)
    BY <1>1, <1>2, PlainTop
  <1>4. Plain(<<Call("loop", j)>> \o Rest)
    BY <1>2, <1>3, PlainCalls
  <1>5. CASE ~sq[j].live
    <2>1. stack' = Rest /\ sq' = sq
      BY <1>5 DEF EnterSq
    <2> QED BY <1>1, <1>3, <2>1, SameOrder
  <1>6. CASE sq[j].live
    <2>1. /\ sq' = [sq EXCEPT ![j] = [sq[j] EXCEPT !.kick = TRUE]]
          /\ stack' = Rest \/ stack' = <<Call("loop", j)>> \o Rest
      BY <1>6 DEF EnterSq
    <2>2. Plain(stack')
      BY <1>3, <1>4, <2>1
    <2>3. Still(sq[j], [sq[j] EXCEPT !.kick = TRUE])
      BY StillFlags, JettyParts
    <2> QED BY <1>1, <2>1, <2>2, <2>3, FlagStep
  <1> QED BY <1>5, <1>6

\* The WQE is rejected.
LEMMA HandleFailsOrder ==
    ASSUME IInv, TypeOK', OrderInv, NEW j \in Jettys, HandleFails(j)
    PROVE  OrderInv'
  <1>1. /\ Running("handle", j)
        /\ sq' = [sq EXCEPT ![j] = [sq[j] EXCEPT !.failed = TRUE]]
        /\ stack' = <<Call("release", j), Call("maybe", j)>> \o Rest
        /\ UNCHANGED <<posted, sent>>
    BY DEF HandleFails
  <1>2. "release" \in PlainOps /\ "maybe" \in PlainOps
    BY DEF PlainOps
  <1>3. stack # <<>> /\ Rest \in Seq(Frame)
    BY <1>1, RunningCall, PlainBelow
  <1>4. Plain(stack')
    BY <1>1, <1>2, <1>3, PlainCalls
  <1>5. Still(sq[j], [sq[j] EXCEPT !.failed = TRUE])
    BY StillFlags, JettyParts
  <1> QED BY <1>1, <1>4, <1>5, FlagStep

\* The WQE is given back.
LEMMA HandleWaitsOrder ==
    ASSUME IInv, OrderInv, NEW j \in Jettys, HandleWaits(j)
    PROVE  OrderInv'
  <1>1. /\ Running("handle", j) /\ stack' = <<Call("release", j)>> \o Rest
        /\ UNCHANGED <<sq, posted, sent>>
    BY DEF HandleWaits
  <1>2. "release" \in PlainOps
    BY DEF PlainOps
  <1>3. stack # <<>> /\ Rest \in Seq(Frame)
    BY <1>1, RunningCall, PlainBelow
  <1>4. Plain(stack')
    BY <1>1, <1>2, <1>3, PlainCalls
  <1> QED BY <1>1, <1>4, SameOrder

\* The claim on the queue is released.
LEMMA ReleaseOrder ==
    ASSUME IInv, TypeOK', OrderInv, NEW j \in Jettys, ReleaseSqFetch(j)
    PROVE  OrderInv'
  <1> DEFINE b == Fetching(j) \/ sq[j].completions # <<>>
  <1>1. /\ Running("release", j) \/ Running("resume", j)
        /\ sq' = [sq EXCEPT ![j] = [sq[j] EXCEPT !.fetching = "no", !.busy = b]]
        /\ \/ stack' = <<Call("maybe", j), Call("enter", j)>> \o Rest
           \/ stack' = <<Call("maybe", j)>> \o Rest
        /\ UNCHANGED <<posted, sent>>
    BY DEF ReleaseSqFetch
  <1>2. "maybe" \in PlainOps /\ "enter" \in PlainOps
    BY DEF PlainOps
  <1>3. stack # <<>> /\ Rest \in Seq(Frame)
    BY <1>1, RunningCall, PlainBelow
  <1>4. /\ Plain(<<Call("maybe", j), Call("enter", j)>> \o Rest)
        /\ Plain(<<Call("maybe", j)>> \o Rest)
    BY <1>2, <1>3, PlainCalls
  <1>5. Plain(stack')
    BY <1>1, <1>4
  <1>6. Still(sq[j], [sq[j] EXCEPT !.fetching = "no", !.busy = b])
    BY StillFlags, JettyParts
  <1> QED BY <1>1, <1>5, <1>6, FlagStep

\* The continuation read of a large WQE ends.
LEMMA ContinueOrder ==
    ASSUME IInv, TypeOK', OrderInv, NEW j \in Jettys, NEW ok \in BOOLEAN,
           ContinueSqWqe(j, ok)
    PROVE  OrderInv'
  <1> DEFINE b == sq[j].failed \/ ~ok
             t == [sq[j] EXCEPT !.failed = b, !.fetching = "sync", !.cur = 0]
  <1>1. /\ Idle /\ sq[j].fetching = "cont"
        /\ sq' = [sq EXCEPT ![j] = t]
        /\ UNCHANGED <<posted, sent>>
    BY DEF ContinueSqWqe
  <1>2. Still(sq[j], t)
    BY StillFlags, JettyParts
  <1>3. CASE ~ok
    <2>1. stack' = <<Call("release", j), Call("maybe", j)>>
      BY <1>3 DEF ContinueSqWqe
    <2>2. "release" \in PlainOps /\ "maybe" \in PlainOps
      BY DEF PlainOps
    <2>3. stack \in Seq(Frame)
      BY PlainBelow
    <2>4. Plain(stack')
      BY <2>1, <2>2, <2>3, PlainCalls
    <2> QED BY <1>1, <1>2, <2>4, FlagStep
  <1>4. CASE ok
    <2>1. stack' = <<CallWith("handle", j, sq[j].cur)>>
      BY <1>4 DEF ContinueSqWqe
    <2>2. /\ stack'[1].op = "handle" /\ stack'[1].j = j /\ stack'[1].w = sq[j].cur
      BY <2>1 DEF CallWith
    <2>3. /\ sq'[j] = t /\ t \in Pipe /\ sq[j] \in Pipe
          /\ \A i \in Jettys : i # j => sq'[i] = sq[i]
      BY <1>1, Changed
    <2>4. Succeeds(posted[j], sq[j], sent[j])
      BY DEF OrderInv
    <2>5. posted[j][sq[j].cur].start = sq[j].issue
      BY <1>1, <2>4 DEF Succeeds, WorkOK
    <2>6. t.issue = sq[j].issue
      BY <1>2 DEF Still
    <2>7. Succeeds(posted[j], t, sent[j])
      <3>1. Alike(sq[j], t) /\ Unread(sq[j], t)
        BY <1>2 DEF Still, Alike, Unread
      <3>2. posted[j] \in Seq(Wqe) /\ sent[j] \in Seq(Numbers)
        BY JettyParts
      <3> QED BY <2>3, <2>4, <3>1, <3>2, UnreadOrder
    <2>8. CallOK(j)'
      BY <1>1, <2>2, <2>3, <2>5, <2>6 DEF CallOK, Top
    <2>9. Others(j)
      BY <1>1, <2>3 DEF Others
    <2> QED BY <1>1, <2>2, <2>3, <2>7, <2>8, <2>9, OrderStep
  <1> QED BY <1>3, <1>4

\* The TP changes.
LEMMA TpOrder ==
    ASSUME IInv, OrderInv, DeactivateTp \/ RemoveTp
    PROVE  OrderInv'
  <1>1. Idle /\ UNCHANGED <<sq, posted, sent, stack>>
    BY DEF DeactivateTp, RemoveTp
  <1>2. Plain(stack')
    BY <1>1, PlainBelow
  <1> QED BY <1>1, <1>2, SameOrder

\* A step of jetty j that leaves what is posted and sent alone.
LEMMA PipeStep ==
    ASSUME IInv, TypeOK', OrderInv, NEW j \in Jettys, NEW t,
           sq' = [sq EXCEPT ![j] = t], UNCHANGED <<posted, sent>>,
           Succeeds(posted[j], t, sent[j]),
           Plain(stack') \/ stack'[1].j = j, CallOK(j)'
    PROVE  OrderInv'
  <1>1. sq'[j] = t /\ \A i \in Jettys : i # j => sq'[i] = sq[i]
    BY Changed
  <1>2. Others(j)
    BY <1>1 DEF Others
  <1> QED BY <1>1, <1>2, OrderStep

\* More is being read ahead.
LEMMA AheadMore ==
    ASSUME NEW p, NEW s \in Pipe, NEW t \in Pipe, AheadOK(p, s),
           t.issue = s.issue, t.target = s.target, s.nextFetch <= t.nextFetch,
           t.nextFetch <= t.target,
           \A c \in t.cache : \/ c \in s.cache
                              \/ c.w = 0 /\ s.issue <= c.at /\ c.at < t.nextFetch
    PROVE  AheadOK(p, t)
  <1>1. s.nextFetch \in Nat /\ t.nextFetch \in Nat /\ \A c \in s.cache : c.at \in Nat
    BY PipeFields DEF Cached
  <1> QED BY <1>1 DEF AheadOK

\* ProcessSqOnce starts to fill the cache, at the issue index or beyond it.
LEMMA FillStartOrder ==
    ASSUME IInv, TypeOK', OrderInv, NEW j \in Jettys, NEW q \in Nat,
           q = IF sq[j].nextFetch < sq[j].issue THEN sq[j].issue ELSE sq[j].nextFetch,
           sq' = [sq EXCEPT ![j] = [sq[j] EXCEPT !.kick = FALSE, !.nextFetch = q]],
           stack' = <<Call("fill", j)>> \o stack, UNCHANGED <<posted, sent>>
    PROVE  OrderInv'
  <1> DEFINE t == [sq[j] EXCEPT !.kick = FALSE, !.nextFetch = q]
  <1>1. /\ sq'[j] = t /\ t \in Pipe /\ sq[j] \in Pipe
    BY Changed
  <1>2. /\ Alike(sq[j], t) /\ t.issue = sq[j].issue /\ t.target = sq[j].target
        /\ t.nextFetch = q /\ t.cache = sq[j].cache
    BY <1>1 DEF Alike, Pipe
  <1> HIDE DEF t
  <1>3. /\ sq[j].issue \in Nat /\ sq[j].nextFetch \in Nat /\ sq[j].target \in Nat
        /\ sq[j].issue <= sq[j].target
        /\ posted[j] \in Seq(Wqe) /\ sent[j] \in Seq(Numbers) /\ stack \in Seq(Frame)
    BY <1>1, PipeFields, WindowFacts, JettyParts
  <1>4. Succeeds(posted[j], sq[j], sent[j])
    BY DEF OrderInv
  <1>5. AheadOK(posted[j], sq[j]) /\ sq[j].nextFetch <= sq[j].target
    BY <1>4 DEF Succeeds, AheadOK
  <1>6. sq[j].nextFetch <= q /\ sq[j].issue <= q /\ q <= sq[j].target
    BY <1>3, <1>5
  <1>7. AheadOK(posted[j], t)
    BY <1>1, <1>2, <1>5, <1>6, AheadMore
  <1>8. Succeeds(posted[j], t, sent[j])
    BY <1>1, <1>2, <1>3, <1>4, <1>7, AlikeOrder
  <1>9. stack' # <<>> /\ stack'[1].op = "fill" /\ stack'[1].j = j
    <2>1. "fill" \in FrameOps
      BY DEF FrameOps
    <2>2. Call("fill", j) \in Frame /\ Call("fill", j).op = "fill" /\ Call("fill", j).j = j
      BY <2>1, CallType
    <2>3. PICK a \in Frame : a = Call("fill", j)
      BY <2>2
    <2>4. stack' = <<a>> \o stack
      BY <2>3
    <2>5. stack' # <<>> /\ stack'[1] = a
      BY <1>3, <2>4
    <2> QED BY <2>2, <2>3, <2>5
  <1>10. CallOK(j)'
    BY <1>1, <1>2, <1>6, <1>9 DEF CallOK, Top
  <1>11. sq' = [sq EXCEPT ![j] = t]
    BY DEF t
  <1> QED BY <1>8, <1>9, <1>10, <1>11, PipeStep

\* ProcessSqOnce.
LEMMA ProcessOrder ==
    ASSUME IInv, TypeOK', OrderInv, NEW j \in Jettys, ProcessSqOnce(j)
    PROVE  OrderInv'
  <1> DEFINE s == [sq[j] EXCEPT !.kick = FALSE]
  <1>1. /\ Running("loop", j) /\ UNCHANGED <<posted, sent>>
    BY DEF ProcessSqOnce
  <1>2. "loop" \in PlainOps /\ "maybe" \in PlainOps
    BY DEF PlainOps
  <1>3. sq[j] \in Pipe /\ sq \in [Jettys -> Pipe] /\ stack \in Seq(Frame) /\ Plain(stack)
    BY <1>1, <1>2, PlainTop, JettyParts
  <1>4. CASE j \in draining
    <2>1. sq' = [sq EXCEPT ![j] = s] /\ stack' = <<Call("maybe", j)>> \o stack
      BY <1>4 DEF ProcessSqOnce
    <2>2. Plain(stack')
      BY <1>2, <1>3, <2>1, PlainCalls
    <2>3. Still(sq[j], s)
      BY <1>3, StillFlags
    <2> QED BY <1>1, <2>1, <2>2, <2>3, FlagStep
  <1>5. CASE j \notin draining /\ (Blocked(s) \/ s.issue = s.target \/ DepthExceeded(s))
    <2>1. [s EXCEPT !.direct = 0] = [sq[j] EXCEPT !.kick = FALSE, !.direct = 0]
      OBVIOUS
    <2>2. /\ \/ sq' = [sq EXCEPT ![j] = s]
             \/ sq' = [sq EXCEPT ![j] = [sq[j] EXCEPT !.kick = FALSE, !.direct = 0]]
          /\ stack' = stack
      BY <1>5, <2>1 DEF ProcessSqOnce
    <2>3. Still(sq[j], s) /\ Still(sq[j], [sq[j] EXCEPT !.kick = FALSE, !.direct = 0])
      BY <1>3, StillFlags
    <2> QED BY <1>1, <1>3, <2>2, <2>3, FlagStep
  <1>6. CASE /\ j \notin draining /\ ~Blocked(s) /\ s.issue # s.target
             /\ ~DepthExceeded(s)
    <2>1. sq[j].direct = 0
      BY DEF OrderInv, Succeeds, BellOK
    <2>2. /\ s.issue = sq[j].issue /\ s.nextFetch = sq[j].nextFetch /\ ~UsesDirect(s)
      BY <1>3, <2>1 DEF Pipe, UsesDirect
    <2>3. /\ sq' = [sq EXCEPT ![j] =
                     [s EXCEPT !.nextFetch = IF @ < s.issue THEN s.issue ELSE @]]
          /\ stack' = <<Call("fill", j)>> \o stack
      BY <1>6, <2>2 DEF ProcessSqOnce
    <2>4. sq[j].nextFetch \in Nat /\ sq[j].issue \in Nat
      BY <1>3, PipeFields
    <2>5. PICK q \in Nat : q = IF sq[j].nextFetch < sq[j].issue THEN sq[j].issue
                               ELSE sq[j].nextFetch
      BY <2>4
    <2>6. sq' = [sq EXCEPT ![j] = [s EXCEPT !.nextFetch = q]]
      BY <2>2, <2>3, <2>5
    <2>7. sq' = [sq EXCEPT ![j] = [sq[j] EXCEPT !.kick = FALSE, !.nextFetch = q]]
      BY <2>6
    <2> QED BY <1>1, <2>3, <2>5, <2>7, FillStartOrder
  <1> QED BY <1>4, <1>5, <1>6 DEF ProcessSqOnce

\* FillSqCache.
LEMMA FillOrder ==
    ASSUME IInv, TypeOK', OrderInv, NEW j \in Jettys, FillSqCache(j)
    PROVE  OrderInv'
  <1>1. Running("fill", j) /\ UNCHANGED <<posted, sent>>
    BY DEF FillSqCache
  <1>2. /\ stack # <<>> /\ stack[1].op = "fill" /\ stack[1].j = j /\ Top("fill", j)
        /\ Rest \in Seq(Frame)
    BY <1>1, RunningCall, PlainBelow
  <1>3. CASE ~CanFetch(j)
    <2>1. stack' = <<Call("decode", j)>> \o Rest /\ sq' = sq
      BY <1>3 DEF FillSqCache
    <2>2. "decode" \in PlainOps
      BY DEF PlainOps
    <2>3. Plain(stack')
      BY <1>2, <2>1, <2>2, PlainCalls
    <2> QED BY <1>1, <2>1, <2>3, SameOrder
  <1>4. CASE CanFetch(j)
    <2>1. PICK n \in Nat \ {0} : n = FetchSize(sq[j]) /\ sq[j].nextFetch + n <= sq[j].target
      BY <1>4, FetchSizeType
    <2>2. PICK new : new = {[at |-> sq[j].nextFetch + i, w |-> 0] : i \in 0..(n - 1)}
      OBVIOUS
    <2>3. PICK q : q = sq[j].nextFetch + n
      OBVIOUS
    <2> DEFINE t == [sq[j] EXCEPT !.nextFetch = q, !.busy = TRUE, !.cache = sq[j].cache \cup new]
    <2>4. sq' = [sq EXCEPT ![j] = t] /\ stack' = stack
      BY <1>4, <2>1, <2>2, <2>3 DEF FillSqCache
    <2>5. sq'[j] = t /\ t \in Pipe /\ sq[j] \in Pipe
      BY <2>4, Changed
    <2>6. /\ Alike(sq[j], t) /\ t.issue = sq[j].issue /\ t.target = sq[j].target
          /\ t.nextFetch = q /\ t.cache = sq[j].cache \cup new
      BY <2>5 DEF Alike, Pipe
    <2> HIDE DEF t
    <2>7. /\ sq[j].issue \in Nat /\ sq[j].nextFetch \in Nat /\ sq[j].target \in Nat
          /\ posted[j] \in Seq(Wqe) /\ sent[j] \in Seq(Numbers)
      BY <2>5, PipeFields, JettyParts
    <2>8. Succeeds(posted[j], sq[j], sent[j]) /\ sq[j].issue <= sq[j].nextFetch
      BY <1>2 DEF OrderInv, CallOK
    <2>9. AheadOK(posted[j], sq[j])
      BY <2>8 DEF Succeeds
    <2>10. sq[j].nextFetch <= q /\ sq[j].issue <= q /\ q <= sq[j].target
      BY <2>1, <2>3, <2>7, <2>8
    <2>11. \A c \in new : c.w = 0 /\ sq[j].issue <= c.at /\ c.at < q
      BY <2>1, <2>2, <2>3, <2>7, <2>8, SMTT(30)
    <2>12. AheadOK(posted[j], t)
      BY <2>5, <2>6, <2>9, <2>10, <2>11, AheadMore
    <2>13. Succeeds(posted[j], t, sent[j])
      BY <2>5, <2>6, <2>7, <2>8, <2>12, AlikeOrder
    <2>14. stack'[1].op = "fill" /\ stack'[1].j = j
      BY <1>2, <2>4
    <2>15. CallOK(j)'
      BY <2>5, <2>6, <2>10, <2>14 DEF CallOK, Top
    <2> QED BY <1>1, <2>4, <2>13, <2>14, <2>15, PipeStep
  <1> QED BY <1>3, <1>4

\* The head of the cache is taken: it is the WQE at the issue index.
LEMMA TakenOrder ==
    ASSUME IInv, TypeOK', OrderInv, NEW j \in Jettys, NEW c \in sq[j].cache,
           c.at = sq[j].issue, c.w # 0, stack # <<>>, UNCHANGED <<posted, sent>>,
           \/ /\ sq' = [sq EXCEPT ![j] = [sq[j] EXCEPT !.fetching = "sync", !.busy = TRUE]]
              /\ stack' = <<CallWith("handle", j, c.w)>> \o Rest
           \/ /\ sq' = [sq EXCEPT ![j] = [sq[j] EXCEPT !.fetching = "cont", !.busy = TRUE,
                                                       !.cur = c.w]]
              /\ stack' = Rest
    PROVE  OrderInv'
  <1>1. /\ sq[j] \in Pipe /\ posted[j] \in Seq(Wqe) /\ sent[j] \in Seq(Numbers)
        /\ Rest \in Seq(Frame) /\ Plain(Rest)
    BY JettyParts, PlainBelow
  <1>2. Succeeds(posted[j], sq[j], sent[j])
    BY DEF OrderInv
  <1>3. c.w \in DOMAIN posted[j] /\ posted[j][c.w].start = sq[j].issue
    BY <1>1, <1>2, HeadStart
  <1>4. CASE /\ sq' = [sq EXCEPT ![j] = [sq[j] EXCEPT !.fetching = "sync", !.busy = TRUE]]
             /\ stack' = <<CallWith("handle", j, c.w)>> \o Rest
    <2> DEFINE t == [sq[j] EXCEPT !.fetching = "sync", !.busy = TRUE]
    <2>1. sq'[j] = t /\ t \in Pipe
      BY <1>4, Changed
    <2>2. Still(sq[j], t) /\ t.issue = sq[j].issue
      BY <1>1, StillFlags DEF Still
    <2>3. sq' = [sq EXCEPT ![j] = t]
      BY <1>4
    <2> HIDE DEF t
    <2>4. Alike(sq[j], t) /\ Unread(sq[j], t)
      BY <2>2 DEF Still, Alike, Unread
    <2>5. Succeeds(posted[j], t, sent[j])
      BY <1>1, <1>2, <2>1, <2>4, UnreadOrder
    <2>6. stack'[1].op = "handle" /\ stack'[1].j = j /\ stack'[1].w = c.w
      <3>1. c.w \in 0..MaxPosts
        <4>1. c \in Cached
          BY <1>1, PipeFields
        <4> QED BY <4>1 DEF Cached
      <3>2. "handle" \in FrameOps
        BY DEF FrameOps
      <3>3. /\ CallWith("handle", j, c.w) \in Frame /\ CallWith("handle", j, c.w).op = "handle"
            /\ CallWith("handle", j, c.w).j = j /\ CallWith("handle", j, c.w).w = c.w
        BY <3>1, <3>2 DEF CallWith, Frame, FrameOps
      <3>4. PICK a \in Frame : a = CallWith("handle", j, c.w)
        BY <3>3
      <3>5. stack' = <<a>> \o Rest
        BY <1>4, <3>4
      <3>6. stack'[1] = a
        BY <1>1, <3>5
      <3> QED BY <3>3, <3>4, <3>6
    <2>7. CallOK(j)'
      BY <1>3, <2>1, <2>2, <2>6 DEF CallOK, Top
    <2> QED BY <2>3, <2>5, <2>6, <2>7, PipeStep
  <1>5. CASE /\ sq' = [sq EXCEPT ![j] = [sq[j] EXCEPT !.fetching = "cont", !.busy = TRUE,
                                                      !.cur = c.w]]
             /\ stack' = Rest
    <2> DEFINE t == [sq[j] EXCEPT !.fetching = "cont", !.busy = TRUE, !.cur = c.w]
    <2>1. sq'[j] = t /\ t \in Pipe
      BY <1>5, Changed
    <2>2. /\ t.issue = sq[j].issue /\ t.consumer = sq[j].consumer /\ t.target = sq[j].target
          /\ t.direct = sq[j].direct /\ t.nextFetch = sq[j].nextFetch
          /\ t.cache = sq[j].cache /\ t.cur = c.w
          /\ t.completions = sq[j].completions /\ t.prepared = sq[j].prepared
      BY <1>1 DEF Pipe
    <2>3. sq' = [sq EXCEPT ![j] = t]
      BY <1>5
    <2> HIDE DEF t
    <2>4. WorkOK(posted[j], t)
      BY <1>2, <1>3, <2>2 DEF Succeeds, WorkOK
    <2>5. BellOK(posted[j], t) /\ AheadOK(posted[j], t) /\ SuccessionOK(posted[j], t)
      BY <1>2, <2>2 DEF Succeeds, BellOK, AheadOK, SuccessionOK
    <2>6. FramesOK(posted[j], t, sent[j])
      BY <1>2, <2>2 DEF Succeeds, FramesOK
    <2>7. Succeeds(posted[j], t, sent[j])
      BY <1>2, <2>4, <2>5, <2>6 DEF Succeeds
    <2>8. Plain(stack')
      BY <1>1, <1>5
    <2> QED BY <2>3, <2>7, <2>8, PlainCallOK, PipeStep
  <1> QED BY <1>4, <1>5

\* DecodeHead.
LEMMA DecodeOrder ==
    ASSUME IInv, TypeOK', OrderInv, NEW j \in Jettys, DecodeHead(j)
    PROVE  OrderInv'
  <1>1. Running("decode", j) /\ UNCHANGED <<posted, sent>>
    BY DEF DecodeHead
  <1>2. "decode" \in PlainOps
    BY DEF PlainOps
  <1>3. stack # <<>> /\ Plain(Rest)
    BY <1>1, <1>2, PlainTop
  <1>4. CASE stack' = Rest /\ sq' = sq
    BY <1>1, <1>3, <1>4, SameOrder
  <1>5. CASE stack' = Rest /\ sq' = [sq EXCEPT ![j] = [sq[j] EXCEPT !.failed = TRUE]]
    <2>1. Still(sq[j], [sq[j] EXCEPT !.failed = TRUE])
      BY StillFlags, JettyParts
    <2>2. Plain(stack')
      BY <1>3, <1>5
    <2> QED BY <1>1, <1>5, <2>1, <2>2, FlagStep
  <1> DEFINE heads == {c \in sq[j].cache : c.at = sq[j].issue /\ c.w # 0}
  <1>7. CASE sq[j].failed \/ heads = {}
    <2>1. stack' = Rest /\ sq' = sq
      BY <1>7 DEF DecodeHead
    <2> QED BY <2>1, <1>4
  <1>8. CASE ~(sq[j].failed \/ heads = {})
    <2>1. PICK c \in heads :
             \/ /\ sq' = [sq EXCEPT ![j].failed = TRUE]
                /\ stack' = Rest
             \/ stack' = Rest /\ UNCHANGED sq
             \/ /\ sq' = [sq EXCEPT ![j].fetching = "sync", ![j].busy = TRUE]
                /\ stack' = <<CallWith("handle", j, c.w)>> \o Rest
             \/ /\ sq' = [sq EXCEPT ![j].fetching = "cont", ![j].busy = TRUE,
                                       ![j].cur = c.w]
                /\ stack' = Rest
      BY <1>8 DEF DecodeHead
    <2>2. c \in sq[j].cache /\ c.at = sq[j].issue /\ c.w # 0
      OBVIOUS
    <2>3. CASE stack' = Rest /\ sq' = [sq EXCEPT ![j].failed = TRUE]
      BY <2>3, <1>5
    <2>4. CASE stack' = Rest /\ sq' = sq
      BY <2>4, <1>4
    <2>5. CASE /\ sq' = [sq EXCEPT ![j].fetching = "sync", ![j].busy = TRUE]
               /\ stack' = <<CallWith("handle", j, c.w)>> \o Rest
      <3>1. sq' = [sq EXCEPT ![j] = [sq[j] EXCEPT !.fetching = "sync", !.busy = TRUE]]
        BY <2>5
      <3> QED BY <1>1, <1>3, <2>2, <2>5, <3>1, TakenOrder
    <2>6. CASE /\ sq' = [sq EXCEPT ![j].fetching = "cont", ![j].busy = TRUE, ![j].cur = c.w]
               /\ stack' = Rest
      <3>1. sq' = [sq EXCEPT ![j] = [sq[j] EXCEPT !.fetching = "cont", !.busy = TRUE,
                                                  !.cur = c.w]]
        BY <2>6
      <3> QED BY <1>1, <1>3, <2>2, <2>6, <3>1, TakenOrder
    <2> QED BY <2>1, <2>3, <2>4, <2>5, <2>6
  <1> QED BY <1>7, <1>8

\* A descriptor that arrives is the one posted at its position.
LEMMA FilledAhead ==
    ASSUME IInv, NEW j \in Jettys, NEW f, NEW q \in Seq(Wqe), q = posted[j], RingOK(q),
           BellOK(q, sq[j]), AheadOK(q, sq[j]), NEW d \in FilledCache(j, f)
    PROVE  /\ sq[j].issue <= d.at /\ d.at < sq[j].nextFetch
           /\ d.w # 0 => d.w \in DOMAIN q /\ q[d.w].start <= d.at /\ d.at < End(q, d.w)
  <1>1. PICK c \in sq[j].cache : d = Filled(j, f, c)
    BY DEF FilledCache
  <1>2. d.at = c.at /\ (d.w = c.w \/ d.w = InRing(j, c.at))
    BY <1>1, FilledType
  <1>3. /\ sq[j].nextFetch <= sq[j].target /\ sq[j].issue <= c.at /\ c.at < sq[j].nextFetch
        /\ c.w # 0 => c.w \in DOMAIN q /\ q[c.w].start <= c.at /\ c.at < End(q, c.w)
    BY DEF AheadOK
  <1>4. c.at \in Nat /\ sq[j].nextFetch \in Nat /\ sq[j].target \in Nat
    <2>1. sq[j] \in Pipe
      BY JettyParts
    <2>2. c \in Cached /\ sq[j].nextFetch \in Nat /\ sq[j].target \in Nat
      BY <2>1, PipeFields
    <2> QED BY <2>2 DEF Cached
  <1>5. c.at < sq[j].target
    BY <1>3, <1>4
  <1>6. CASE d.w = c.w
    BY <1>2, <1>3, <1>6
  <1>7. CASE d.w = InRing(j, c.at)
    <2>1. d.w \in DOMAIN q /\ q[d.w].start <= c.at /\ c.at < End(q, d.w)
      BY <1>3, <1>4, <1>5, <1>7, InRingExact
    <2> QED BY <1>2, <1>3, <2>1
  <1> QED BY <1>2, <1>6, <1>7

\* A descriptor DMA has ended.
LEMMA FetchedOrder ==
    ASSUME IInv, TypeOK', OrderInv, NEW f \in fetches, NEW ok \in BOOLEAN, Fetched(f, ok)
    PROVE  OrderInv'
  <1>0. f \in Fetch /\ f.j \in Jettys
    BY DEF IInv, TypeOK, Fetch
  <1>j. PICK j \in Jettys : j = f.j
    BY <1>0
  <1>p. sq[j] \in Pipe /\ posted[j] \in Seq(Wqe) /\ sent[j] \in Seq(Numbers) /\ stack \in Seq(Frame)
    BY JettyParts
  <1> DEFINE b == sq[j].failed \/ ~ok
             new == IF b THEN sq[j].cache ELSE FilledCache(j, f)
             o == Occupied(sq[j], \E g \in fetches' : g.j = j)
             t == [sq[j] EXCEPT !.failed = b, !.cache = new, !.busy = o]
  <1>1. UNCHANGED <<posted, sent>> /\ stack' = AfterFetch(j, b)
    BY <1>j DEF Fetched
  <1>2. sq' = [sq EXCEPT ![j] = t]
    BY <1>j DEF Fetched, FilledCache, Filled
  <1>3. sq'[j] = t /\ t \in Pipe
    BY <1>2, Changed
  <1> HIDE DEF new, o
  <1>4. /\ Alike(sq[j], t) /\ t.issue = sq[j].issue /\ t.target = sq[j].target
        /\ t.nextFetch = sq[j].nextFetch /\ t.cache = new
    BY <1>p DEF Alike, Pipe
  <1> HIDE DEF t
  <1>5. Succeeds(posted[j], sq[j], sent[j])
    BY DEF OrderInv
  <1>6. RingOK(posted[j]) /\ BellOK(posted[j], sq[j]) /\ AheadOK(posted[j], sq[j])
    BY <1>5 DEF Succeeds
  <1>7. AheadOK(posted[j], t)
    <2>1. CASE b
      <3>1. new = sq[j].cache
        BY <2>1 DEF new
      <3> QED BY <1>4, <1>6, <3>1 DEF AheadOK
    <2>2. CASE ~b
      <3>1. new = FilledCache(j, f)
        BY <2>2 DEF new
      <3>2. \A d \in new :
               /\ sq[j].issue <= d.at /\ d.at < sq[j].nextFetch
               /\ d.w # 0 => /\ d.w \in DOMAIN posted[j] /\ posted[j][d.w].start <= d.at
                             /\ d.at < End(posted[j], d.w)
        BY <1>p, <1>6, <3>1, FilledAhead
      <3> QED BY <1>4, <1>6, <3>2 DEF AheadOK
    <2> QED BY <2>1, <2>2
  <1>8. Succeeds(posted[j], t, sent[j])
    BY <1>p, <1>3, <1>4, <1>5, <1>7, AlikeOrder
  <1>9. Plain(stack')
    <2>1. "maybe" \in PlainOps /\ "enter" \in PlainOps
      BY DEF PlainOps
    <2>2. Plain(<<Call("maybe", j), Call("enter", j)>>) /\ Plain(<<Call("maybe", j)>>)
      BY <1>p, <2>1, PlainCalls
    <2> QED BY <1>1, <2>2 DEF AfterFetch
  <1> QED BY <1>1, <1>2, <1>8, <1>9, PlainCallOK, PipeStep

\* What the guest has written.
LEMMA TipWritten ==
    ASSUME NEW j
    PROVE  Tip(j) = Written(posted[j])
  BY DEF Tip, Written, EndOf, End

\* The guest rings the doorbell.
LEMMA DoorbellOrder ==
    ASSUME IInv, TypeOK', OrderInv, NEW j \in Jettys, Doorbell(j)
    PROVE  OrderInv'
  <1>1. /\ sq' = [sq EXCEPT ![j] = [sq[j] EXCEPT !.target = Written(posted[j])]]
        /\ stack' = <<Call("enter", j)>> /\ UNCHANGED <<posted, sent>>
    BY TipWritten DEF Doorbell
  <1> DEFINE t == [sq[j] EXCEPT !.target = Written(posted[j])]
  <1>2. t \in Pipe /\ sq[j] \in Pipe /\ posted[j] \in Seq(Wqe) /\ stack \in Seq(Frame)
    BY <1>1, Changed, JettyParts
  <1>3. Succeeds(posted[j], sq[j], sent[j])
    BY DEF OrderInv
  <1>4. Succeeds(posted[j], t, sent[j])
    BY <1>2, <1>3, BellOrder
  <1>5. Plain(stack')
    <2>1. "enter" \in PlainOps
      BY DEF PlainOps
    <2> QED BY <1>1, <1>2, <2>1, PlainCalls
  <1> QED BY <1>1, <1>4, <1>5, PlainCallOK, PipeStep

\* The guest posts a WQE.
LEMMA GuestPostOrder ==
    ASSUME IInv, TypeOK', OrderInv, NEW j \in Jettys, NEW kind \in Kinds, Post(j, kind)
    PROVE  OrderInv'
  <1>1. /\ Idle /\ Tip(j) + kind.bb - GuestCi(j) <= Depth
        /\ posted' = [posted EXCEPT ![j] = Append(posted[j], [kind |-> kind, start |-> Tip(j)])]
        /\ UNCHANGED <<sq, stack, sent>>
    BY DEF Post
  <1>2. /\ sq[j] \in Pipe /\ posted \in [Jettys -> Seq(Wqe)] /\ posted[j] \in Seq(Wqe)
        /\ sent[j] \in Seq(Numbers) /\ ReadOK(j)
    BY JettyParts
  <1>3. Succeeds(posted[j], sq[j], sent[j])
    BY DEF OrderInv
  <1>4. PICK x : x = [kind |-> kind, start |-> Tip(j)]
    OBVIOUS
  <1>5. x \in Wqe /\ x.start = Written(posted[j]) /\ x.kind = kind
    BY <1>4, TipType, TipWritten DEF Wqe
  <1>6. Tidy(posted[j], sq[j])
    BY TidyPipe
  <1>7. sq[j].fetching \in {"cont", "payload"} => sq[j].cur \in DOMAIN posted[j]
    BY <1>2 DEF ReadOK, Fits
  <1>8. Written(posted[j]) + x.kind.bb <= sq[j].issue + Depth
    <2>1. GuestCi(j) \in Nat /\ GuestCi(j) <= sq[j].issue
      BY <1>3, GuestCiBound
    <2>2. /\ Written(posted[j]) \in Nat /\ kind.bb \in Nat /\ Depth \in Nat
          /\ sq[j].issue \in Nat
      BY <1>2, TipType, TipWritten, KindAssumption, SizeAssumption, PipeFields DEF Kind
    <2>3. Written(posted[j]) + kind.bb - GuestCi(j) <= Depth
      BY <1>1, TipWritten
    <2> QED BY <1>5, <2>1, <2>2, <2>3
  <1>9. /\ posted'[j] = Append(posted[j], x)
        /\ \A i \in Jettys : i # j => posted'[i] = posted[i]
    BY <1>1, <1>2, <1>4
  <1>10. Succeeds(posted'[j], sq[j], sent[j])
    BY <1>2, <1>3, <1>5, <1>6, <1>7, <1>8, <1>9, PostOrder
  <1>11. Plain(stack')
    BY <1>1, PlainBelow
  <1>12. Others(j)
    BY <1>1, <1>9 DEF Others
  <1> QED BY <1>1, <1>10, <1>11, <1>12, PlainCallOK, OrderStep

\* The payload of a WRITE has been read.
LEMMA PayloadOrder ==
    ASSUME IInv, TypeOK', OrderInv, NEW j \in Jettys, NEW k, NEW ok \in BOOLEAN,
           WritePayloadRead(j, k, ok)
    PROVE  OrderInv'
  <1>p. sq[j] \in Pipe /\ stack \in Seq(Frame)
    BY JettyParts
  <1>1. /\ k \in DOMAIN sq[j].prepared /\ stack' = <<Call("drain", j)>>
        /\ UNCHANGED <<posted, sent>>
    BY DEF WritePayloadRead
  <1>2. PICK x : x = IF ok THEN "ready" ELSE "failed"
    OBVIOUS
  <1>3. PICK q : q = [sq[j].prepared EXCEPT ![k].state = x]
    OBVIOUS
  <1>4. sq' = [sq EXCEPT ![j] = [sq[j] EXCEPT !.prepared = q]]
    BY <1>2, <1>3 DEF WritePayloadRead
  <1>5. Len(q) = Len(sq[j].prepared) /\ \A m \in 1..Len(sq[j].prepared) : q[m].w = sq[j].prepared[m].w
    <2>1. sq[j].prepared \in Seq(PreparedWrite) /\ x \in {"reading", "ready", "failed"}
      BY <1>p, <1>2, PipeFields
    <2>2. sq[j].prepared[k] \in PreparedWrite
      BY <1>1, <2>1
    <2>3. PICK y : y = [sq[j].prepared[k] EXCEPT !.state = x]
      OBVIOUS
    <2>4. y \in PreparedWrite /\ y.w = sq[j].prepared[k].w
      BY <2>1, <2>2, <2>3 DEF PreparedWrite
    <2>5. q = [sq[j].prepared EXCEPT ![k] = y]
      BY <1>3, <2>3
    <2> QED BY <1>1, <2>1, <2>4, <2>5
  <1> DEFINE t == [sq[j] EXCEPT !.prepared = q]
  <1>6. t \in Pipe
    BY <1>4, Changed
  <1>7. Alike(sq[j], t) /\ Unread(sq[j], t)
    BY <1>p, <1>5 DEF Alike, Unread, Pipe
  <1>8. Plain(stack')
    <2>1. "drain" \in PlainOps
      BY DEF PlainOps
    <2> QED BY <1>p, <1>1, <2>1, PlainCalls
  <1> QED BY <1>1, <1>4, <1>6, <1>7, <1>8, AlikeStep

\* Flags of entries change.
LEMMA MarkedOrder ==
    ASSUME IInv, TypeOK', OrderInv, NEW j \in Jettys, NEW d, NEW b,
           sq' = [sq EXCEPT ![j] = [sq[j] EXCEPT !.completions = d, !.failed = b]],
           Shaped(sq[j].completions, d), UNCHANGED <<posted, sent>>, Plain(stack')
    PROVE  OrderInv'
  <1> DEFINE t == [sq[j] EXCEPT !.completions = d, !.failed = b]
  <1>1. sq'[j] = t /\ t \in Pipe /\ sq[j] \in Pipe
    BY Changed
  <1>2. /\ t.issue = sq[j].issue /\ t.consumer = sq[j].consumer /\ t.target = sq[j].target
        /\ t.direct = sq[j].direct /\ t.nextFetch = sq[j].nextFetch
        /\ t.cache = sq[j].cache /\ t.fetching = sq[j].fetching /\ t.cur = sq[j].cur
        /\ t.completions = d /\ t.prepared = sq[j].prepared
    BY <1>1 DEF Pipe
  <1>3. sq' = [sq EXCEPT ![j] = t]
    OBVIOUS
  <1> HIDE DEF t
  <1>4. Alike(sq[j], t) /\ Unread(sq[j], t)
    BY <1>2 DEF Alike, Unread, Shaped
  <1> QED BY <1>1, <1>3, <1>4, AlikeStep

\* A request leaves the network.
LEMMA AnsweredOrder ==
    ASSUME IInv, TypeOK', OrderInv, NEW r \in net, NEW after, Completes(r, after)
    PROVE  OrderInv'
  <1>j. PICK j \in Jettys : j = r.j
    <2>1. r \in Request
      BY DEF IInv, TypeOK
    <2> QED BY <2>1 DEF Request
  <1>p. sq[j] \in Pipe
    BY JettyParts
  <1>un. UNCHANGED <<posted, sent>>
    BY DEF Completes
  <1>1. PICK bb : bb = KindOf(r.j, r.w).bb
    OBVIOUS
  <1>2. PICK x : x = r.index
    OBVIOUS
  <1>3. PICK c \in Seq(Entry) : c = sq[j].completions
    BY <1>p, PipeFields
  <1>4. /\ sq' = [sq EXCEPT ![j] = CompleteSq(sq[j], x, bb)]
        /\ stack' = RetireCall(j, sq[j], x, bb) \o after
    BY <1>j, <1>1, <1>2 DEF Completes, Answered
  <1>5. PICK d : CompletedAs(sq[j], x, bb, d) /\ ReadyAt(c, d, x)
    BY <1>3, CompleteFacts
  <1>6. PICK b : b = sq[j].failed
    OBVIOUS
  <1>7. sq' = [sq EXCEPT ![j] = [sq[j] EXCEPT !.completions = d, !.failed = b]]
    <2>1. [sq[j] EXCEPT !.completions = d] = [sq[j] EXCEPT !.completions = d, !.failed = b]
      BY <1>p, <1>6 DEF Pipe
    <2> QED BY <1>4, <1>5, <2>1 DEF CompletedAs
  <1>8. Shaped(sq[j].completions, d)
    <2>1. PICK n \in Nat : n = Len(c) /\ n = Len(d) /\ DOMAIN c = 1..n
      BY <1>5 DEF ReadyAt
    <2>2. \A k \in 1..n : c[k].pub # "no" => c[k].ready
      BY <1>3, <2>1, JettyParts DEF EntryOK
    <2> QED BY <1>3, <1>5, <2>1, <2>2 DEF Shaped, ReadyAt
  <1>9. Plain(stack')
    <2>1. PICK st : Retirement(j, sq[j], x, bb, after, st) /\ st = stack'
      BY <1>j, <1>4 DEF Retirement, Completes
    <2>2. /\ st \in Seq(Frame)
          /\ \A k \in DOMAIN st : st[k].j = j /\ st[k].op \in {"retire", "maybe"}
      BY <2>1, RetireCalls
    <2>3. st # <<>> => 1 \in DOMAIN st
      BY <2>2
    <2> QED BY <2>1, <2>2, <2>3 DEF Plain
  <1> QED BY <1>un, <1>7, <1>8, <1>9, MarkedOrder

\* A request moves on in the network.
LEMMA MovedOrder ==
    ASSUME IInv, OrderInv, NEW r, NEW stage, Moves(r, stage)
    PROVE  OrderInv'
  <1>1. Idle /\ UNCHANGED <<sq, posted, stack, sent>>
    BY DEF Moves
  <1>2. Plain(stack')
    BY <1>1, PlainBelow
  <1> QED BY <1>1, <1>2, SameOrder

\* The network or the peer answers.
LEMMA NetworkOrder ==
    ASSUME IInv, TypeOK', OrderInv, NEW r \in net,
           \/ FrameSent(r) \/ FrameRefused(r) \/ ReceiveWriteAck(r) \/ ReceiveRmaError(r)
           \/ ReceiveReadResponse(r) \/ ReadResponseWritten(r)
    PROVE  OrderInv'
  <1>1. CASE FrameSent(r)
    <2>1. Completes(r, <<>>) \/ Moves(r, "sent")
      BY <1>1 DEF FrameSent, Completes, Moves
    <2> QED BY <2>1, AnsweredOrder, MovedOrder
  <1>2. CASE FrameRefused(r) \/ ReadResponseWritten(r)
    <2>1. Completes(r, <<Call("maybe", r.j)>>)
      BY <1>2 DEF FrameRefused, ReadResponseWritten, Completes
    <2> QED BY <2>1, AnsweredOrder
  <1>3. CASE ReceiveWriteAck(r) \/ ReceiveRmaError(r)
    <2>1. Completes(r, <<>>)
      BY <1>3 DEF ReceiveWriteAck, ReceiveRmaError, Completes
    <2> QED BY <2>1, AnsweredOrder
  <1>4. CASE ReceiveReadResponse(r)
    <2>1. Moves(r, "dma")
      BY <1>4 DEF ReceiveReadResponse, Moves
    <2> QED BY <2>1, MovedOrder
  <1> QED BY <1>1, <1>2, <1>3, <1>4

\* The CQE of a ready entry moves on.
LEMMA PublishOrder ==
    ASSUME IInv, TypeOK', OrderInv, NEW j \in Jettys, NEW k, NEW b \in BOOLEAN,
           NEW p \in {"no", "issued", "landed", "done", "failed"}, Publishes(j, k, p, b),
           sq[j].completions[k].ready, Plain(stack')
    PROVE  OrderInv'
  <1>1. PICK d : d = [sq[j].completions EXCEPT ![k].pub = p]
    OBVIOUS
  <1>2. /\ sq' = [sq EXCEPT ![j] = [sq[j] EXCEPT !.completions = d, !.failed = b]]
        /\ UNCHANGED <<posted, sent>>
    BY <1>1 DEF Publishes
  <1>3. Kept(j)
    BY PublishFacts
  <1>4. sq'[j] = [sq[j] EXCEPT !.completions = d, !.failed = b] /\ sq[j] \in Pipe
    BY <1>2, Changed
  <1>5. sq'[j].completions = d
    BY <1>4 DEF Pipe
  <1>6. Shaped(sq[j].completions, d)
    BY <1>3, <1>5 DEF Kept
  <1> QED BY <1>2, <1>6, MarkedOrder

\* The DMA of a CQE moves on.
LEMMA CqeOrder ==
    ASSUME IInv, TypeOK', OrderInv, NEW j \in Jettys, NEW k,
           CqeLands(j, k) \/ CqeWritten(j, k) \/ CqeFails(j, k)
    PROVE  OrderInv'
  <1>1. /\ sq[j].completions[k].ready
        /\ stack' = <<>> \/ stack' = <<Call("pop", j)>>
        /\ \E b \in BOOLEAN : \E p \in {"no", "issued", "landed", "done", "failed"} :
              Publishes(j, k, p, b)
    BY CqeForms
  <1>2. Plain(stack')
    <2>1. "pop" \in PlainOps /\ stack \in Seq(Frame)
      BY PlainBelow DEF PlainOps
    <2>2. Plain(<<Call("pop", j)>>) /\ Plain(<<>>)
      BY <2>1, PlainCalls DEF Plain
    <2> QED BY <1>1, <2>2
  <1> QED BY <1>1, <1>2, PublishOrder

\* RetireSq issues a CQE, or returns.
LEMMA RetireOrder ==
    ASSUME IInv, TypeOK', OrderInv, NEW j \in Jettys, RetireSq(j)
    PROVE  OrderInv'
  <1>p. sq[j] \in Pipe
    BY JettyParts
  <1>1. Running("retire", j) /\ UNCHANGED <<posted, fetches, net, route, draining, sent>>
    BY DEF RetireSq
  <1>o. "retire" \in PlainOps /\ "pop" \in PlainOps
    BY DEF PlainOps
  <1>2. Plain(stack) /\ Plain(Rest) /\ stack \in Seq(Frame)
    BY <1>1, <1>o, PlainTop
  <1>3. Plain(<<Call("pop", j)>> \o stack)
    BY <1>2, <1>o, PlainCalls
  <1>4. CASE stack' = Rest /\ sq' = sq
    BY <1>1, <1>2, <1>4, SameOrder
  <1>5. CASE \E k \in Publishable(sq[j]) :
                \/ /\ sq' = [sq EXCEPT ![j].completions[k].pub = "issued"]
                   /\ UNCHANGED stack
                \/ /\ sq' = [sq EXCEPT ![j] = Finished(@, k)]
                   /\ stack' = <<Call("pop", j)>> \o stack
    <2>1. PICK k \in Publishable(sq[j]) :
                \/ /\ sq' = [sq EXCEPT ![j].completions[k].pub = "issued"]
                   /\ UNCHANGED stack
                \/ /\ sq' = [sq EXCEPT ![j] = Finished(@, k)]
                   /\ stack' = <<Call("pop", j)>> \o stack
      BY <1>5
    <2>2. k \in DOMAIN sq[j].completions /\ sq[j].completions[k].ready
      BY <2>1 DEF Publishable, NextEntry
    <2>3. PICK b \in BOOLEAN : b = sq[j].failed
      BY <1>p, PipeFields
    <2>s. \A c : [sq[j] EXCEPT !.completions = c] =
                 [sq[j] EXCEPT !.completions = c, !.failed = b]
      BY <1>p, <2>3 DEF Pipe
    <2>4. \E p \in {"no", "issued", "landed", "done", "failed"} :
             sq' = [sq EXCEPT ![j] = [sq[j] EXCEPT !.completions =
                                        [sq[j].completions EXCEPT ![k].pub = p]]]
      <3>1. CASE sq' = [sq EXCEPT ![j].completions[k].pub = "issued"]
        <4>1. sq' = [sq EXCEPT ![j] = [sq[j] EXCEPT !.completions =
                                        [sq[j].completions EXCEPT ![k].pub = "issued"]]]
          BY <3>1
        <4> QED BY <4>1
      <3>2. CASE sq' = [sq EXCEPT ![j] = Finished(@, k)]
        <4>1. sq' = [sq EXCEPT ![j] = [sq[j] EXCEPT !.completions =
                                        [sq[j].completions EXCEPT ![k].pub = "done"]]]
          BY <3>2 DEF Finished
        <4> QED BY <4>1
      <3> QED BY <2>1, <3>1, <3>2
    <2>5. PICK p \in {"no", "issued", "landed", "done", "failed"} :
             sq' = [sq EXCEPT ![j] = [sq[j] EXCEPT !.completions =
                                        [sq[j].completions EXCEPT ![k].pub = p]]]
      BY <2>4
    <2>6. Publishes(j, k, p, b)
      BY <1>1, <2>2, <2>s, <2>5 DEF Publishes
    <2>7. Plain(stack')
      BY <1>2, <1>3, <2>1
    <2> QED BY <2>2, <2>6, <2>7, PublishOrder
  <1> QED BY <1>4, <1>5 DEF RetireSq

\* HandleSqWqe is called with the WQE at the issue index.
LEMMA HandleStart ==
    ASSUME IInv, OrderInv, NEW j \in Jettys, NEW w, Running("handle", j), w = Head(stack).w
    PROVE  /\ posted[j][w].start = sq[j].issue /\ Fits(j, w) /\ sq[j].fetching = "sync"
           /\ Rest \in Seq(Frame) /\ Plain(Rest)
  <1>1. /\ stack # <<>> /\ stack[1].op = "handle" /\ stack[1].j = j
        /\ Head(stack) = stack[1]
    BY RunningCall
  <1>2. posted[j][w].start = sq[j].issue
    BY <1>1 DEF OrderInv, CallOK, Top
  <1> QED BY <1>1, <1>2, HandleFacts, PlainBelow

\* The fields of a pipeline that has reserved WQE w.
Takeover(j, w, ready, t) ==
    /\ t.issue = sq[j].issue + KindOf(j, w).bb /\ t.consumer = sq[j].consumer
    /\ t.target = sq[j].target /\ t.direct = sq[j].direct
    /\ t.nextFetch = sq[j].nextFetch /\ t.cache = Uncached(j, w) /\ t.fetching = "sync"
    /\ t.completions = Append(sq[j].completions, NewEntry(j, w, ready))

\* ReserveSq takes the WQE at the issue index.
LEMMA ReserveTakes ==
    ASSUME IInv, NEW j \in Jettys, NEW w, Fits(j, w), posted[j][w].start = sq[j].issue,
           NEW ready \in BOOLEAN, NEW t, Takeover(j, w, ready, t)
    PROVE  Takes(posted[j], sq[j], t, w)
  <1>1. w \in DOMAIN posted[j] /\ KindOf(j, w).bb = posted[j][w].kind.bb
    BY DEF Fits, KindOf
  <1>2. PICK c \in Seq(Entry) : c = sq[j].completions
    BY JettyParts, PipeFields
  <1>3. PICK e \in Entry : e = NewEntry(j, w, ready)
    BY <1>1, NewEntryType
  <1>4. e.w = w /\ e.index = LastIndex(sq[j], KindOf(j, w).bb)
    BY <1>1, <1>3, NewEntryType
  <1>5. PICK n \in Nat : n = Len(c)
    OBVIOUS
  <1>6. PICK d : d = Append(c, e)
    OBVIOUS
  <1>7. Len(d) = n + 1 /\ d[n + 1] = e /\ \A k \in 1..n : d[k] = c[k]
    BY <1>5, <1>6
  <1>8. t.completions = d
    BY <1>2, <1>3, <1>6 DEF Takeover
  <1>9. /\ Len(t.completions) = Len(sq[j].completions) + 1
        /\ \A k \in 1..Len(sq[j].completions) :
              /\ t.completions[k].w = sq[j].completions[k].w
              /\ t.completions[k].index = sq[j].completions[k].index
        /\ t.completions[Len(sq[j].completions) + 1].w = w
        /\ t.completions[Len(sq[j].completions) + 1].index
             = (sq[j].issue + posted[j][w].kind.bb - 1) % Depth
    BY <1>1, <1>2, <1>4, <1>5, <1>7, <1>8 DEF LastIndex
  <1>10. \A c2 \in t.cache : /\ c2 \in sq[j].cache
                             /\ c2.at \notin sq[j].issue..(sq[j].issue + posted[j][w].kind.bb - 1)
    BY <1>1 DEF Takeover, Uncached
  <1> QED BY <1>1, <1>9, <1>10 DEF Takes, Takeover

\* The calls that follow.
LEMMA ResumePlain ==
    ASSUME NEW j \in Jettys, NEW t \in Seq(Frame),
           \/ stack' = <<Call("resume", j)>> \o t \/ stack' = <<Call("resume", j)>>
           \/ stack' = (<<Call("retire", j)>> \o <<Call("resume", j)>>) \o t
    PROVE  Plain(stack')
  <1>1. "resume" \in PlainOps /\ "retire" \in PlainOps
    BY DEF PlainOps
  <1>2. Plain(<<Call("resume", j)>> \o t) /\ Plain(<<Call("resume", j)>>)
        /\ Plain(<<Call("retire", j)>>)
    BY <1>1, PlainCalls
  <1>3. PICK a \in Frame : a = Call("retire", j)
    <2>1. "retire" \in FrameOps
      BY DEF FrameOps
    <2> QED BY <2>1, CallType
  <1>4. PICK b \in Frame : b = Call("resume", j)
    <2>1. "resume" \in FrameOps
      BY DEF FrameOps
    <2> QED BY <2>1, CallType
  <1>5. /\ <<a>> \in Seq(Frame) /\ <<b>> \in Seq(Frame) /\ <<a>> # <<>>
        /\ <<a>> \o <<b>> \in Seq(Frame) /\ <<a>> \o <<b>> # <<>>
    OBVIOUS
  <1>6. Plain(<<a>> \o <<b>>)
    BY <1>2, <1>3, <1>5, PlainJoin
  <1>7. Plain((<<a>> \o <<b>>) \o t)
    BY <1>5, <1>6, PlainJoin
  <1> QED BY <1>2, <1>3, <1>4, <1>7

\* A READ or an inline WRITE is sent at once.
LEMMA IssueNowOrder ==
    ASSUME IInv, TypeOK', OrderInv, NEW j \in Jettys, NEW w, SendsNow(j, w)
    PROVE  OrderInv'
  <1>p. /\ sq[j] \in Pipe /\ posted[j] \in Seq(Wqe) /\ sent[j] \in Seq(Numbers)
    BY JettyParts
  <1>1. /\ posted[j][w].start = sq[j].issue /\ Fits(j, w) /\ sq[j].fetching = "sync"
        /\ Rest \in Seq(Frame)
    BY HandleStart DEF SendsNow
  <1>2. sq[j].prepared = <<>> /\ posted' = posted /\ stack' = <<Call("resume", j)>> \o Rest
    BY DEF Waits, SendsNow
  <1>3. PICK cc : cc = Append(sq[j].completions, NewEntry(j, w, FALSE))
    OBVIOUS
  <1>4. PICK ca : ca = Uncached(j, w)
    OBVIOUS
  <1>5. PICK nx : nx = sq[j].issue + KindOf(j, w).bb
    OBVIOUS
  <1>6. PICK o : o = KindOf(j, w).ordered
    OBVIOUS
  <1> DEFINE t == [sq[j] EXCEPT !.completions = cc, !.cache = ca, !.issue = nx, !.ordered = o]
  <1>7. sq' = [sq EXCEPT ![j] = t]
    BY <1>3, <1>4, <1>5, <1>6 DEF ReserveSq, NewEntry, Uncached, NextIssue, SendsNow
  <1>8. /\ t.issue = nx /\ t.consumer = sq[j].consumer /\ t.target = sq[j].target
        /\ t.direct = sq[j].direct /\ t.nextFetch = sq[j].nextFetch /\ t.cache = ca
        /\ t.fetching = sq[j].fetching /\ t.completions = cc /\ t.prepared = sq[j].prepared
    BY <1>p DEF Pipe
  <1> HIDE DEF t
  <1>9. sq'[j] = t /\ t \in Pipe /\ \A i \in Jettys : i # j => sq'[i] = sq[i]
    BY <1>7, Changed
  <1>10. Takeover(j, w, FALSE, t)
    BY <1>1, <1>3, <1>4, <1>5, <1>8 DEF Takeover
  <1>11. Takes(posted[j], sq[j], t, w)
    BY <1>1, <1>10, ReserveTakes
  <1>12. w \in Numbers
    BY <1>1, ReserveTypes
  <1>13. /\ sent'[j] = Append(sent[j], w)
         /\ \A i \in Jettys : i # j => sent'[i] = sent[i]
    <2>1. PICK x \in 0..(Depth - 1) : x = LastIndex(sq[j], KindOf(j, w).bb)
      BY <1>1, NewEntryType DEF Fits
    <2>2. SendFrame(j, w, x) /\ KindOf(j, w).op \in {"READ", "WRITE", "INLINE", "SEND"}
      BY <2>1 DEF SendsNow
    <2> QED BY <1>12, <2>2, SendFacts
  <1>14. Succeeds(posted[j], sq[j], sent[j]) /\ Tidy(posted[j], sq[j])
    BY TidyPipe DEF OrderInv
  <1>15. Succeeds(posted[j], t, sent'[j])
    BY <1>p, <1>2, <1>8, <1>9, <1>11, <1>12, <1>13, <1>14, TakesSending
  <1>16. Plain(stack')
    BY <1>1, <1>2, ResumePlain
  <1>17. Others(j)
    BY <1>2, <1>9, <1>13 DEF Others
  <1> QED BY <1>2, <1>9, <1>15, <1>16, <1>17, PlainCallOK, OrderStep

\* The payload of a WRITE is read first.
LEMMA IssueWriteOrder ==
    ASSUME IInv, TypeOK', OrderInv, NEW j \in Jettys, NEW w, Prepares(j, w)
    PROVE  OrderInv'
  <1>p. /\ sq[j] \in Pipe /\ posted[j] \in Seq(Wqe) /\ sent[j] \in Seq(Numbers)
    BY JettyParts
  <1>1. /\ posted[j][w].start = sq[j].issue /\ Fits(j, w) /\ sq[j].fetching = "sync"
        /\ Rest \in Seq(Frame)
    BY HandleStart DEF Prepares
  <1>2. UNCHANGED <<posted, sent>> /\ stack' = <<Call("resume", j)>> \o Rest
    BY DEF Prepares
  <1>3. PICK cc : cc = Append(sq[j].completions, NewEntry(j, w, FALSE))
    OBVIOUS
  <1>4. PICK ca : ca = Uncached(j, w)
    OBVIOUS
  <1>5. PICK nx : nx = sq[j].issue + KindOf(j, w).bb
    OBVIOUS
  <1>6. PICK o : o = KindOf(j, w).ordered
    OBVIOUS
  <1>x. PICK x \in 0..(Depth - 1) : x = LastIndex(sq[j], KindOf(j, w).bb)
    BY <1>1, NewEntryType DEF Fits
  <1>a. PICK y : y = [w |-> w, index |-> x, state |-> "reading"]
    OBVIOUS
  <1>b. PICK pr : pr = Append(sq[j].prepared, y)
    OBVIOUS
  <1>12. w \in Numbers
    BY <1>1, ReserveTypes
  <1>c. y \in PreparedWrite /\ y.w = w
    BY <1>a, <1>12 DEF PreparedWrite
  <1> DEFINE t == [sq[j] EXCEPT !.completions = cc, !.cache = ca, !.issue = nx,
                                !.ordered = o, !.prepared = pr]
  <1>7. sq' = [sq EXCEPT ![j] = t]
    BY <1>3, <1>4, <1>5, <1>6, <1>x, <1>a, <1>b
       DEF ReserveSq, NewEntry, Uncached, NextIssue, Prepares
  <1>8. /\ t.issue = nx /\ t.consumer = sq[j].consumer /\ t.target = sq[j].target
        /\ t.direct = sq[j].direct /\ t.nextFetch = sq[j].nextFetch /\ t.cache = ca
        /\ t.fetching = sq[j].fetching /\ t.completions = cc /\ t.prepared = pr
    BY <1>p DEF Pipe
  <1> HIDE DEF t
  <1>9. t \in Pipe
    BY <1>7, Changed
  <1>10. Takeover(j, w, FALSE, t)
    BY <1>1, <1>3, <1>4, <1>5, <1>8 DEF Takeover
  <1>11. Takes(posted[j], sq[j], t, w)
    BY <1>1, <1>10, ReserveTakes
  <1>14. Succeeds(posted[j], sq[j], sent[j]) /\ Tidy(posted[j], sq[j])
    BY TidyPipe DEF OrderInv
  <1>15. Succeeds(posted[j], t, sent[j])
    BY <1>p, <1>b, <1>c, <1>8, <1>9, <1>11, <1>14, TakesWriting
  <1>16. Plain(stack')
    BY <1>1, <1>2, ResumePlain
  <1> QED BY <1>2, <1>7, <1>15, <1>16, PlainCallOK, PipeStep

\* A SEND above the transport limit completes at once.
LEMMA IssueLongOrder ==
    ASSUME IInv, TypeOK', OrderInv, NEW j \in Jettys, NEW w, NEW s, NEW x, NEW bb,
           Rejects(j, w, s, x, bb)
    PROVE  OrderInv'
  <1>p. /\ sq[j] \in Pipe /\ posted[j] \in Seq(Wqe) /\ sent[j] \in Seq(Numbers)
    BY JettyParts
  <1>1. /\ posted[j][w].start = sq[j].issue /\ Fits(j, w) /\ sq[j].fetching = "sync"
        /\ Rest \in Seq(Frame)
    BY HandleStart DEF Rejects
  <1>s. s = ReserveSq(j, sq[j], w) /\ bb = KindOf(j, w).bb /\ x = LastIndex(sq[j], bb)
    BY DEF Rejects
  <1>2. UNCHANGED <<posted, sent>>
    BY DEF Rejects
  <1>3. PICK cc : cc = Append(sq[j].completions, NewEntry(j, w, TRUE))
    OBVIOUS
  <1>c. PICK c1 : c1 = Append(sq[j].completions, NewEntry(j, w, FALSE))
    OBVIOUS
  <1>4. PICK ca : ca = Uncached(j, w)
    OBVIOUS
  <1>5. PICK nx : nx = sq[j].issue + KindOf(j, w).bb
    OBVIOUS
  <1>6. PICK o : o = KindOf(j, w).ordered
    OBVIOUS
  <1>b. s = [sq[j] EXCEPT !.completions = c1, !.cache = ca, !.issue = nx, !.ordered = o]
    BY <1>s, <1>c, <1>4, <1>5, <1>6 DEF ReserveSq, NewEntry, Uncached, NextIssue
  <1>g. s.completions = c1
    BY <1>p, <1>b DEF Pipe
  <1>h. Extended(s, j, w)
    BY <1>c, <1>g DEF Extended
  <1>i. Completing(s, x, bb) # {} /\ CompletedAs(s, x, bb, cc)
    BY <1>1, <1>s, <1>3, <1>h, CompleteNew
  <1> DEFINE t == [sq[j] EXCEPT !.completions = cc, !.cache = ca, !.issue = nx, !.ordered = o]
  <1>7. sq' = [sq EXCEPT ![j] = t]
    <2>1. [s EXCEPT !.completions = cc] = t
      BY <1>p, <1>b DEF Pipe
    <2>2. sq' = [sq EXCEPT ![j] = CompleteSq(s, x, bb)]
      BY DEF Rejects
    <2> QED BY <1>i, <2>1, <2>2 DEF CompletedAs
  <1>8. /\ t.issue = nx /\ t.consumer = sq[j].consumer /\ t.target = sq[j].target
        /\ t.direct = sq[j].direct /\ t.nextFetch = sq[j].nextFetch /\ t.cache = ca
        /\ t.fetching = sq[j].fetching /\ t.completions = cc /\ t.prepared = sq[j].prepared
    BY <1>p DEF Pipe
  <1> HIDE DEF t
  <1>9. t \in Pipe
    BY <1>7, Changed
  <1>10. Takeover(j, w, TRUE, t)
    BY <1>1, <1>3, <1>4, <1>5, <1>8 DEF Takeover
  <1>11. Takes(posted[j], sq[j], t, w)
    BY <1>1, <1>10, ReserveTakes
  <1>14. Succeeds(posted[j], sq[j], sent[j]) /\ Tidy(posted[j], sq[j])
    BY TidyPipe DEF OrderInv
  <1>15. Succeeds(posted[j], t, sent[j])
    BY <1>p, <1>8, <1>9, <1>11, <1>14, TakesQuietly
  <1>k. stack' = (<<Call("retire", j)>> \o <<Call("resume", j)>>) \o Rest
    <2>1. RetireCall(j, s, x, bb) = <<Call("retire", j)>>
      BY <1>i DEF RetireCall
    <2> QED BY <2>1 DEF Rejects
  <1>16. Plain(stack')
    BY <1>1, <1>k, ResumePlain
  <1> QED BY <1>2, <1>7, <1>15, <1>16, PlainCallOK, PipeStep

\* A pipeline that starts to read for the WQE at its issue index.
LEMMA ReadingOrder ==
    ASSUME NEW p, NEW s \in Pipe, NEW t, NEW n, NEW f, NEW w, Succeeds(p, s, n),
           p[w].start = s.issue, t = [s EXCEPT !.fetching = f, !.cur = w]
    PROVE  Succeeds(p, t, n)
  <1>1. /\ t.issue = s.issue /\ t.consumer = s.consumer /\ t.target = s.target
        /\ t.direct = s.direct /\ t.nextFetch = s.nextFetch /\ t.cache = s.cache
        /\ t.cur = w /\ t.completions = s.completions /\ t.prepared = s.prepared
    BY DEF Pipe
  <1>2. WorkOK(p, t)
    BY <1>1 DEF Succeeds, WorkOK
  <1>3. BellOK(p, t) /\ AheadOK(p, t) /\ SuccessionOK(p, t) /\ FramesOK(p, t, n)
    BY <1>1 DEF Succeeds, BellOK, AheadOK, SuccessionOK, FramesOK
  <1> QED BY <1>2, <1>3 DEF Succeeds

\* The payload read of a SEND starts.
LEMMA IssueSendOrder ==
    ASSUME IInv, TypeOK', OrderInv, NEW j \in Jettys, NEW w, Reads(j, w)
    PROVE  OrderInv'
  <1> DEFINE t == [sq[j] EXCEPT !.fetching = "payload", !.cur = w]
  <1>1. posted[j][w].start = sq[j].issue /\ Plain(Rest)
    BY HandleStart DEF Reads
  <1>2. sq' = [sq EXCEPT ![j] = t] /\ UNCHANGED <<posted, sent>> /\ stack' = Rest
    BY DEF Reads
  <1>3. sq[j] \in Pipe /\ Succeeds(posted[j], sq[j], sent[j])
    BY JettyParts DEF OrderInv
  <1>4. Succeeds(posted[j], t, sent[j])
    BY <1>1, <1>3, ReadingOrder
  <1>5. Plain(stack')
    BY <1>1, <1>2
  <1> QED BY <1>2, <1>4, <1>5, PlainCallOK, PipeStep

\* HandleSqWqe takes the WQE.
LEMMA HandleIssuesOrder ==
    ASSUME IInv, TypeOK', OrderInv, NEW j \in Jettys, HandleIssues(j)
    PROVE  OrderInv'
  <1>1. PICK w, s, x, bb : \/ SendsNow(j, w) \/ Rejects(j, w, s, x, bb)
                           \/ Prepares(j, w) \/ Reads(j, w)
    BY IssueForms
  <1> QED BY <1>1, IssueNowOrder, IssueLongOrder, IssueWriteOrder, IssueSendOrder

\* The payload of a SEND arrives and the WQE is not submitted.
LEMMA SendDroppedOrder ==
    ASSUME IInv, TypeOK', OrderInv, NEW j \in Jettys, NEW ok, NEW b,
           NEW st, st \in {<<>>, <<Call("release", j)>>, <<Call("release", j), Call("maybe", j)>>},
           Drops(j, ok, b, st)
    PROVE  OrderInv'
  <1> DEFINE t == [sq[j] EXCEPT !.fetching = "sync", !.cur = 0, !.failed = b]
  <1>1. sq' = [sq EXCEPT ![j] = t] /\ stack' = st /\ UNCHANGED <<posted, sent>>
    BY DEF Drops
  <1>2. sq[j] \in Pipe /\ stack \in Seq(Frame)
    BY JettyParts
  <1>3. Still(sq[j], t)
    BY <1>2 DEF Still, Pipe
  <1>4. Plain(stack')
    <2>1. "release" \in PlainOps /\ "maybe" \in PlainOps
      BY DEF PlainOps
    <2>2. /\ Plain(<<Call("release", j)>>) /\ Plain(<<Call("release", j), Call("maybe", j)>>)
          /\ Plain(<<>>)
      BY <1>2, <2>1, PlainCalls DEF Plain
    <2> QED BY <1>1, <2>2
  <1> QED BY <1>1, <1>3, <1>4, FlagStep

\* The payload of a SEND arrives and its frame is sent.
LEMMA SendSubmittedOrder ==
    ASSUME IInv, TypeOK', OrderInv, NEW j \in Jettys, NEW ok, NEW w, NEW s,
           Submits(j, ok, w, s)
    PROVE  OrderInv'
  <1>p. /\ sq[j] \in Pipe /\ posted[j] \in Seq(Wqe) /\ sent[j] \in Seq(Numbers)
        /\ stack \in Seq(Frame)
    BY JettyParts
  <1>14. Succeeds(posted[j], sq[j], sent[j]) /\ Tidy(posted[j], sq[j])
    BY TidyPipe DEF OrderInv
  <1>0. sq[j].fetching = "payload" /\ w = sq[j].cur
    BY DEF Submits
  <1>1. Fits(j, w) /\ sq[j].prepared = <<>> /\ KindOf(j, w).op = "SEND"
    BY <1>0, JettyParts DEF ReadOK, KindOf
  <1>a. posted[j][w].start = sq[j].issue
    BY <1>0, <1>14 DEF Succeeds, WorkOK
  <1>2. posted' = posted /\ stack' = <<Call("resume", j)>>
    BY DEF Submits
  <1>3. PICK cc : cc = Append(sq[j].completions, NewEntry(j, w, FALSE))
    OBVIOUS
  <1>4. PICK ca : ca = Uncached(j, w)
    OBVIOUS
  <1>5. PICK nx : nx = sq[j].issue + KindOf(j, w).bb
    OBVIOUS
  <1>6. PICK o : o = KindOf(j, w).ordered
    OBVIOUS
  <1>s. s = [sq[j] EXCEPT !.fetching = "sync", !.cur = 0]
    BY DEF Submits
  <1>g. /\ s.issue = sq[j].issue /\ s.cache = sq[j].cache
        /\ s.completions = sq[j].completions
    BY <1>p, <1>s DEF Pipe
  <1>h. LastIndex(s, KindOf(j, w).bb) = LastIndex(sq[j], KindOf(j, w).bb)
    BY <1>g DEF LastIndex
  <1>i. ReserveSq(j, s, w) = [s EXCEPT !.completions = cc, !.cache = ca,
                                       !.issue = nx, !.ordered = o]
    BY <1>3, <1>4, <1>5, <1>6, <1>g, <1>h DEF ReserveSq, NewEntry, Uncached, NextIssue
  <1> DEFINE t == [sq[j] EXCEPT !.fetching = "sync", !.cur = 0, !.completions = cc,
                                !.cache = ca, !.issue = nx, !.ordered = o]
  <1>7. sq' = [sq EXCEPT ![j] = t]
    BY <1>s, <1>i DEF Submits
  <1>8. /\ t.issue = nx /\ t.consumer = sq[j].consumer /\ t.target = sq[j].target
        /\ t.direct = sq[j].direct /\ t.nextFetch = sq[j].nextFetch /\ t.cache = ca
        /\ t.fetching = "sync" /\ t.completions = cc /\ t.prepared = sq[j].prepared
    BY <1>p DEF Pipe
  <1> HIDE DEF t
  <1>9. sq'[j] = t /\ t \in Pipe /\ \A i \in Jettys : i # j => sq'[i] = sq[i]
    BY <1>7, Changed
  <1>10. Takeover(j, w, FALSE, t)
    BY <1>3, <1>4, <1>5, <1>8 DEF Takeover
  <1>11. Takes(posted[j], sq[j], t, w)
    BY <1>1, <1>a, <1>10, ReserveTakes
  <1>12. w \in Numbers
    BY <1>1, ReserveTypes
  <1>13. /\ sent'[j] = Append(sent[j], w)
         /\ \A i \in Jettys : i # j => sent'[i] = sent[i]
    <2>1. PICK x \in 0..(Depth - 1) : x = LastIndex(sq[j], KindOf(j, w).bb)
      BY <1>1, NewEntryType DEF Fits
    <2>2. SendFrame(j, w, x) /\ KindOf(j, w).op \in {"READ", "WRITE", "INLINE", "SEND"}
      BY <1>1, <1>h, <2>1 DEF Submits
    <2> QED BY <1>12, <2>2, SendFacts
  <1>15. Succeeds(posted[j], t, sent'[j])
    BY <1>p, <1>1, <1>8, <1>9, <1>11, <1>12, <1>13, <1>14, TakesSending
  <1>16. Plain(stack')
    BY <1>p, <1>2, ResumePlain
  <1>17. Others(j)
    BY <1>2, <1>9, <1>13 DEF Others
  <1> QED BY <1>2, <1>9, <1>15, <1>16, <1>17, PlainCallOK, OrderStep

\* The payload read of a SEND ends.
LEMMA SendPayloadOrder ==
    ASSUME IInv, TypeOK', OrderInv, NEW j \in Jettys, NEW ok \in BOOLEAN,
           SendPayloadRead(j, ok)
    PROVE  OrderInv'
  <1>1. \/ \E b \in BOOLEAN : \E st \in {<<>>, <<Call("release", j)>>,
                                <<Call("release", j), Call("maybe", j)>>} :
              Drops(j, ok, b, st)
        \/ \E w, s : Submits(j, ok, w, s)
    BY PayloadForms
  <1>2. CASE \E b \in BOOLEAN : \E st \in {<<>>, <<Call("release", j)>>,
                                <<Call("release", j), Call("maybe", j)>>} :
                Drops(j, ok, b, st)
    BY <1>2, SendDroppedOrder
  <1>3. CASE \E w, s : Submits(j, ok, w, s)
    BY <1>3, SendSubmittedOrder
  <1> QED BY <1>1, <1>2, <1>3

\* The oldest prepared WRITE leaves, with or without its frame.
LEMMA DrainsOrder ==
    ASSUME IInv, TypeOK', OrderInv, NEW j \in Jettys, NEW q, NEW d, Drains(j, q, d),
           NEW x, NEW w, FirstWrite(j, w, x), ReadyAt(sq[j].completions, d, x),
           Sent(j, w, x, d)
    PROVE  OrderInv'
  <1>p. /\ sq[j] \in Pipe /\ posted[j] \in Seq(Wqe) /\ sent[j] \in Seq(Numbers)
        /\ stack \in Seq(Frame) /\ sent \in [Jettys -> Seq(Numbers)]
    BY JettyParts DEF IInv, TypeOK
  <1>1. Running("drain", j) /\ posted' = posted
        /\ (stack' = stack \/ stack' = <<Call("retire", j)>> \o stack)
    BY DEF Drains
  <1>2. PICK p \in Seq(PreparedWrite) : p = sq[j].prepared
    BY <1>p, PipeFields
  <1>3. 1 \in DOMAIN p /\ q = RemoveAt(p, 1) /\ w = p[1].w /\ x = p[1].index
    BY <1>2 DEF Drains, FirstWrite
  <1>4. PICK m \in Nat : Shorter(p, q, m)
    BY <1>3, RemovedFirst
  <1> DEFINE t == [sq[j] EXCEPT !.prepared = q, !.completions = d]
  <1>5. sq' = [sq EXCEPT ![j] = t]
    BY DEF Drains
  <1>6. /\ t.issue = sq[j].issue /\ t.consumer = sq[j].consumer /\ t.target = sq[j].target
        /\ t.direct = sq[j].direct /\ t.nextFetch = sq[j].nextFetch
        /\ t.cache = sq[j].cache /\ t.fetching = sq[j].fetching /\ t.cur = sq[j].cur
        /\ t.completions = d /\ t.prepared = q
    BY <1>p DEF Pipe
  <1> HIDE DEF t
  <1>7. sq'[j] = t /\ t \in Pipe /\ \A i \in Jettys : i # j => sq'[i] = sq[i]
    BY <1>5, Changed
  <1>8. Unprepares(sq[j], t)
    BY <1>2, <1>3, <1>4, <1>6 DEF Unprepares, Unread, ReadyAt
  <1>9. Succeeds(posted[j], sq[j], sent[j]) /\ Tidy(posted[j], sq[j])
    BY TidyPipe DEF OrderInv
  <1>10. p[1] \in PreparedWrite
    BY <1>3
  <1>11. w \in Numbers /\ x \in 0..(Depth - 1)
    BY <1>3, <1>10 DEF PreparedWrite
  <1>12. /\ sent'[j] = sent[j] \/ sent'[j] = Append(sent[j], w)
         /\ \A i \in Jettys : i # j => sent'[i] = sent[i]
    <2>1. CASE UNCHANGED <<net, sent>>
      BY <2>1
    <2>2. CASE SendFrame(j, w, x)
      <3>1. sent' = [sent EXCEPT ![j] = Append(sent[j], w)]
        BY <2>2 DEF SendFrame
      <3> QED BY <1>p, <3>1
    <2> QED BY <2>1, <2>2 DEF Sent
  <1>13. sent'[j] \in Seq(Numbers)
    BY DEF TypeOK
  <1>14. Succeeds(posted[j], t, sent'[j])
    <2>1. PICK o \in Seq(Numbers) : o = sent'[j]
      BY <1>13
    <2>2. o = sent[j] \/ o = Append(sent[j], sq[j].prepared[1].w)
      BY <1>2, <1>3, <1>12, <2>1
    <2>3. Succeeds(posted[j], t, o)
      BY <1>p, <1>7, <1>8, <1>9, <2>2, UnpreparesOrder
    <2> QED BY <2>1, <2>3
  <1>15. Plain(stack')
    <2>1. "drain" \in PlainOps /\ "retire" \in PlainOps
      BY DEF PlainOps
    <2>2. Plain(stack) /\ Plain(<<Call("retire", j)>> \o stack)
      BY <1>p, <1>1, <2>1, PlainTop, PlainCalls
    <2> QED BY <1>1, <2>2
  <1>16. Others(j)
    BY <1>1, <1>7, <1>12 DEF Others
  <1> QED BY <1>1, <1>7, <1>14, <1>15, <1>16, PlainCallOK, OrderStep

\* DrainPreparedWrites.
LEMMA DrainOrder ==
    ASSUME IInv, TypeOK', OrderInv, NEW j \in Jettys, DrainPreparedWrites(j)
    PROVE  OrderInv'
  <1>1. CASE Resumes(j)
    <2>1. /\ Running("drain", j) /\ UNCHANGED <<sq, posted, sent>>
          /\ stack' = <<Call("enter", j), Call("maybe", j)>> \o Rest
      BY <1>1 DEF Resumes
    <2>2. "drain" \in PlainOps /\ "enter" \in PlainOps /\ "maybe" \in PlainOps
      BY DEF PlainOps
    <2>3. Rest \in Seq(Frame)
      BY <2>1, <2>2, PlainTop
    <2>4. Plain(stack')
      BY <2>1, <2>2, <2>3, PlainCalls
    <2> QED BY <2>1, <2>4, SameOrder
  <1> QED BY <1>1, DrainForms, DrainsOrder

\* The acknowledged prefix retires.
LEMMA PopOrder ==
    ASSUME IInv, TypeOK', OrderInv, NEW j \in Jettys, PopRetired(j)
    PROVE  OrderInv'
  <1>p. /\ sq[j] \in Pipe /\ posted[j] \in Seq(Wqe) /\ sent[j] \in Seq(Numbers)
    BY JettyParts
  <1>o. "pop" \in PlainOps /\ "retire" \in PlainOps /\ "maybe" \in PlainOps
        /\ "enter" \in PlainOps
    BY DEF PlainOps
  <1>1. CASE Pops(j)
    <2> DEFINE t == [sq[j] EXCEPT !.completions = Tail(sq[j].completions),
                                  !.consumer = sq[j].consumer + sq[j].completions[1].bb]
    <2>1. /\ sq' = [sq EXCEPT ![j] = t] /\ UNCHANGED <<posted, sent, stack>>
          /\ Running("pop", j) /\ sq[j].completions # <<>>
      BY <1>1 DEF Pops, FrontDone
    <2>2. t \in Pipe
      BY <2>1, Changed
    <2>3. Retires(sq[j], t)
      BY <1>p, <2>1 DEF Retires, Unread, Pipe
    <2> HIDE DEF t
    <2>4. sq[j].completions[1].bb = posted[j][sq[j].completions[1].w].kind.bb
      <3>1. PICK c \in Seq(Entry) : c = sq[j].completions
        BY <1>p, PipeFields
      <3>2. 1 \in DOMAIN c
        BY <2>1, <3>1
      <3> QED BY <3>1, <3>2, JettyParts DEF EntryOK
    <2>5. Succeeds(posted[j], sq[j], sent[j]) /\ Tidy(posted[j], sq[j])
      BY TidyPipe DEF OrderInv
    <2>6. Succeeds(posted[j], t, sent[j])
      BY <1>p, <2>2, <2>3, <2>4, <2>5, RetiresOrder
    <2>7. Plain(stack')
      BY <1>o, <2>1, PlainTop
    <2> QED BY <2>1, <2>6, <2>7, PlainCallOK, PipeStep
  <1>2. CASE Settles(j)
    <2>1. PICK a : a = StillOrdered(sq[j])
      OBVIOUS
    <2>2. PICK b : b = Occupied(sq[j], Fetching(j))
      OBVIOUS
    <2>3. /\ sq' = [sq EXCEPT ![j] = [sq[j] EXCEPT !.ordered = a, !.busy = b]]
          /\ UNCHANGED <<posted, sent>> /\ Running("pop", j)
          /\ stack' = <<Call("retire", j), Call("maybe", j), Call("enter", j)>> \o Rest
      BY <1>2, <2>1, <2>2 DEF Settles, AfterFinish
    <2>4. Still(sq[j], [sq[j] EXCEPT !.ordered = a, !.busy = b])
      BY <1>p, StillFlags
    <2>5. Rest \in Seq(Frame)
      BY <1>o, <2>3, PlainTop
    <2>6. Plain(stack')
      BY <1>o, <2>3, <2>5, PlainCalls
    <2> QED BY <2>3, <2>4, <2>6, FlagStep
  <1> QED BY <1>1, <1>2 DEF PopRetired, Pops, Settles

\* A jetty just created or erased.
LEMMA FreshSucceeds ==
    ASSUME NEW g \in 0..MaxGen
    PROVE  Succeeds(<<>>, NewPipe(g), <<>>) /\ Succeeds(<<>>, NoPipe(g), <<>>)
  <1>1. NewPipe(g) \in Pipe /\ NoPipe(g) \in Pipe
    BY NewPipeType
  <1>2. FreshPipe(NewPipe(g)) /\ FreshPipe(NoPipe(g))
    BY FreshFields
  <1>3. NewPipe(g).nextFetch = 0 /\ NoPipe(g).nextFetch = 0
    BY DEF NewPipe, NoPipe
  <1> QED BY <1>1, <1>2, <1>3, FreshOrder DEF FreshPipe

\* A jetty is erased.
LEMMA EraseOrder ==
    ASSUME IInv, OrderInv, NEW j \in Jettys, Erase(j), Plain(stack')
    PROVE  OrderInv'
  <1>1. /\ sq \in [Jettys -> Pipe] /\ sq[j] \in Pipe /\ posted \in [Jettys -> Seq(Wqe)]
        /\ sent \in [Jettys -> Seq(Numbers)]
    BY JettyParts
  <1>2. sq[j].gen \in 0..MaxGen
    BY <1>1, PipeFields
  <1>3. sq'[j] = NoPipe(sq[j].gen) /\ posted'[j] = <<>> /\ sent'[j] = <<>> /\ Others(j)
    BY <1>1 DEF Erase, Others
  <1>4. Succeeds(posted'[j], sq'[j], sent'[j])
    BY <1>2, <1>3, FreshSucceeds
  <1> QED BY <1>3, <1>4, PlainCallOK, OrderStep

\* MaybeCompleteQueueDestroy.
LEMMA MaybeOrder ==
    ASSUME IInv, OrderInv, NEW j \in Jettys, MaybeCompleteQueueDestroy(j)
    PROVE  OrderInv'
  <1>1. Running("maybe", j) /\ stack' = Rest
    BY DEF MaybeCompleteQueueDestroy
  <1>2. Plain(stack')
    <2>1. "maybe" \in PlainOps
      BY DEF PlainOps
    <2> QED BY <1>1, <2>1, PlainTop
  <1>3. CASE UNCHANGED <<sq, posted, sent>>
    BY <1>2, <1>3, SameOrder
  <1>4. CASE \E d \in draining : Erase(d)
    <2>1. draining \subseteq Jettys
      BY DEF IInv, TypeOK
    <2> QED BY <1>2, <1>4, <2>1, EraseOrder
  <1> QED BY <1>3, <1>4 DEF MaybeCompleteQueueDestroy

\* The guest creates a jetty.
LEMMA CreateOrder ==
    ASSUME IInv, OrderInv, NEW j \in Jettys, CreateJetty(j)
    PROVE  OrderInv'
  <1>1. /\ Idle /\ ~sq[j].live /\ sq[j].gen < MaxGen
        /\ sq' = [sq EXCEPT ![j] = NewPipe(sq[j].gen + 1)]
        /\ UNCHANGED <<posted, stack, sent>>
    BY DEF CreateJetty
  <1>2. sq \in [Jettys -> Pipe] /\ sq[j] \in Pipe /\ posted[j] = <<>> /\ sent[j] = <<>>
    BY <1>1, JettyParts DEF LiveOK
  <1>3. sq[j].gen + 1 \in 0..MaxGen
    BY <1>1, <1>2, PipeFields, LimitAssumption
  <1>4. sq'[j] = NewPipe(sq[j].gen + 1) /\ Others(j)
    BY <1>1, <1>2 DEF Others
  <1>5. Succeeds(posted'[j], sq'[j], sent'[j])
    BY <1>1, <1>2, <1>3, <1>4, FreshSucceeds
  <1>6. Plain(stack')
    BY <1>1, PlainBelow
  <1> QED BY <1>4, <1>5, <1>6, PlainCallOK, OrderStep

\* The guest destroys a jetty.
LEMMA DestroyOrder ==
    ASSUME IInv, OrderInv, NEW j \in Jettys, DestroyJetty(j)
    PROVE  OrderInv'
  <1>1. Idle /\ stack' = stack
    BY DEF DestroyJetty
  <1>2. Plain(stack')
    BY <1>1, PlainBelow
  <1>3. UNCHANGED <<sq, posted, sent>> \/ Erase(j)
    BY DEF DestroyJetty
  <1> QED BY <1>2, <1>3, SameOrder, EraseOrder

----------------------------------------------------------------------------
(* The order of execution *)

\* Every initial state.
LEMMA InitOrder ==
    ASSUME Init PROVE OrderInv
  <1> SUFFICES ASSUME NEW j \in Jettys
               PROVE  Succeeds(posted[j], sq[j], sent[j]) /\ CallOK(j)
    BY DEF OrderInv
  <1>1. sq[j] = NoPipe(0) /\ posted[j] = <<>> /\ sent[j] = <<>> /\ stack = <<>>
    BY DEF Init
  <1>2. 0 \in 0..MaxGen
    BY LimitAssumption
  <1>3. Succeeds(posted[j], sq[j], sent[j])
    BY <1>1, <1>2, FreshSucceeds
  <1>4. CallOK(j)
    BY <1>1 DEF CallOK, Top
  <1> QED BY <1>3, <1>4

\* A step of the running handler.
LEMMA HandlerOrder ==
    ASSUME IInv, TypeOK', OrderInv, HandlerStep PROVE OrderInv'
  BY MaybeOrder, EnterOrder, LeaveOrder, ProcessOrder, FillOrder, DecodeOrder,
     HandleFailsOrder, HandleWaitsOrder, HandleIssuesOrder, ReleaseOrder, DrainOrder,
     RetireOrder, PopOrder DEF HandlerStep

\* A callback, a reply or a failure.
LEMMA AnswerOrder ==
    ASSUME IInv, TypeOK', OrderInv, Answer \/ Failure PROVE OrderInv'
  <1>1. TRUE \in BOOLEAN /\ FALSE \in BOOLEAN
    OBVIOUS
  <1>2. CASE \E f \in fetches, ok \in BOOLEAN : Fetched(f, ok)
    BY <1>2, FetchedOrder
  <1>3. CASE \E j \in Jettys, ok \in BOOLEAN : ContinueSqWqe(j, ok) \/ SendPayloadRead(j, ok)
    BY <1>3, ContinueOrder, SendPayloadOrder
  <1>4. CASE \E j \in Jettys, k \in Numbers, ok \in BOOLEAN : WritePayloadRead(j, k, ok)
    BY <1>4, PayloadOrder
  <1>5. CASE \E j \in Jettys, k \in Numbers :
                CqeLands(j, k) \/ CqeWritten(j, k) \/ CqeFails(j, k)
    BY <1>5, CqeOrder
  <1>6. CASE \E r \in net :
                \/ FrameSent(r) \/ FrameRefused(r) \/ ReceiveWriteAck(r)
                \/ ReceiveRmaError(r) \/ ReceiveReadResponse(r) \/ ReadResponseWritten(r)
    BY <1>6, NetworkOrder
  <1>7. CASE DeactivateTp \/ RemoveTp
    BY <1>7, TpOrder
  <1>8. CASE Answer
    BY <1>1, <1>2, <1>3, <1>4, <1>5, <1>6, <1>8 DEF Answer
  <1>9. CASE Failure
    BY <1>1, <1>2, <1>3, <1>4, <1>5, <1>6, <1>7, <1>9 DEF Failure
  <1> QED BY <1>8, <1>9

\* A step of a guest that writes no direct WQEs.
LEMMA GuestOrder ==
    ASSUME IInv, TypeOK', OrderInv, ~DirectWqe, GuestStep PROVE OrderInv'
  <1>1. \A j \in Jettys : ~DirectDoorbell(j)
    BY DEF DirectDoorbell
  <1> QED BY <1>1, CreateOrder, DestroyOrder, DoorbellOrder, GuestPostOrder DEF GuestStep

\* Without direct WQEs, the pipelines work through what is posted in ring order.
THEOREM OrderInvariant == ~DirectWqe => (Spec => []OrderInv)
  <1> SUFFICES ASSUME ~DirectWqe PROVE Spec => []OrderInv
    OBVIOUS
  <1>1. Init => OrderInv
    BY InitOrder
  <1>2. IInv /\ IInv' /\ OrderInv /\ [Next]_vars => OrderInv'
    <2> SUFFICES ASSUME IInv, IInv', OrderInv, [Next]_vars PROVE OrderInv'
      OBVIOUS
    <2>1. TypeOK'
      BY DEF IInv
    <2>2. CASE UNCHANGED vars
      BY <2>2 DEF vars, OrderInv, CallOK, Top
    <2> QED BY <2>1, <2>2, HandlerOrder, AnswerOrder, GuestOrder DEF Next
  <1> QED BY <1>1, <1>2, Invariant, PTL DEF Spec

\* The WQEs issued are the ones submitted, each once and in SQ order, and the
\* unretired window lies between consumer and issue index (FillSqCache,
\* HandleSqWqe, ReserveSq), for a guest that writes no direct WQEs.
THEOREM PostedExecuted == ~DirectWqe => (Spec => []ExecutesPostedWqes)
  <1> SUFFICES ASSUME ~DirectWqe PROVE Spec => []ExecutesPostedWqes
    OBVIOUS
  <1>1. IInv /\ OrderInv => ExecutesPostedWqes
    <2> SUFFICES ASSUME IInv, OrderInv, NEW j \in Jettys
                 PROVE  LET c == sq[j].completions IN
                        /\ \A k \in DOMAIN c : c[k].index = (EndOf(j, c[k].w) - 1) % Depth
                        /\ \A k \in 1..(Len(c) - 1) : c[k + 1].w = c[k].w + 1
                        /\ c # <<>> => /\ sq[j].consumer = posted[j][c[1].w].start
                                       /\ sq[j].issue = EndOf(j, c[Len(c)].w)
                        /\ sq[j].issue <= sq[j].target
      BY DEF ExecutesPostedWqes
    <2>1. SuccessionOK(posted[j], sq[j])
      BY DEF OrderInv, Succeeds
    <2>2. PICK c \in Seq(Entry) : c = sq[j].completions
      BY JettyParts, PipeFields
    <2>3. \A w : EndOf(j, w) = End(posted[j], w)
      BY DEF EndOf, End
    <2>4. /\ \A k \in DOMAIN c : /\ c[k].w = c[1].w + (k - 1)
                                 /\ c[k].index = (EndOf(j, c[k].w) - 1) % Depth
          /\ c # <<>> => /\ sq[j].consumer = posted[j][c[1].w].start
                         /\ sq[j].issue = EndOf(j, c[Len(c)].w)
      BY <2>1, <2>2, <2>3 DEF SuccessionOK
    <2>5. ASSUME NEW k \in 1..(Len(c) - 1) PROVE c[k + 1].w = c[k].w + 1
      <3>1. k \in DOMAIN c /\ k + 1 \in DOMAIN c /\ 1 \in DOMAIN c /\ k \in Nat
        OBVIOUS
      <3>2. c[1] \in Entry
        BY <3>1
      <3>3. c[1].w \in Nat
        BY <3>2 DEF Entry, Numbers
      <3>4. c[k].w = c[1].w + (k - 1) /\ c[k + 1].w = c[1].w + ((k + 1) - 1)
        BY <2>4, <3>1
      <3>5. PICK y \in Nat : y = c[1].w
        BY <3>3
      <3>6. c[k].w = y + (k - 1)
        BY <3>4, <3>5
      <3>7. c[k + 1].w = y + k
        <4>1. (k + 1) - 1 = k
          BY <3>1
        <4> QED BY <3>4, <3>5, <4>1
      <3>8. (y + (k - 1)) + 1 = y + k
        BY <3>1, <3>5
      <3> QED BY ONLY <3>6, <3>7, <3>8
    <2>6. sq[j].issue <= sq[j].target
      BY WindowFacts
    <2> QED BY <2>2, <2>4, <2>5, <2>6
  <1> QED BY <1>1, Invariant, OrderInvariant, PTL

\* No frame overtakes that of an earlier WQE, whether its payload is read first
\* or not (DrainPreparedWrites), for a guest that writes no direct WQEs.
THEOREM FramesOrdered == ~DirectWqe => (Spec => []FramesInOrder)
  <1> SUFFICES ASSUME ~DirectWqe PROVE Spec => []FramesInOrder
    OBVIOUS
  <1>1. OrderInv => FramesInOrder
    BY DEF OrderInv, Succeeds, FramesOK, FramesInOrder
  <1> QED BY <1>1, OrderInvariant, PTL

============================================================================
