----------------------- MODULE LifecycleFence_proofs -----------------------
(***************************************************************************)
(* Proofs about LifecycleFence: types, that no check of a fence ever       *)
(* fails, that parties read messages of their own epoch only, that the     *)
(* saved devices of a checkpoint hold all the work there is, and that a    *)
(* measured loop runs on the O3 CPU.                                       *)
(*                                                                         *)
(* The inductive invariant says where things are: the fence of a node in   *)
(* exactly one of eight places while its guest is suspended, and every     *)
(* operation in exactly one place on its way to the peer and back.  What   *)
(* is in a place is counted, so that most steps are linear arithmetic.     *)
(***************************************************************************)
EXTENDS LifecycleFence, FiniteSetTheorems, SequenceTheorems, TLAPS

\* How many entries of s are in S.
Num(s, S) == Cardinality({i \in DOMAIN s : s[i] \in S})
One(P) == IF P THEN 1 ELSE 0
Of(type) == {m \in Messages \cup Fences : m.type = type}
For(type, node) == {m \in Messages : m.type = type /\ m.node = node}

----------------------------------------------------------------------------
(* Counting in sequences *)

\* A count is a natural number.
LEMMA NumType ==
    ASSUME NEW T, NEW s \in Seq(T), NEW S
    PROVE  Num(s, S) \in Nat /\ IsFiniteSet({i \in DOMAIN s : s[i] \in S})
  <1>1. DOMAIN s = 1 .. Len(s) /\ Len(s) \in Nat
    OBVIOUS
  <1>2. IsFiniteSet(DOMAIN s)
    BY <1>1, FS_Interval
  <1>3. {i \in DOMAIN s : s[i] \in S} \in SUBSET DOMAIN s
    OBVIOUS
  <1>4. IsFiniteSet({i \in DOMAIN s : s[i] \in S})
    BY <1>2, <1>3, FS_Subset
  <1> QED
    BY <1>4, FS_CardinalityType DEF Num

\* A count is zero when no entry is counted.
LEMMA NumZero ==
    ASSUME NEW T, NEW s \in Seq(T), NEW S
    PROVE  Num(s, S) = 0 <=> \A i \in DOMAIN s : s[i] \notin S
  <1> DEFINE hits == {i \in DOMAIN s : s[i] \in S}
  <1>1. IsFiniteSet(hits)
    BY NumType
  <1>2. Cardinality(hits) = 0 <=> hits = {}
    BY <1>1, FS_EmptySet
  <1> QED
    BY <1>2 DEF Num

\* Nothing is counted in an empty sequence.
LEMMA NumEmpty ==
    ASSUME NEW S
    PROVE  Num(<<>>, S) = 0
  <1>1. {i \in DOMAIN <<>> : <<>>[i] \in S} = {}
    OBVIOUS
  <1> QED
    BY <1>1, FS_EmptySet DEF Num

\* Appending an entry adds one when it is counted.
LEMMA NumAppend ==
    ASSUME NEW T, NEW s \in Seq(T), NEW x \in T, NEW S
    PROVE  Num(Append(s, x), S) = Num(s, S) + One(x \in S)
  <1> DEFINE hits == {i \in DOMAIN s : s[i] \in S}
             more == {i \in DOMAIN Append(s, x) : Append(s, x)[i] \in S}
             last == Len(s) + 1
  <1>1. IsFiniteSet(hits) /\ Cardinality(hits) \in Nat
    BY NumType DEF Num
  <1>2. last \notin hits
    OBVIOUS
  <1>3. CASE x \in S
    <2>1. more = hits \cup {last}
      BY <1>3
    <2>2. Cardinality(hits \cup {last}) = Cardinality(hits) + 1
      BY <1>1, <1>2, FS_AddElement
    <2> QED
      BY <2>1, <2>2, <1>3 DEF Num, One
  <1>4. CASE x \notin S
    <2>1. more = hits
      BY <1>4
    <2>2. One(x \in S) = 0
      BY <1>4 DEF One
    <2>3. Num(Append(s, x), S) = Cardinality(more) /\ Num(s, S) = Cardinality(hits)
      BY DEF Num
    <2> HIDE DEF hits, more
    <2> QED
      BY <2>1, <2>2, <2>3, <1>1
  <1> QED
    BY <1>3, <1>4

\* Reading the head removes one when it is counted.
LEMMA NumTail ==
    ASSUME NEW T, NEW s \in Seq(T), s # <<>>, NEW S
    PROVE  /\ Tail(s) \in Seq(T) /\ Head(s) \in T
           /\ Num(s, S) = Num(Tail(s), S) + One(Head(s) \in S)
  <1> DEFINE hits == {i \in DOMAIN s : s[i] \in S}
             rest == {i \in DOMAIN Tail(s) : Tail(s)[i] \in S}
             later == hits \ {1}
             f == [i \in rest |-> i + 1]
  <1>1. IsFiniteSet(hits) /\ Cardinality(hits) \in Nat
    BY NumType DEF Num
  <1>2. Tail(s) \in Seq(T) /\ Head(s) \in T /\ Head(s) = s[1] /\ 1 \in DOMAIN s
    OBVIOUS
  <1>3. IsFiniteSet(rest) /\ Cardinality(rest) \in Nat
    BY <1>2, NumType DEF Num
  <1>4. Len(s) \in Nat /\ Len(s) > 0 /\ DOMAIN s = 1 .. Len(s) /\ DOMAIN Tail(s) = 1 .. Len(s) - 1
    OBVIOUS
  <1>5. \A i \in 1 .. Len(s) - 1 : Tail(s)[i] = s[i + 1]
    OBVIOUS
  <1>6. f \in Bijection(rest, later)
    <2>1. f \in [rest -> later]
      BY <1>4, <1>5
    <2>2. \A i, j \in rest : f[i] = f[j] => i = j
      BY <1>4
    <2>3. \A k \in later : \E i \in rest : f[i] = k
      <3>1. SUFFICES ASSUME NEW k \in later
                     PROVE  \E i \in rest : f[i] = k
        OBVIOUS
      <3>2. k - 1 \in 1 .. Len(s) - 1
        BY <1>4
      <3>3. Tail(s)[k - 1] = s[k]
        BY <3>2, <1>5, <1>4
      <3>4. k - 1 \in rest
        BY <3>2, <3>3, <1>4
      <3>5. f[k - 1] = k
        BY <3>4, <3>2, <1>4
      <3> QED
        BY <3>4, <3>5
    <2> QED
      BY <2>1, <2>2, <2>3 DEF Bijection, Injection, IsInjective, Surjection
  <1>7. Cardinality(later) = Cardinality(rest)
    BY <1>6, <1>3, FS_Bijection DEF ExistsBijection
  <1>8. Cardinality(later) = IF 1 \in hits THEN Cardinality(hits) - 1 ELSE Cardinality(hits)
    BY <1>1, FS_RemoveElement
  <1>9. Num(s, S) = Cardinality(hits) /\ Num(Tail(s), S) = Cardinality(rest)
    BY DEF Num
  <1>10. Head(s) \in S <=> 1 \in hits
    BY <1>2
  <1> HIDE DEF hits, rest, later
  <1> QED
    BY <1>1, <1>2, <1>3, <1>7, <1>8, <1>9, <1>10 DEF One

----------------------------------------------------------------------------
(* Messages and rings *)

Item == Messages \cup Fences
Carried == {"request", "response", "execute", "complete"}

\* What the constructors build.
LEMMA Built ==
    /\ \A type, epoch, node :
         /\ Message(type, epoch, node).type = type
         /\ Message(type, epoch, node).epoch = epoch
         /\ Message(type, epoch, node).node = node
    /\ \A type, epoch, generation, enabled :
         /\ Fence(type, epoch, generation, enabled).type = type
         /\ Fence(type, epoch, generation, enabled).epoch = epoch
         /\ Fence(type, epoch, generation, enabled).generation = generation
         /\ Fence(type, epoch, generation, enabled).enabled = enabled
    /\ \A epoch \in Nat : Message("sync", epoch, None) \in Item
    /\ \A epoch \in Nat, node \in Nodes, type \in Carried \cup {"reply", "dma"} :
         Message(type, epoch, node) \in Item
    /\ \A epoch, generation \in Nat, enabled \in BOOLEAN, type \in {"prepare", "commit"} :
         Fence(type, epoch, generation, enabled) \in Item
  BY DEF Message, Fence, Item, Messages, Fences, Carried

\* What is known of any message.
LEMMA ItemFacts ==
    ASSUME NEW x \in Item
    PROVE  /\ x.epoch \in Nat
           /\ x.type \in Carried => x.node \in Nodes
           /\ x.type \in {"prepare", "commit"} => x \in Fences
           /\ \A t : x \in Of(t) <=> x.type = t
           /\ \A t, n : x \in For(t, n) => x.type = t /\ x.node = n
           /\ \A t \in Carried, n \in Nodes : x.type = t /\ x.node = n => x \in For(t, n)
  BY DEF Item, Messages, Fences, Carried, Of, For

\* Membership in a ring.
LEMMA RingFacts ==
    ASSUME NEW types, NEW r
    PROVE  r \in Ring(types) <=> r \in Seq(Item) /\ \A i \in DOMAIN r : r[i].type \in types
  <1> DEFINE S == {m \in Item : m.type \in types}
  <1>1. Ring(types) = Seq(S)
    BY DEF Ring, Item
  <1>2. ASSUME r \in Seq(S)
        PROVE  r \in Seq(Item) /\ \A i \in DOMAIN r : r[i].type \in types
    <2>1. \A i \in 1 .. Len(r) : r[i] \in S
      BY <1>2, ElementOfSeq
    <2> QED
      BY <1>2, <2>1
  <1>3. ASSUME r \in Seq(Item), \A i \in DOMAIN r : r[i].type \in types
        PROVE  r \in Seq(S)
    <2>1. \A i \in 1 .. Len(r) : r[i] \in S
      BY <1>3, ElementOfSeq
    <2> QED
      BY <1>3, <2>1
  <1> QED
    BY <1>1, <1>2, <1>3

\* Reading the head of a ring.
LEMMA Reading ==
    ASSUME NEW types, NEW r \in Ring(types), r # <<>>
    PROVE  /\ Head(r) \in Item /\ Head(r).type \in types /\ Tail(r) \in Ring(types)
           /\ \A t : /\ Num(r, Of(t)) = Num(Tail(r), Of(t)) + One(Head(r).type = t)
                     /\ Num(r, Of(t)) \in Nat /\ Num(Tail(r), Of(t)) \in Nat
           /\ \A t \in Carried, n \in Nodes :
                /\ Num(r, For(t, n)) = Num(Tail(r), For(t, n)) + One(Head(r).type = t /\ Head(r).node = n)
                /\ Num(r, For(t, n)) \in Nat /\ Num(Tail(r), For(t, n)) \in Nat
  <1>1. r \in Seq(Item) /\ \A i \in DOMAIN r : r[i].type \in types
    BY RingFacts
  <1>2. Head(r) = r[1] /\ 1 \in DOMAIN r /\ Tail(r) \in Seq(Item) /\ Head(r) \in Item
    BY <1>1
  <1>3. \A i \in DOMAIN Tail(r) : i + 1 \in DOMAIN r /\ Tail(r)[i] = r[i + 1]
    BY <1>1
  <1>4. Tail(r) \in Ring(types)
    BY <1>1, <1>2, <1>3, RingFacts
  <1>5. ASSUME NEW t
        PROVE  /\ Num(r, Of(t)) = Num(Tail(r), Of(t)) + One(Head(r).type = t)
               /\ Num(r, Of(t)) \in Nat /\ Num(Tail(r), Of(t)) \in Nat
    <2>1. Num(r, Of(t)) = Num(Tail(r), Of(t)) + One(Head(r) \in Of(t))
      BY <1>1, NumTail
    <2>2. Num(r, Of(t)) \in Nat /\ Num(Tail(r), Of(t)) \in Nat
      BY <1>1, <1>2, NumType
    <2>3. Head(r) \in Of(t) <=> Head(r).type = t
      BY <1>2, ItemFacts
    <2> QED
      BY <2>1, <2>2, <2>3 DEF One
  <1>6. ASSUME NEW t \in Carried, NEW n \in Nodes
        PROVE  /\ Num(r, For(t, n)) = Num(Tail(r), For(t, n)) + One(Head(r).type = t /\ Head(r).node = n)
               /\ Num(r, For(t, n)) \in Nat /\ Num(Tail(r), For(t, n)) \in Nat
    <2>1. Num(r, For(t, n)) = Num(Tail(r), For(t, n)) + One(Head(r) \in For(t, n))
      BY <1>1, NumTail
    <2>2. Num(r, For(t, n)) \in Nat /\ Num(Tail(r), For(t, n)) \in Nat
      BY <1>1, <1>2, NumType
    <2>3. Head(r) \in For(t, n) <=> Head(r).type = t /\ Head(r).node = n
      BY <1>2, ItemFacts
    <2> QED
      BY <2>1, <2>2, <2>3 DEF One
  <1> QED
    BY <1>1, <1>2, <1>4, <1>5, <1>6

\* Sending a message on a ring.
LEMMA Sending ==
    ASSUME NEW types, NEW r \in Ring(types), NEW x \in Item, x.type \in types
    PROVE  /\ Append(r, x) \in Ring(types) /\ Append(r, x) # <<>>
           /\ \A t : /\ Num(Append(r, x), Of(t)) = Num(r, Of(t)) + One(x.type = t)
                     /\ Num(r, Of(t)) \in Nat
           /\ \A t \in Carried, n \in Nodes :
                /\ Num(Append(r, x), For(t, n)) = Num(r, For(t, n)) + One(x.type = t /\ x.node = n)
                /\ Num(r, For(t, n)) \in Nat
  <1>1. r \in Seq(Item) /\ \A i \in DOMAIN r : r[i].type \in types
    BY RingFacts
  <1>2. Append(r, x) \in Seq(Item) /\ Append(r, x) # <<>>
    BY <1>1, AppendProperties
  <1>3. \A i \in DOMAIN Append(r, x) : Append(r, x)[i] = x \/ (i \in DOMAIN r /\ Append(r, x)[i] = r[i])
    BY <1>1
  <1>4. Append(r, x) \in Ring(types)
    BY <1>1, <1>2, <1>3, RingFacts
  <1>5. ASSUME NEW t
        PROVE  /\ Num(Append(r, x), Of(t)) = Num(r, Of(t)) + One(x.type = t)
               /\ Num(r, Of(t)) \in Nat
    <2>1. Num(Append(r, x), Of(t)) = Num(r, Of(t)) + One(x \in Of(t))
      BY <1>1, NumAppend
    <2>2. Num(r, Of(t)) \in Nat
      BY <1>1, NumType
    <2>3. x \in Of(t) <=> x.type = t
      BY ItemFacts
    <2> QED
      BY <2>1, <2>2, <2>3 DEF One
  <1>6. ASSUME NEW t \in Carried, NEW n \in Nodes
        PROVE  /\ Num(Append(r, x), For(t, n)) = Num(r, For(t, n)) + One(x.type = t /\ x.node = n)
               /\ Num(r, For(t, n)) \in Nat
    <2>1. Num(Append(r, x), For(t, n)) = Num(r, For(t, n)) + One(x \in For(t, n))
      BY <1>1, NumAppend
    <2>2. Num(r, For(t, n)) \in Nat
      BY <1>1, NumType
    <2>3. x \in For(t, n) <=> x.type = t /\ x.node = n
      BY ItemFacts
    <2> QED
      BY <2>1, <2>2, <2>3 DEF One
  <1> QED
    BY <1>2, <1>4, <1>5, <1>6

\* Sending SYNC, or nothing.
LEMMA SyncsSent ==
    ASSUME NEW types, NEW r \in Ring(types), NEW epoch \in Nat
    PROVE  r \o <<Message("sync", epoch, None)>> = Append(r, Message("sync", epoch, None)) /\ r \o <<>> = r
  <1>1. r \in Seq(Item) /\ Message("sync", epoch, None) \in Item
    BY RingFacts, Built
  <1> QED
    BY <1>1

----------------------------------------------------------------------------
(* The invariant *)

\* Where the fence of a node is: PREPARE on its way to the device, at the device until it has
\* drained, on its way to the network, at the network; COMMIT on its way to the device, at the
\* device, on its way to the adapter, at the adapter.
Asked(n) == Num(toDevice[n], Of("prepare"))
Draining(n) == One(device[n].prepare # NoMessage /\ ~device[n].forwarded)
Forwarding(n) == Num(toNetwork[n], Of("prepare"))
Prepared(n) == One(network.prepared[n] # NoMessage)
Answered(n) == Num(fromNetwork[n], Of("commit"))
Committing(n) == One(device[n].commit # NoMessage)
Passed(n) == Num(toHost[n], Of("commit"))
Finishing(n) == One(adapter[n].commit # NoMessage)
Preparing(n) == Asked(n) + Draining(n) + Forwarding(n) + Prepared(n)
Agreed(n) == Answered(n) + Committing(n) + Passed(n) + Finishing(n)

\* A suspended guest's fence is in exactly one place, and a party's epoch tells which parties
\* COMMIT has passed.
Phase(n) ==
    /\ Preparing(n) + Agreed(n) = One(adapter[n].pending)
    /\ One(device[n].forwarded) = Forwarding(n) + Prepared(n) + Answered(n) + Committing(n)
    /\ One(device[n].prepare # NoMessage) = One(device[n].forwarded) + Draining(n)
    /\ network.epoch = device[n].epoch + Answered(n) + Committing(n)
    /\ device[n].epoch = adapter[n].epoch + Passed(n) + Finishing(n)

Odd(epoch) == epoch % 2 = 1
\* The one fence of an epoch.
TheFence(type, epoch) == Fence(type, epoch, epoch + 1, ~Odd(epoch))

\* Fences are numbered by epochs, and odd epochs are synchronised.
Fields(n) ==
    /\ adapter[n].active = Odd(adapter[n].epoch) /\ lifecycle[n] = adapter[n].active
    /\ adapter[n].generation = adapter[n].epoch + One(adapter[n].pending)
    /\ device[n].active = Odd(device[n].epoch)
    /\ device[n].generation = device[n].epoch + One(device[n].prepare # NoMessage)
    /\ device[n].prepare \in {NoMessage, TheFence("prepare", device[n].epoch)}
    /\ device[n].commit \in {NoMessage, TheFence("commit", device[n].epoch)}
    /\ adapter[n].commit \in {NoMessage, TheFence("commit", adapter[n].epoch)}
    /\ network.prepared[n] \in {NoMessage, TheFence("prepare", network.epoch)}

\* A ring towards the network holds messages of one epoch, and SYNC only before PREPARE.
Upward(r, epoch) ==
    \A i \in DOMAIN r :
        /\ r[i].epoch = epoch
        /\ r[i].type = "prepare" =>
             r[i] = TheFence("prepare", epoch) /\ \A j \in DOMAIN r : r[j].type = "sync" => j < i
\* In a ring from the network COMMIT separates two epochs, with only SYNC left before it.
Downward(r, epoch, committed) ==
    \A i \in DOMAIN r :
        IF r[i].type = "commit"
        THEN /\ r[i] = TheFence("commit", epoch)
             /\ \A j \in DOMAIN r : /\ j < i => r[j].type = "sync" /\ r[j].epoch = epoch
                                    /\ j > i => r[j].epoch = epoch + 1
        ELSE Num(r, Of("commit")) = 0 => r[i].epoch = epoch + committed

Rings(n) ==
    /\ Upward(toDevice[n], adapter[n].epoch)
    /\ adapter[n].pending /\ Asked(n) = 0 => Num(toDevice[n], Of("sync")) = 0
    /\ Passed(n) + Finishing(n) = 1 => toDevice[n] = <<>> /\ dma[n] = 0
    /\ Upward(toNetwork[n], device[n].epoch)
    /\ device[n].forwarded /\ Forwarding(n) = 0 => Num(toNetwork[n], Of("sync")) = 0
    /\ Answered(n) + Committing(n) = 1 => toNetwork[n] = <<>> /\ device[n].accesses = 0
    /\ Downward(fromNetwork[n], device[n].epoch, Committing(n))
    /\ Downward(toHost[n], adapter[n].epoch, Finishing(n))

\* Every access to the host is on its way there, in progress or on its way back.
Accesses(n) ==
    /\ device[n].accesses = Len(device[n].serving)
    /\ device[n].accesses = Num(toHost[n], Of("dma")) + dma[n] + Num(toDevice[n], Of("reply"))

\* Where an operation of m is: requested, at the network, on its way to the target, executed
\* there, answered, back at the network, on its way to the source, completed there.
Target(m) == device[m].target
Requested(m) == Num(toNetwork[m], For("request", m))
Sent(m) == One(network.tasks[m] = "new")
Arriving(m) == Num(fromNetwork[Target(m)], For("execute", m))
Executed(m) == Num(device[Target(m)].serving, {m})
Responding(m) == Num(toNetwork[Target(m)], For("response", m))
Returned(m) == One(network.tasks[m] = "executed")
Completing(m) == Num(fromNetwork[m], For("complete", m))
Completed(m) == Num(device[m].serving, {m})
Outward(m) == Requested(m) + Sent(m) + Arriving(m) + Executed(m)
Homeward(m) == Responding(m) + Returned(m) + Completing(m) + Completed(m)

\* Nothing of an operation is anywhere but at its source and its target.
Elsewhere(m, k) ==
    /\ k # Target(m) => /\ Num(fromNetwork[k], For("execute", m)) = 0
                        /\ Num(toNetwork[k], For("response", m)) = 0
                        /\ k # m => Num(device[k].serving, {m}) = 0
    /\ k # m => /\ Num(toNetwork[k], For("request", m)) = 0
                /\ Num(fromNetwork[k], For("complete", m)) = 0

\* An operation is in exactly one place, and a device that has forwarded PREPARE has none.
Work(m) ==
    /\ Outward(m) + Homeward(m) = One(device[m].op # None)
    /\ One(network.tasks[m] = "executing") = Arriving(m) + Executed(m) + Responding(m)
    /\ device[m].op # None => Target(m) # m
    /\ device[m].forwarded => device[m].op = None
    /\ \A k \in Nodes : Elsewhere(m, k)

\* s is what is left of p.
LeftOf(s, p) == Len(s) <= Len(p) /\ \A i \in 1 .. Len(s) : s[i] = p[Len(p) - Len(s) + i]

\* How many steps of a benchmark come after its first fence.
Inside(kind) == CASE kind = "bandwidth" -> 2 [] kind = "latency" -> 4 [] kind = "plain" -> 0
\* The guest is in the benchmark of its session.
Testing(n) == program[n] # <<>> /\ LeftOf(program[n], Benchmark(session.benchmark))
\* What a guest's place in its program says of its CPU.
InO3(n) ==
    IF session.benchmark = "latency" /\ Len(program[n]) \in {2, 3} THEN ~session.auto
    ELSE session.auto /\ (adapter[n].active \/ adapter[n].pending)

Programs(n) ==
    /\ LeftOf(program[n], Benchmark(session.benchmark)) \/ LeftOf(program[n], Checkpointing)
    /\ adapter[n].active <=> Testing(n) /\ Len(program[n]) <= Inside(session.benchmark)
    /\ adapter[n].pending => program[n] # <<>> /\ Head(program[n]) = "fence"
    /\ switched[n] = InO3(n) /\ cpu[n] = IF InO3(n) THEN "o3" ELSE "boot"
    /\ loop[n] = "ended" => ~adapter[n].pending

\* A device that has saved its state has drained, and every gem5 has written its checkpoint.
Stopped(n) == device[n].state = "saved" => Quiescent(n) /\ \A m \in Nodes : loop[m] = "ended"

FenceInv ==
    /\ network.active = Odd(network.epoch)
    /\ \A n \in Nodes : Phase(n) /\ Fields(n) /\ Rings(n)
WorkInv == \A n \in Nodes : Accesses(n) /\ Work(n)
GuestInv == \A n \in Nodes : Programs(n)
StopInv == \A n \in Nodes : Stopped(n)

IInv == TypeOK /\ NoFenceFailure /\ FenceInv /\ WorkInv /\ GuestInv /\ StopInv
----------------------------------------------------------------------------
(* Order in rings *)

\* The fence of an epoch as a message.
LEMMA TheFenceFacts ==
    ASSUME NEW e \in Nat, NEW type \in {"prepare", "commit"}
    PROVE  /\ TheFence(type, e) \in Item /\ TheFence(type, e) \in Fences
           /\ TheFence(type, e).type = type /\ TheFence(type, e).epoch = e
           /\ TheFence(type, e).generation = e + 1 /\ TheFence(type, e).enabled = (~Odd(e))
           /\ TheFence(type, e) # NoMessage
  <1>1. (~Odd(e)) \in BOOLEAN /\ e + 1 \in Nat
    BY DEF Odd
  <1>2. TheFence(type, e) \in Fences
    BY <1>1 DEF TheFence, Fence, Fences
  <1>3. TheFence(type, e).type # None /\ NoMessage.type = None
    BY DEF TheFence, Fence, None, NoMessage
  <1> QED
    BY <1>2, <1>3 DEF TheFence, Fence, Item

\* Reading and sending on a ring towards the network.
LEMMA UpwardReading ==
    ASSUME NEW r \in Seq(Item), r # <<>>, NEW e, Upward(r, e)
    PROVE  /\ Head(r).epoch = e /\ Upward(Tail(r), e)
           /\ Head(r).type = "prepare" =>
                Head(r) = TheFence("prepare", e) /\ \A j \in DOMAIN Tail(r) : Tail(r)[j].type # "sync"
  <1>1. Head(r) = r[1] /\ 1 \in DOMAIN r
    OBVIOUS
  <1>2. \A i \in DOMAIN Tail(r) : i \in Nat /\ i + 1 \in DOMAIN r /\ Tail(r)[i] = r[i + 1]
    OBVIOUS
  <1>3. Upward(Tail(r), e)
    BY <1>2 DEF Upward
  <1> QED
    BY <1>1, <1>2, <1>3 DEF Upward

\* What may be sent in a ring towards the network.
LEMMA UpwardSending ==
    ASSUME NEW r \in Seq(Item), NEW e, Upward(r, e), NEW x \in Item, x.epoch = e,
           \/ x.type \notin {"prepare", "sync"}
           \/ x = TheFence("prepare", e)
           \/ r = <<>> /\ x.type = "sync"
    PROVE  Upward(Append(r, x), e)
  <1>1. \A i \in DOMAIN Append(r, x) :
          IF i = Len(r) + 1 THEN Append(r, x)[i] = x ELSE i \in DOMAIN r /\ Append(r, x)[i] = r[i]
    BY AppendProperties
  <1>2. \A i \in DOMAIN r : i \in Nat /\ i < Len(r) + 1
    OBVIOUS
  <1>3. Len(r) + 1 \in DOMAIN Append(r, x)
    BY AppendProperties
  <1>4. r = <<>> => DOMAIN r = {}
    OBVIOUS
  <1>5. TheFence("prepare", e).type = "prepare"
    BY Built DEF TheFence
  <1> QED
    BY <1>1, <1>2, <1>3, <1>4, <1>5 DEF Upward

\* Reading from a ring from the network, up to COMMIT,
LEMMA DownwardReading ==
    ASSUME NEW r \in Seq(Item), r # <<>>, NEW e \in Nat, NEW c, Downward(r, e, c),
           Head(r).type # "commit"
    PROVE  /\ Downward(Tail(r), e, c)
           /\ Num(r, Of("commit")) = 0 => Head(r).epoch = e + c
           /\ Num(r, Of("commit")) # 0 => Head(r).type = "sync" /\ Head(r).epoch = e
  <1>1. Head(r) = r[1] /\ 1 \in DOMAIN r /\ Head(r) \in Item /\ Tail(r) \in Seq(Item)
    OBVIOUS
  <1>2. \A i \in DOMAIN Tail(r) : i \in Nat /\ i + 1 \in DOMAIN r /\ Tail(r)[i] = r[i + 1]
    OBVIOUS
  <1>3. Num(Tail(r), Of("commit")) = Num(r, Of("commit"))
    <2>1. Num(r, Of("commit")) = Num(Tail(r), Of("commit")) + One(Head(r) \in Of("commit"))
      BY NumTail
    <2>2. Head(r) \notin Of("commit")
      BY <1>1, ItemFacts
    <2>3. Num(Tail(r), Of("commit")) \in Nat
      BY <1>1, NumType
    <2> QED
      BY <2>1, <2>2, <2>3 DEF One
  <1>4. Downward(Tail(r), e, c)
    BY <1>2, <1>3 DEF Downward
  <1>5. ASSUME Num(r, Of("commit")) # 0
        PROVE  Head(r).type = "sync" /\ Head(r).epoch = e
    <2>1. PICK i \in DOMAIN r : r[i] \in Of("commit")
      BY <1>5, NumZero
    <2>2. r[i].type = "commit" /\ i \in Nat /\ i > 1
      BY <2>1, <1>1 DEF Of
    <2> QED
      BY <2>2, <1>1 DEF Downward
  <1> QED
    BY <1>1, <1>4, <1>5 DEF Downward

\* and COMMIT itself, after which the rest of the ring is of the next epoch.
LEMMA DownwardCommit ==
    ASSUME NEW r \in Seq(Item), r # <<>>, NEW e \in Nat, NEW c, Downward(r, e, c),
           Head(r).type = "commit", Num(r, Of("commit")) = 1
    PROVE  /\ Head(r) = TheFence("commit", e) /\ Num(Tail(r), Of("commit")) = 0
           /\ Downward(Tail(r), e, 1) /\ Head(r).epoch = e
  <1>1. Head(r) = r[1] /\ 1 \in DOMAIN r /\ Head(r) \in Item /\ Tail(r) \in Seq(Item)
    OBVIOUS
  <1>2. \A i \in DOMAIN Tail(r) : i \in Nat /\ i + 1 \in DOMAIN r /\ i + 1 > 1 /\ Tail(r)[i] = r[i + 1]
    OBVIOUS
  <1>3. Num(Tail(r), Of("commit")) = 0
    <2>1. Num(r, Of("commit")) = Num(Tail(r), Of("commit")) + One(Head(r) \in Of("commit"))
      BY NumTail
    <2>2. Head(r) \in Of("commit")
      BY <1>1, ItemFacts
    <2>3. Num(Tail(r), Of("commit")) \in Nat
      BY <1>1, NumType
    <2> QED
      BY <2>1, <2>2, <2>3 DEF One
  <1>4. \A i \in DOMAIN Tail(r) : Tail(r)[i].type # "commit"
    <2>1. \A i \in DOMAIN Tail(r) : Tail(r)[i] \notin Of("commit")
      BY <1>1, <1>3, NumZero
    <2>2. \A i \in DOMAIN Tail(r) : Tail(r)[i] \in Item
      BY <1>1
    <2> QED
      BY <2>1, <2>2, ItemFacts
  <1>5. Head(r) = TheFence("commit", e)
    BY <1>1 DEF Downward
  <1>6. \A i \in DOMAIN Tail(r) : Tail(r)[i].epoch = e + 1
    BY <1>1, <1>2 DEF Downward
  <1>7. Downward(Tail(r), e, 1)
    BY <1>4, <1>6 DEF Downward
  <1> QED
    BY <1>3, <1>5, <1>7, Built DEF TheFence

\* When the reader has passed COMMIT its epoch is the sender's.
LEMMA DownwardPassed ==
    ASSUME NEW r \in Seq(Item), NEW e \in Nat, Downward(r, e, 1), Num(r, Of("commit")) = 0
    PROVE  Downward(r, e + 1, 0)
  <1>1. \A i \in DOMAIN r : r[i].type # "commit"
    <2>1. \A i \in DOMAIN r : r[i] \notin Of("commit") /\ r[i] \in Item
      BY NumZero
    <2> QED
      BY <2>1, ItemFacts
  <1> QED
    BY <1>1 DEF Downward

\* Sending a message of the sender's epoch,
LEMMA DownwardSending ==
    ASSUME NEW r \in Seq(Item), NEW e \in Nat, NEW c \in {0, 1}, Downward(r, e, c), NEW x \in Item,
           x.type # "commit", Num(r, Of("commit")) + c \in {0, 1}, x.epoch = e + Num(r, Of("commit")) + c
    PROVE  Downward(Append(r, x), e, c)
  <1> DEFINE k == Num(r, Of("commit"))
  <1>1. \A i \in DOMAIN Append(r, x) :
          IF i = Len(r) + 1 THEN Append(r, x)[i] = x ELSE i \in DOMAIN r /\ Append(r, x)[i] = r[i]
    BY AppendProperties
  <1>2. \A i \in DOMAIN r : i \in Nat /\ i < Len(r) + 1
    OBVIOUS
  <1>3. k \in Nat
    BY NumType
  <1>4. Num(Append(r, x), Of("commit")) = k
    <2>1. Num(Append(r, x), Of("commit")) = k + One(x \in Of("commit"))
      BY NumAppend
    <2>2. x \notin Of("commit")
      BY ItemFacts
    <2> QED
      BY <2>1, <2>2, <1>3 DEF One
  <1>5. ASSUME NEW i \in DOMAIN r, r[i].type = "commit"
        PROVE  k = 1 /\ c = 0
    <2>1. r[i] \in Of("commit")
      BY <1>5, ItemFacts
    <2>2. k # 0
      BY <2>1, NumZero
    <2> QED
      BY <2>2, <1>3
  <1>6. k = 0 => x.epoch = e + c
    BY <1>3
  <1>7. k = 1 /\ c = 0 => x.epoch = e + 1
    OBVIOUS
  <1>8. k = Num(r, Of("commit"))
    OBVIOUS
  <1> HIDE DEF k
  <1> SUFFICES ASSUME NEW i \in DOMAIN Append(r, x)
               PROVE  IF Append(r, x)[i].type = "commit"
                      THEN /\ Append(r, x)[i] = TheFence("commit", e)
                           /\ \A j \in DOMAIN Append(r, x) :
                                /\ j < i => Append(r, x)[j].type = "sync" /\ Append(r, x)[j].epoch = e
                                /\ j > i => Append(r, x)[j].epoch = e + 1
                      ELSE k = 0 => Append(r, x)[i].epoch = e + c
    BY <1>4 DEF Downward
  <1>9. CASE i = Len(r) + 1
    BY <1>9, <1>1, <1>6
  <1>10. CASE i # Len(r) + 1 /\ Append(r, x)[i].type = "commit"
    <2>1. i \in DOMAIN r /\ Append(r, x)[i] = r[i]
      BY <1>10, <1>1
    <2>2. /\ r[i] = TheFence("commit", e)
          /\ \A j \in DOMAIN r : /\ j < i => r[j].type = "sync" /\ r[j].epoch = e
                                 /\ j > i => r[j].epoch = e + 1
      BY <2>1, <1>10 DEF Downward
    <2>3. x.epoch = e + 1
      BY <2>1, <1>10, <1>5, <1>7
    <2> QED
      BY <2>1, <2>2, <2>3, <1>1, <1>2, <1>10
  <1>11. CASE i # Len(r) + 1 /\ Append(r, x)[i].type # "commit"
    <2>1. i \in DOMAIN r /\ Append(r, x)[i] = r[i]
      BY <1>11, <1>1
    <2> QED
      BY <2>1, <1>11, <1>8 DEF Downward
  <1> QED
    BY <1>9, <1>10, <1>11

\* and sending COMMIT, behind which the new epoch begins.
LEMMA DownwardCommitting ==
    ASSUME NEW r \in Seq(Item), NEW e \in Nat,
           \A i \in DOMAIN r : r[i].type = "sync" /\ r[i].epoch = e
    PROVE  Downward(Append(r, TheFence("commit", e)), e, 0)
  <1> DEFINE x == TheFence("commit", e)
  <1>1. x \in Item /\ x.type = "commit"
    BY TheFenceFacts
  <1>2. \A i \in DOMAIN Append(r, x) :
          IF i = Len(r) + 1 THEN Append(r, x)[i] = x ELSE i \in DOMAIN r /\ Append(r, x)[i] = r[i]
    BY <1>1, AppendProperties
  <1>3. \A i \in DOMAIN r : i \in Nat /\ i < Len(r) + 1
    OBVIOUS
  <1>4. Num(Append(r, x), Of("commit")) # 0
    <2>1. Append(r, x) \in Seq(Item) /\ Len(r) + 1 \in DOMAIN Append(r, x)
      BY <1>1, AppendProperties
    <2>2. Append(r, x)[Len(r) + 1] \in Of("commit")
      BY <2>1, <1>1, <1>2, ItemFacts
    <2> QED
      BY <2>1, <2>2, NumZero
  <1> HIDE DEF x
  <1>5. \A i \in DOMAIN Append(r, x) : Append(r, x)[i].type = "commit" => i = Len(r) + 1
    BY <1>2, <1>3
  <1>6. \A i \in DOMAIN Append(r, x) : i = Len(r) + 1 => Append(r, x)[i] = x
    BY <1>2
  <1>7. \A j \in DOMAIN Append(r, x) :
          /\ j < Len(r) + 1 => Append(r, x)[j].type = "sync" /\ Append(r, x)[j].epoch = e
          /\ ~(j > Len(r) + 1)
    <2>1. \A j \in DOMAIN Append(r, x) : j \in 1 .. Len(r) + 1
      BY <1>1, AppendProperties
    <2> QED
      BY <2>1, <1>2, <1>3
  <1> QED
    BY <1>4, <1>5, <1>6, <1>7 DEF Downward, x

----------------------------------------------------------------------------
(* Types *)

\* Counts of a ring, and of the nodes a device serves.
LEMMA RingCounts ==
    ASSUME NEW types, NEW r \in Ring(types)
    PROVE  /\ r \in Seq(Item) /\ \A i \in DOMAIN r : r[i] \in Item /\ r[i].type \in types
           /\ \A t : Num(r, Of(t)) \in Nat
           /\ \A t, n : Num(r, For(t, n)) \in Nat
           /\ \A t : Num(r, Of(t)) = 0 <=> \A i \in DOMAIN r : r[i].type # t
  <1>1. r \in Seq(Item) /\ \A i \in DOMAIN r : r[i].type \in types
    BY RingFacts
  <1>2. \A i \in DOMAIN r : r[i] \in Item
    BY <1>1
  <1>3. \A S : Num(r, S) \in Nat
    BY <1>1, NumType
  <1>4. ASSUME NEW t
        PROVE  Num(r, Of(t)) = 0 <=> \A i \in DOMAIN r : r[i].type # t
    <2>1. Num(r, Of(t)) = 0 <=> \A i \in DOMAIN r : r[i] \notin Of(t)
      BY <1>1, NumZero
    <2>2. \A i \in DOMAIN r : r[i] \in Of(t) <=> r[i].type = t
      BY <1>2, ItemFacts
    <2> QED
      BY <2>1, <2>2
  <1> QED
    BY <1>1, <1>2, <1>3, <1>4

\* How often a node is among those a device serves.
LEMMA ServingCounts ==
    ASSUME NEW s \in Seq(Nodes)
    PROVE  /\ \A m : Num(s, {m}) \in Nat
           /\ \A x \in Nodes : \A m :
                /\ Append(s, x) \in Seq(Nodes) /\ Len(Append(s, x)) = Len(s) + 1
                /\ Num(Append(s, x), {m}) = Num(s, {m}) + One(x = m)
           /\ s # <<>> => /\ Tail(s) \in Seq(Nodes) /\ Head(s) \in Nodes /\ Len(Tail(s)) = Len(s) - 1
                          /\ \A m : /\ Num(s, {m}) = Num(Tail(s), {m}) + One(Head(s) = m)
                                    /\ Num(Tail(s), {m}) \in Nat
  <1>1. \A m : Num(s, {m}) \in Nat
    BY NumType
  <1>2. ASSUME NEW x \in Nodes, NEW m
        PROVE  /\ Append(s, x) \in Seq(Nodes) /\ Len(Append(s, x)) = Len(s) + 1
               /\ Num(Append(s, x), {m}) = Num(s, {m}) + One(x = m)
    <2>1. Num(Append(s, x), {m}) = Num(s, {m}) + One(x \in {m})
      BY NumAppend
    <2> QED
      BY <2>1, AppendProperties DEF One
  <1>3. ASSUME s # <<>>
        PROVE  /\ Tail(s) \in Seq(Nodes) /\ Head(s) \in Nodes /\ Len(Tail(s)) = Len(s) - 1
               /\ \A m : /\ Num(s, {m}) = Num(Tail(s), {m}) + One(Head(s) = m)
                         /\ Num(Tail(s), {m}) \in Nat
    <2>1. Tail(s) \in Seq(Nodes) /\ Head(s) \in Nodes /\ Len(Tail(s)) = Len(s) - 1
      BY <1>3
    <2>2. ASSUME NEW m
          PROVE  /\ Num(s, {m}) = Num(Tail(s), {m}) + One(Head(s) = m)
                 /\ Num(Tail(s), {m}) \in Nat
      <3>1. Num(s, {m}) = Num(Tail(s), {m}) + One(Head(s) \in {m})
        BY <1>3, NumTail
      <3>2. Num(Tail(s), {m}) \in Nat
        BY <2>1, NumType
      <3> QED
        BY <3>1, <3>2 DEF One
    <2> QED
      BY <2>1, <2>2
  <1> QED
    BY <1>1, <1>2, <1>3

\* The commands are sequences of steps.
LEMMA BenchmarkSteps ==
    ASSUME NEW kind \in {"bandwidth", "latency", "plain"}
    PROVE  Benchmark(kind) \in Seq(Steps) /\ Checkpointing \in Seq(Steps)
  <1>1. {"work", "fence", "loop", "switchcpu", "checkpoint"} \subseteq Steps
    BY DEF Steps
  <1>2. Bandwidth \in Seq(Steps)
    BY <1>1 DEF Bandwidth
  <1>3. Latency \in Seq(Steps)
    BY <1>1 DEF Latency
  <1>4. Plain \in Seq(Steps) /\ Checkpointing \in Seq(Steps)
    BY <1>1 DEF Plain, Checkpointing
  <1> QED
    BY <1>2, <1>3, <1>4 DEF Benchmark

----------------------------------------------------------------------------
(* What is known of one node *)

\* The types of a node's state.
LEMMA Local ==
    ASSUME TypeOK, NEW n \in Nodes
    PROVE  /\ adapter[n] \in Adapters /\ device[n] \in Devices /\ dma[n] \in Nat
           /\ adapter[n].pending \in BOOLEAN /\ adapter[n].commit \in Held /\ adapter[n].generation \in Nat
           /\ adapter[n].active \in BOOLEAN /\ adapter[n].epoch \in Nat
           /\ device[n].op \in {None, "issued"} /\ device[n].target \in Nodes
           /\ device[n].accesses \in Nat /\ device[n].serving \in Seq(Nodes)
           /\ device[n].prepare \in Held /\ device[n].generation \in Nat /\ device[n].forwarded \in BOOLEAN
           /\ device[n].commit \in Held /\ device[n].active \in BOOLEAN /\ device[n].epoch \in Nat
           /\ network.epoch \in Nat /\ network.active \in BOOLEAN /\ network.prepared[n] \in Held
           /\ network.tasks[n] \in {None, "new", "executing", "executed"}
           /\ toDevice[n] \in Ring({"sync", "reply", "prepare"})
           /\ toHost[n] \in Ring({"sync", "dma", "commit"})
           /\ toNetwork[n] \in Ring({"sync", "request", "response", "prepare"})
           /\ fromNetwork[n] \in Ring({"sync", "execute", "complete", "commit"})
  <1>1. adapter[n] \in Adapters /\ device[n] \in Devices /\ dma[n] \in Nat
    BY DEF TypeOK, ProcessType
  <1>2. /\ toDevice[n] \in Ring({"sync", "reply", "prepare"})
        /\ toHost[n] \in Ring({"sync", "dma", "commit"})
        /\ toNetwork[n] \in Ring({"sync", "request", "response", "prepare"})
        /\ fromNetwork[n] \in Ring({"sync", "execute", "complete", "commit"})
    BY DEF TypeOK, RingType
  <1>3. network \in Networks
    BY DEF TypeOK, ProcessType
  <1>4. /\ network.epoch \in Nat /\ network.active \in BOOLEAN /\ network.prepared[n] \in Held
        /\ network.tasks[n] \in {None, "new", "executing", "executed"}
    BY <1>3 DEF Networks
  <1> QED
    BY <1>1, <1>2, <1>4 DEF Adapters, Devices

\* The counts of a node are natural numbers.
LEMMA Counts ==
    ASSUME TypeOK, NEW n \in Nodes
    PROVE  /\ Asked(n) \in Nat /\ Draining(n) \in {0, 1} /\ Forwarding(n) \in Nat /\ Prepared(n) \in {0, 1}
           /\ Answered(n) \in Nat /\ Committing(n) \in {0, 1} /\ Passed(n) \in Nat /\ Finishing(n) \in {0, 1}
           /\ Num(toDevice[n], Of("reply")) \in Nat /\ Num(toHost[n], Of("dma")) \in Nat
           /\ Num(toDevice[n], Of("sync")) \in Nat /\ Num(toNetwork[n], Of("sync")) \in Nat
  BY Local, RingCounts DEF Asked, Draining, Forwarding, Prepared, Answered, Committing, Passed, Finishing, One

\* A fence is in one place, and there is none while the guest is not suspended.
LEMMA OneFence ==
    ASSUME TypeOK, NEW n \in Nodes, Phase(n)
    PROVE  \/ Asked(n) = 0 /\ Draining(n) = 0 /\ Forwarding(n) = 0 /\ Prepared(n) = 0 /\ Answered(n) = 0
              /\ Committing(n) = 0 /\ Passed(n) = 0 /\ Finishing(n) = 0 /\ ~adapter[n].pending
           \/ Asked(n) = 1 /\ Draining(n) = 0 /\ Forwarding(n) = 0 /\ Prepared(n) = 0 /\ Answered(n) = 0
              /\ Committing(n) = 0 /\ Passed(n) = 0 /\ Finishing(n) = 0 /\ adapter[n].pending
           \/ Asked(n) = 0 /\ Draining(n) = 1 /\ Forwarding(n) = 0 /\ Prepared(n) = 0 /\ Answered(n) = 0
              /\ Committing(n) = 0 /\ Passed(n) = 0 /\ Finishing(n) = 0 /\ adapter[n].pending
           \/ Asked(n) = 0 /\ Draining(n) = 0 /\ Forwarding(n) = 1 /\ Prepared(n) = 0 /\ Answered(n) = 0
              /\ Committing(n) = 0 /\ Passed(n) = 0 /\ Finishing(n) = 0 /\ adapter[n].pending
           \/ Asked(n) = 0 /\ Draining(n) = 0 /\ Forwarding(n) = 0 /\ Prepared(n) = 1 /\ Answered(n) = 0
              /\ Committing(n) = 0 /\ Passed(n) = 0 /\ Finishing(n) = 0 /\ adapter[n].pending
           \/ Asked(n) = 0 /\ Draining(n) = 0 /\ Forwarding(n) = 0 /\ Prepared(n) = 0 /\ Answered(n) = 1
              /\ Committing(n) = 0 /\ Passed(n) = 0 /\ Finishing(n) = 0 /\ adapter[n].pending
           \/ Asked(n) = 0 /\ Draining(n) = 0 /\ Forwarding(n) = 0 /\ Prepared(n) = 0 /\ Answered(n) = 0
              /\ Committing(n) = 1 /\ Passed(n) = 0 /\ Finishing(n) = 0 /\ adapter[n].pending
           \/ Asked(n) = 0 /\ Draining(n) = 0 /\ Forwarding(n) = 0 /\ Prepared(n) = 0 /\ Answered(n) = 0
              /\ Committing(n) = 0 /\ Passed(n) = 1 /\ Finishing(n) = 0 /\ adapter[n].pending
           \/ Asked(n) = 0 /\ Draining(n) = 0 /\ Forwarding(n) = 0 /\ Prepared(n) = 0 /\ Answered(n) = 0
              /\ Committing(n) = 0 /\ Passed(n) = 0 /\ Finishing(n) = 1 /\ adapter[n].pending
  <1>1. /\ Asked(n) \in Nat /\ Draining(n) \in Nat /\ Forwarding(n) \in Nat /\ Prepared(n) \in Nat
        /\ Answered(n) \in Nat /\ Committing(n) \in Nat /\ Passed(n) \in Nat /\ Finishing(n) \in Nat
    BY Counts
  <1>2. One(adapter[n].pending) \in {0, 1} /\ (One(adapter[n].pending) = 1 <=> adapter[n].pending)
    BY Local DEF One
  <1>3. Preparing(n) \in Nat /\ Agreed(n) \in Nat
    BY <1>1 DEF Preparing, Agreed
  <1>4. Preparing(n) + Agreed(n) = One(adapter[n].pending)
    BY DEF Phase
  <1>5. \/ Preparing(n) = 0 /\ Agreed(n) = 0 /\ ~adapter[n].pending
        \/ Preparing(n) = 1 /\ Agreed(n) = 0 /\ adapter[n].pending
        \/ Preparing(n) = 0 /\ Agreed(n) = 1 /\ adapter[n].pending
    BY <1>2, <1>3, <1>4
  <1>6. /\ Preparing(n) = 0 => Asked(n) = 0 /\ Draining(n) = 0 /\ Forwarding(n) = 0 /\ Prepared(n) = 0
        /\ Preparing(n) = 1 =>
             \/ Asked(n) = 1 /\ Draining(n) = 0 /\ Forwarding(n) = 0 /\ Prepared(n) = 0
             \/ Asked(n) = 0 /\ Draining(n) = 1 /\ Forwarding(n) = 0 /\ Prepared(n) = 0
             \/ Asked(n) = 0 /\ Draining(n) = 0 /\ Forwarding(n) = 1 /\ Prepared(n) = 0
             \/ Asked(n) = 0 /\ Draining(n) = 0 /\ Forwarding(n) = 0 /\ Prepared(n) = 1
    BY <1>1 DEF Preparing
  <1>7. /\ Agreed(n) = 0 => Answered(n) = 0 /\ Committing(n) = 0 /\ Passed(n) = 0 /\ Finishing(n) = 0
        /\ Agreed(n) = 1 =>
             \/ Answered(n) = 1 /\ Committing(n) = 0 /\ Passed(n) = 0 /\ Finishing(n) = 0
             \/ Answered(n) = 0 /\ Committing(n) = 1 /\ Passed(n) = 0 /\ Finishing(n) = 0
             \/ Answered(n) = 0 /\ Committing(n) = 0 /\ Passed(n) = 1 /\ Finishing(n) = 0
             \/ Answered(n) = 0 /\ Committing(n) = 0 /\ Passed(n) = 0 /\ Finishing(n) = 1
    BY <1>1 DEF Agreed
  <1> QED
    BY <1>5, <1>6, <1>7

\* No fence is anywhere while the guest is not suspended.
LEMMA NoFence ==
    ASSUME TypeOK, NEW n \in Nodes, Phase(n), ~adapter[n].pending
    PROVE  /\ Asked(n) = 0 /\ Draining(n) = 0 /\ Forwarding(n) = 0 /\ Prepared(n) = 0 /\ Answered(n) = 0
           /\ Committing(n) = 0 /\ Passed(n) = 0 /\ Finishing(n) = 0
  BY OneFence

\* Nothing that FenceInv says of k changes.
SameFence(k) ==
    /\ adapter'[k] = adapter[k] /\ lifecycle'[k] = lifecycle[k] /\ dma'[k] = dma[k]
    /\ network'.epoch = network.epoch /\ network'.prepared[k] = network.prepared[k]
    /\ device'[k].prepare = device[k].prepare /\ device'[k].generation = device[k].generation
    /\ device'[k].forwarded = device[k].forwarded /\ device'[k].commit = device[k].commit
    /\ device'[k].active = device[k].active /\ device'[k].epoch = device[k].epoch
    /\ device'[k].accesses = device[k].accesses
    /\ toDevice'[k] = toDevice[k] /\ toHost'[k] = toHost[k]
    /\ toNetwork'[k] = toNetwork[k] /\ fromNetwork'[k] = fromNetwork[k]

\* The fence of a node whose state is the same.
LEMMA FenceKept ==
    ASSUME NEW k \in Nodes, Phase(k), Fields(k), Rings(k), SameFence(k)
    PROVE  Phase(k)' /\ Fields(k)' /\ Rings(k)'
  <1>1. Phase(k)'
    BY DEF SameFence, Phase, Preparing, Agreed, Asked, Draining, Forwarding, Prepared, Answered, Committing,
           Passed, Finishing
  <1>2. Fields(k)'
    BY DEF SameFence, Fields
  <1>3. Rings(k)'
    BY DEF SameFence, Rings, Asked, Forwarding, Answered, Committing, Passed, Finishing
  <1> QED
    BY <1>1, <1>2, <1>3

\* A step changes the fence of at most one node.
LEMMA FenceAtOne ==
    ASSUME FenceInv, NEW n \in Nodes, \A k \in Nodes : k # n => SameFence(k),
           network'.active = network.active, network'.epoch = network.epoch,
           Phase(n)', Fields(n)', Rings(n)'
    PROVE  FenceInv'
  <1>1. ASSUME NEW k \in Nodes
        PROVE  Phase(k)' /\ Fields(k)' /\ Rings(k)'
    <2>1. CASE k = n
      BY <2>1
    <2>2. CASE k # n
      BY <2>2, FenceKept DEF FenceInv
    <2> QED
      BY <2>1, <2>2
  <1> QED
    BY <1>1 DEF FenceInv

----------------------------------------------------------------------------
(* A guest enters or leaves a fence *)

\* A guest at a fence: PREPARE is sent, and the count moves from nowhere to Asked.
LEMMA FenceExitStep ==
    ASSUME IInv, NEW n \in Nodes, FenceExit(n)
    PROVE  FenceInv'
  <1> DEFINE e == adapter[n].epoch
             x == TheFence("prepare", e)
  <1>1. ~adapter[n].pending /\ Phase(n) /\ Fields(n) /\ Rings(n) /\ TypeOK
    BY DEF FenceExit, At, Running, IInv, FenceInv
  <1>2. e \in Nat /\ x \in Item /\ x.type = "prepare" /\ x.epoch = e
    BY <1>1, Local, TheFenceFacts
  <1>3. /\ adapter' = [adapter EXCEPT ![n] = Begins(adapter[n])]
        /\ Begins(adapter[n]).epoch = e /\ Begins(adapter[n]).pending /\ Begins(adapter[n]).commit = NoMessage
        /\ Begins(adapter[n]).active = adapter[n].active /\ Begins(adapter[n]).generation = e + 1
    BY <1>1, Local DEF FenceExit, Begins, Fields, One, Adapters
  <1>4. toDevice' = [toDevice EXCEPT ![n] = Append(toDevice[n], x)]
    BY <1>1, <1>3 DEF FenceExit, Fields, TheFence
  <1>5. UNCHANGED <<lifecycle, dma, device, network, toHost, toNetwork, fromNetwork>>
    BY DEF FenceExit
  <1>6. /\ Asked(n) = 0 /\ Draining(n) = 0 /\ Forwarding(n) = 0 /\ Prepared(n) = 0 /\ Answered(n) = 0
        /\ Committing(n) = 0 /\ Passed(n) = 0 /\ Finishing(n) = 0
    BY <1>1, NoFence
  <1>7. toDevice[n] \in Seq(Item)
    BY <1>1, Local, RingCounts
  <1>8. adapter'[n] = Begins(adapter[n]) /\ toDevice'[n] = Append(toDevice[n], x)
    BY <1>1, <1>3, <1>4 DEF TypeOK, ProcessType, RingType
  <1>9. \A k \in Nodes : k # n => adapter'[k] = adapter[k] /\ toDevice'[k] = toDevice[k]
    BY <1>1, <1>3, <1>4 DEF TypeOK, ProcessType, RingType
  <1>10. Num(toDevice'[n], Of("prepare")) = 1
    <2>1. Num(Append(toDevice[n], x), Of("prepare")) = Num(toDevice[n], Of("prepare")) + One(x.type = "prepare")
      BY <1>1, <1>2, Local, Sending
    <2> QED
      BY <2>1, <1>2, <1>6, <1>8 DEF Asked, One
  <1>11. Upward(toDevice'[n], e)
    BY <1>1, <1>2, <1>7, <1>8, UpwardSending DEF Rings
  <1> HIDE DEF e, x
  <1>12. Phase(n)'
    BY <1>1, <1>3, <1>5, <1>6, <1>8, <1>10
       DEF Phase, Preparing, Agreed, Asked, Draining, Forwarding, Prepared, Answered, Committing, Passed, Finishing, One, e
  <1>13. Fields(n)'
    BY <1>1, <1>3, <1>5, <1>8 DEF Fields, One, e
  <1>14. Rings(n)'
    BY <1>1, <1>3, <1>5, <1>6, <1>8, <1>10, <1>11
       DEF Rings, Asked, Forwarding, Answered, Committing, Passed, Finishing, One, e
  <1>15. \A k \in Nodes : k # n => SameFence(k)
    BY <1>5, <1>9 DEF SameFence
  <1> QED
    BY <1>5, <1>12, <1>13, <1>14, <1>15, FenceAtOne DEF IInv

\* COMMIT wakes the guest: device, network and adapter are in the next epoch.
LEMMA CommitExitStep ==
    ASSUME IInv, NEW n \in Nodes, CommitExit(n)
    PROVE  /\ FenceInv' /\ dma[n] = 0 /\ toDevice[n] = <<>>
           /\ adapter[n].commit.enabled = ~adapter[n].active
  <1> DEFINE e == adapter[n].epoch
             a == [adapter[n] EXCEPT !.pending = FALSE, !.active = ~adapter[n].active, !.epoch = e + 1,
                                     !.commit = NoMessage]
             x == Message("sync", e + 1, None)
  <1>1. adapter[n].pending /\ adapter[n].commit # NoMessage /\ Phase(n) /\ Fields(n) /\ Rings(n) /\ TypeOK
    BY DEF CommitExit, IInv, FenceInv
  <1>2. e \in Nat /\ adapter[n].active \in BOOLEAN /\ (~adapter[n].active) \in BOOLEAN /\ e + 1 \in Nat
    BY <1>1, Local
  <1>3. /\ Asked(n) = 0 /\ Draining(n) = 0 /\ Forwarding(n) = 0 /\ Prepared(n) = 0 /\ Answered(n) = 0
        /\ Committing(n) = 0 /\ Passed(n) = 0 /\ Finishing(n) = 1
    <2>1. Finishing(n) = 1
      BY <1>1 DEF Finishing, One
    <2> QED
      BY <1>1, <2>1, OneFence
  <1>4. toDevice[n] = <<>> /\ dma[n] = 0
    BY <1>1, <1>3 DEF Rings
  <1>5. adapter[n].commit.enabled = ~adapter[n].active
    BY <1>1, <1>2, TheFenceFacts DEF Fields
  <1>6. /\ adapter' = [adapter EXCEPT ![n] = a]
        /\ lifecycle' = [lifecycle EXCEPT ![n] = ~lifecycle[n]]
        /\ toDevice' = [toDevice EXCEPT ![n] = toDevice[n] \o Syncs(~adapter[n].active, e + 1)]
        /\ UNCHANGED <<dma, device, network, toHost, toNetwork, fromNetwork>>
    BY DEF CommitExit
  <1>7. /\ adapter'[n] = a /\ lifecycle'[n] = ~lifecycle[n]
        /\ toDevice'[n] = toDevice[n] \o Syncs(~adapter[n].active, e + 1)
        /\ \A k \in Nodes : k # n => /\ adapter'[k] = adapter[k] /\ lifecycle'[k] = lifecycle[k]
                                     /\ toDevice'[k] = toDevice[k]
    BY <1>1, <1>4, <1>6 DEF TypeOK, GuestType, ProcessType, RingType
  <1>8. /\ a.pending = FALSE /\ a.active = ~adapter[n].active /\ a.epoch = e + 1 /\ a.commit = NoMessage
        /\ a.generation = adapter[n].generation
    BY <1>1, Local DEF Adapters
  <1>9. x \in Item /\ x.type = "sync" /\ x.epoch = e + 1 /\ x.type \in {"sync", "reply", "prepare"}
    BY <1>2, Built
  <1>10. toDevice[n] \in Ring({"sync", "reply", "prepare"})
    BY <1>1, Local
  <1>11. toDevice'[n] = IF ~adapter[n].active THEN Append(toDevice[n], x) ELSE toDevice[n]
    BY <1>2, <1>7, <1>10, SyncsSent DEF Syncs
  <1>12. Num(toDevice'[n], Of("prepare")) = 0
    <2>1. Num(Append(toDevice[n], x), Of("prepare")) = Num(toDevice[n], Of("prepare")) + One(x.type = "prepare")
      BY <1>9, <1>10, Sending
    <2> QED
      BY <2>1, <1>3, <1>9, <1>11 DEF Asked, One
  <1>13. Upward(toDevice'[n], e + 1)
    <2>1. Upward(toDevice[n], e + 1) /\ toDevice[n] \in Seq(Item)
      BY <1>4 DEF Upward
    <2>2. Upward(Append(toDevice[n], x), e + 1)
      BY <2>1, <1>4, <1>9, UpwardSending
    <2> QED
      BY <2>1, <2>2, <1>11
  <1>14. Downward(toHost[n], e + 1, 0)
    <2>1. toHost[n] \in Seq(Item)
      BY <1>1, Local, RingCounts
    <2> QED
      BY <2>1, <1>1, <1>2, <1>3, DownwardPassed DEF Rings, Passed
  <1>15. Odd(e + 1) = ~Odd(e)
    BY <1>2 DEF Odd
  <1> HIDE DEF a, e, x
  <1>16. Phase(n)'
    BY <1>1, <1>2, <1>3, <1>6, <1>7, <1>8, <1>12
       DEF Phase, Preparing, Agreed, Asked, Draining, Forwarding, Prepared, Answered, Committing, Passed,
           Finishing, One, e
  <1>17. Fields(n)'
    BY <1>1, <1>2, <1>6, <1>7, <1>8, <1>15 DEF Fields, One, e
  <1>18. Rings(n)'
    BY <1>1, <1>3, <1>6, <1>7, <1>8, <1>13, <1>14
       DEF Rings, Asked, Forwarding, Answered, Committing, Passed, Finishing, One
  <1>19. \A k \in Nodes : k # n => SameFence(k)
    BY <1>6, <1>7 DEF SameFence
  <1>20. FenceInv'
    BY <1>6, <1>16, <1>17, <1>18, <1>19, FenceAtOne DEF IInv
  <1> QED
    BY <1>4, <1>5, <1>20

----------------------------------------------------------------------------
(* The host adapter *)

\* A reply changes nothing of a fence, and is sent only before the device has committed.
LEMMA ReplySent ==
    ASSUME IInv, NEW n \in Nodes, Passed(n) = 0, Finishing(n) = 0,
           toDevice' = [toDevice EXCEPT ![n] = Append(@, Message("reply", adapter[n].epoch, n))],
           toHost'[n] \in Ring({"sync", "dma", "commit"}),
           Num(toHost'[n], Of("commit")) = 0, Downward(toHost'[n], adapter[n].epoch, 0),
           \A k \in Nodes : k # n => dma'[k] = dma[k] /\ toHost'[k] = toHost[k],
           UNCHANGED <<adapter, lifecycle, device, network, toNetwork, fromNetwork>>
    PROVE  FenceInv'
  <1> DEFINE x == Message("reply", adapter[n].epoch, n)
  <1>1. Phase(n) /\ Fields(n) /\ Rings(n) /\ TypeOK
    BY DEF IInv, FenceInv
  <1>2. x \in Item /\ x.type = "reply" /\ x.epoch = adapter[n].epoch /\ x.type \in {"sync", "reply", "prepare"}
    BY <1>1, Local, Built
  <1>3. toDevice[n] \in Ring({"sync", "reply", "prepare"}) /\ toDevice[n] \in Seq(Item)
    BY <1>1, Local, RingCounts
  <1>4. /\ toDevice'[n] = Append(toDevice[n], x)
        /\ \A k \in Nodes : k # n => toDevice'[k] = toDevice[k]
    BY <1>1 DEF TypeOK, RingType
  <1>5. /\ Num(toDevice'[n], Of("prepare")) = Num(toDevice[n], Of("prepare"))
        /\ Num(toDevice'[n], Of("sync")) = Num(toDevice[n], Of("sync"))
    <2>1. \A t : /\ Num(Append(toDevice[n], x), Of(t)) = Num(toDevice[n], Of(t)) + One(x.type = t)
                 /\ Num(toDevice[n], Of(t)) \in Nat
      BY <1>2, <1>3, Sending
    <2> QED
      BY <2>1, <1>2, <1>4 DEF One
  <1>6. Upward(toDevice'[n], adapter[n].epoch)
    BY <1>1, <1>2, <1>3, <1>4, UpwardSending DEF Rings
  <1> HIDE DEF x
  <1>7. Phase(n)'
    BY <1>1, <1>5
       DEF Phase, Preparing, Agreed, Asked, Draining, Forwarding, Prepared, Answered, Committing, Passed,
           Finishing
  <1>8. Fields(n)'
    BY <1>1 DEF Fields
  <1>9. Rings(n)'
    BY <1>1, <1>5, <1>6 DEF Rings, Asked, Forwarding, Answered, Committing, Passed, Finishing
  <1>10. \A k \in Nodes : k # n => SameFence(k)
    BY <1>4 DEF SameFence
  <1> QED
    BY <1>7, <1>8, <1>9, <1>10, FenceAtOne DEF IInv

\* A timing access completes: a reply follows, of the epoch of the adapter.
LEMMA DmaDoneStep ==
    ASSUME IInv, NEW n \in Nodes, DmaDone(n)
    PROVE  FenceInv'
  <1>1. Phase(n) /\ Rings(n) /\ TypeOK
    BY DEF IInv, FenceInv
  <1>2. dma[n] > 0 /\ dma' = [dma EXCEPT ![n] = @ - 1] /\ dma[n] \in Nat
    BY <1>1, Local DEF DmaDone
  <1>3. Passed(n) = 0 /\ Finishing(n) = 0
    BY <1>1, <1>2, OneFence DEF Rings
  <1>4. \A k \in Nodes : k # n => dma'[k] = dma[k]
    BY <1>1, <1>2 DEF TypeOK, ProcessType
  <1>5. /\ toDevice' = [toDevice EXCEPT ![n] = Append(@, Message("reply", adapter[n].epoch, n))]
        /\ UNCHANGED <<adapter, lifecycle, device, network, toHost, toNetwork, fromNetwork>>
    BY DEF DmaDone, loopVars
  <1>6. toHost'[n] \in Ring({"sync", "dma", "commit"}) /\ Downward(toHost'[n], adapter[n].epoch, 0)
    BY <1>1, <1>3, <1>5, Local DEF Rings
  <1> QED
    BY <1>3, <1>4, <1>5, <1>6, ReplySent DEF Passed

\* The adapter takes an access, SYNC, or COMMIT, which moves from Passed to Finishing.
LEMMA HostServiceStep ==
    ASSUME IInv, NEW n \in Nodes, HostService(n)
    PROVE  FenceInv'
  <1> DEFINE m == Head(toHost[n])
             e == adapter[n].epoch
             rest == Tail(toHost[n])
  <1>1. Phase(n) /\ Fields(n) /\ Rings(n) /\ TypeOK
    BY DEF IInv, FenceInv
  <1>2. /\ toHost[n] # <<>> /\ adapter[n].commit = NoMessage
        /\ toHost' = [toHost EXCEPT ![n] = rest]
        /\ UNCHANGED <<lifecycle, device, network, toNetwork, fromNetwork>>
    BY DEF HostService, HostReads, loopVars
  <1>3. /\ toHost'[n] = rest
        /\ \A k \in Nodes : k # n => toHost'[k] = toHost[k]
    BY <1>1, <1>2 DEF TypeOK, RingType
  <1>4. toHost[n] \in Ring({"sync", "dma", "commit"}) /\ toHost[n] \in Seq(Item) /\ e \in Nat
    BY <1>1, Local, RingCounts
  <1>5. Finishing(n) = 0
    BY <1>2 DEF Finishing, One
  <1>6. /\ Passed(n) = Num(rest, Of("commit")) + One(m.type = "commit")
        /\ Num(rest, Of("commit")) \in Nat /\ rest \in Ring({"sync", "dma", "commit"})
    BY <1>2, <1>4, Reading DEF Passed
  <1>7. Downward(toHost[n], e, 0)
    BY <1>1, <1>5 DEF Rings
  <1>8. CASE m.type = "dma"
    <2>1. Downward(rest, e, 0) /\ Passed(n) = 0
      <3>1. m.type # "commit" /\ m.type # "sync"
        BY <1>8
      <3> QED
        BY <3>1, <1>2, <1>4, <1>7, DownwardReading DEF Passed
    <2>2. Num(rest, Of("commit")) = 0
      BY <2>1, <1>6, <1>8 DEF One
    <2>3. UNCHANGED adapter
      BY <1>8 DEF HostService
    <2>4. CASE cpu[n] = "boot"
      <3>1. toDevice' = [toDevice EXCEPT ![n] = Append(@, Message("reply", adapter[n].epoch, n))] /\ UNCHANGED dma
        BY <1>8, <2>4 DEF HostService
      <3> QED
        BY <3>1, <2>1, <2>2, <2>3, <1>2, <1>3, <1>5, <1>6, ReplySent
    <2>5. CASE cpu[n] # "boot"
      <3>1. dma' = [dma EXCEPT ![n] = @ + 1] /\ UNCHANGED toDevice
        BY <1>8, <2>5 DEF HostService
      <3>2. \A k \in Nodes : k # n => dma'[k] = dma[k]
        BY <3>1, <1>1 DEF TypeOK, ProcessType
      <3> HIDE DEF m, e, rest
      <3>3. Phase(n)'
        BY <1>1, <1>2, <1>3, <2>1, <2>2, <2>3, <3>1
           DEF Phase, Preparing, Agreed, Asked, Draining, Forwarding, Prepared, Answered, Committing, Passed,
               Finishing
      <3>4. Fields(n)'
        BY <1>1, <1>2, <2>3 DEF Fields
      <3>5. Rings(n)'
        BY <1>1, <1>2, <1>3, <1>5, <2>1, <2>2, <2>3, <3>1
           DEF Rings, Asked, Forwarding, Answered, Committing, Passed, Finishing, e
      <3>6. \A k \in Nodes : k # n => SameFence(k)
        BY <1>2, <1>3, <2>3, <3>1, <3>2 DEF SameFence
      <3> QED
        BY <1>2, <3>3, <3>4, <3>5, <3>6, FenceAtOne DEF IInv
    <2> QED
      BY <2>4, <2>5
  <1>9. CASE m.type = "commit"
    <2>1. Passed(n) = 1 /\ Num(rest, Of("commit")) = 0
      BY <1>1, <1>6, <1>9, OneFence DEF One
    <2>2. /\ Asked(n) = 0 /\ Draining(n) = 0 /\ Forwarding(n) = 0 /\ Prepared(n) = 0 /\ Answered(n) = 0
          /\ Committing(n) = 0 /\ Finishing(n) = 0 /\ adapter[n].pending
      BY <1>1, <2>1, OneFence
    <2>3. m = TheFence("commit", e) /\ Downward(rest, e, 1)
      BY <1>2, <1>4, <1>7, <1>9, <2>1, DownwardCommit DEF Passed
    <2>4. m.generation = adapter[n].generation /\ m # NoMessage
      <3>1. TheFence("commit", e).generation = e + 1 /\ TheFence("commit", e) # NoMessage
        BY <1>4, TheFenceFacts
      <3>2. adapter[n].generation = e + 1
        BY <1>1, <2>2 DEF Fields, One
      <3> QED
        BY <2>3, <3>1, <3>2
    <2>5. adapter' = [adapter EXCEPT ![n].commit = m] /\ UNCHANGED <<dma, toDevice>>
      BY <1>9, <2>4 DEF HostService
    <2>6. /\ \A k \in Nodes : k # n => adapter'[k] = adapter[k]
          /\ adapter'[n].commit = m /\ adapter'[n].pending = adapter[n].pending
          /\ adapter'[n].epoch = e /\ adapter'[n].active = adapter[n].active
          /\ adapter'[n].generation = adapter[n].generation
      <3>1. adapter[n] \in Adapters /\ adapter \in [Nodes -> Adapters]
        BY <1>1, Local DEF TypeOK, ProcessType
      <3> QED
        BY <2>5, <3>1 DEF Adapters
    <2> HIDE DEF m, rest
    <2>7. Phase(n)'
      <3>1. /\ Asked(n)' = 0 /\ Draining(n)' = 0 /\ Forwarding(n)' = 0 /\ Prepared(n)' = 0
            /\ Answered(n)' = 0 /\ Committing(n)' = 0
        BY <1>2, <2>2, <2>5 DEF Asked, Draining, Forwarding, Prepared, Answered, Committing
      <3>2. Passed(n)' = 0 /\ Finishing(n)' = 1
        BY <1>3, <2>1, <2>4, <2>6 DEF Passed, Finishing, One
      <3>3. Preparing(n)' = 0 /\ Agreed(n)' = 1
        BY <3>1, <3>2 DEF Preparing, Agreed
      <3>4. /\ One(device[n].forwarded) = 0 /\ One(device[n].prepare # NoMessage) = 0
            /\ network.epoch = device[n].epoch /\ device[n].epoch = e + 1
        BY <1>1, <1>4, <2>1, <2>2, Local DEF Phase
      <3> QED
        BY <1>2, <1>4, <2>2, <2>6, <3>1, <3>2, <3>3, <3>4, Local DEF Phase, One
    <2>8. Fields(n)'
      BY <1>1, <1>2, <2>3, <2>6 DEF Fields
    <2>9. Rings(n)'
      BY <1>1, <1>2, <1>3, <2>1, <2>2, <2>3, <2>4, <2>5, <2>6
         DEF Rings, Asked, Forwarding, Answered, Committing, Passed, Finishing, One
    <2>10. \A k \in Nodes : k # n => SameFence(k)
      BY <1>2, <1>3, <2>5, <2>6 DEF SameFence
    <2> QED
      BY <1>2, <2>7, <2>8, <2>9, <2>10, FenceAtOne DEF IInv
  <1>10. CASE m.type = "sync"
    <2>1. UNCHANGED <<adapter, dma, toDevice>>
      BY <1>10 DEF HostService
    <2>2. Num(rest, Of("commit")) = Passed(n)
      BY <1>6, <1>10 DEF One
    <2>3. Downward(rest, e, 0)
      BY <1>2, <1>4, <1>7, <1>10, DownwardReading
    <2> HIDE DEF m, rest
    <2>4. Phase(n)'
      BY <1>1, <1>2, <1>3, <2>1, <2>2
         DEF Phase, Preparing, Agreed, Asked, Draining, Forwarding, Prepared, Answered, Committing, Passed,
             Finishing
    <2>5. Fields(n)'
      BY <1>1, <1>2, <2>1 DEF Fields
    <2>6. Rings(n)'
      BY <1>1, <1>2, <1>3, <1>5, <2>1, <2>2, <2>3
         DEF Rings, Asked, Forwarding, Answered, Committing, Passed, Finishing
    <2>7. \A k \in Nodes : k # n => SameFence(k)
      BY <1>2, <1>3, <2>1 DEF SameFence
    <2> QED
      BY <1>2, <2>4, <2>5, <2>6, <2>7, FenceAtOne DEF IInv
  <1> QED
    BY <1>8, <1>9, <1>10 DEF HostService

----------------------------------------------------------------------------
(* The device *)

\* Work sent to the network changes nothing of a fence, and is sent only before the network
\* has committed.
LEMMA WorkSent ==
    ASSUME IInv, NEW n \in Nodes, Answered(n) = 0, Committing(n) = 0,
           NEW x \in Item, x.type \in {"request", "response"}, x.epoch = device[n].epoch,
           toNetwork' = [toNetwork EXCEPT ![n] = Append(@, x)],
           Num(toDevice'[n], Of("prepare")) = Asked(n),
           Num(toDevice'[n], Of("sync")) = Num(toDevice[n], Of("sync")),
           Upward(toDevice'[n], adapter[n].epoch), toDevice'[n] = <<>> \/ Passed(n) + Finishing(n) # 1,
           device'[n].prepare = device[n].prepare, device'[n].generation = device[n].generation,
           device'[n].forwarded = device[n].forwarded, device'[n].commit = device[n].commit,
           device'[n].active = device[n].active, device'[n].epoch = device[n].epoch,
           \A k \in Nodes : k # n => device'[k] = device[k] /\ toDevice'[k] = toDevice[k],
           UNCHANGED <<adapter, lifecycle, dma, network, toHost, fromNetwork>>
    PROVE  FenceInv'
  <1>1. Phase(n) /\ Fields(n) /\ Rings(n) /\ TypeOK
    BY DEF IInv, FenceInv
  <1>2. x.type \in {"sync", "request", "response", "prepare"}
    OBVIOUS
  <1>3. toNetwork[n] \in Ring({"sync", "request", "response", "prepare"}) /\ toNetwork[n] \in Seq(Item)
    BY <1>1, Local, RingCounts
  <1>4. /\ toNetwork'[n] = Append(toNetwork[n], x)
        /\ \A k \in Nodes : k # n => toNetwork'[k] = toNetwork[k]
    BY <1>1 DEF TypeOK, RingType
  <1>5. /\ Num(toNetwork'[n], Of("prepare")) = Num(toNetwork[n], Of("prepare"))
        /\ Num(toNetwork'[n], Of("sync")) = Num(toNetwork[n], Of("sync"))
    <2>1. \A t : /\ Num(Append(toNetwork[n], x), Of(t)) = Num(toNetwork[n], Of(t)) + One(x.type = t)
                 /\ Num(toNetwork[n], Of(t)) \in Nat
      BY <1>2, <1>3, Sending
    <2> QED
      BY <2>1, <1>4 DEF One
  <1>6. Upward(toNetwork'[n], device[n].epoch)
    BY <1>1, <1>3, <1>4, UpwardSending DEF Rings
  <1>7. Phase(n)'
    BY <1>1, <1>5
       DEF Phase, Preparing, Agreed, Asked, Draining, Forwarding, Prepared, Answered, Committing, Passed,
           Finishing
  <1>8. Fields(n)'
    BY <1>1 DEF Fields
  <1>9. Rings(n)'
    BY <1>1, <1>5, <1>6 DEF Rings, Asked, Forwarding, Answered, Committing, Passed, Finishing
  <1>10. \A k \in Nodes : k # n => SameFence(k)
    BY <1>4 DEF SameFence
  <1> QED
    BY <1>7, <1>8, <1>9, <1>10, FenceAtOne DEF IInv

\* An operation is posted: its guest is not suspended, so PREPARE has not been forwarded.
LEMMA PostStep ==
    ASSUME IInv, NEW n \in Nodes, NEW target \in Nodes, Post(n, target)
    PROVE  FenceInv' /\ Forwarding(n) = 0 /\ ~device[n].forwarded
  <1> DEFINE x == Message("request", device[n].epoch, n)
  <1>1. Phase(n) /\ Rings(n) /\ TypeOK /\ ~adapter[n].pending
    BY DEF IInv, FenceInv, Post, At, Running
  <1>2. /\ Answered(n) = 0 /\ Committing(n) = 0 /\ Passed(n) = 0 /\ Finishing(n) = 0 /\ Forwarding(n) = 0
        /\ Prepared(n) = 0
    BY <1>1, NoFence
  <1>3. x \in Item /\ x.type \in {"request", "response"} /\ x.epoch = device[n].epoch
    <2>1. device[n].epoch \in Nat
      BY <1>1, Local
    <2> QED
      BY <2>1, Built DEF Carried
  <1>4. /\ device' = [device EXCEPT ![n].op = "issued", ![n].target = target]
        /\ toNetwork' = [toNetwork EXCEPT ![n] = Append(@, x)]
        /\ UNCHANGED <<adapter, lifecycle, dma, network, toDevice, toHost, fromNetwork>>
    BY DEF Post, loopVars, hostVars
  <1>5. /\ device'[n].prepare = device[n].prepare /\ device'[n].generation = device[n].generation
        /\ device'[n].forwarded = device[n].forwarded /\ device'[n].commit = device[n].commit
        /\ device'[n].active = device[n].active /\ device'[n].epoch = device[n].epoch
        /\ \A k \in Nodes : k # n => device'[k] = device[k]
    <2>1. device \in [Nodes -> Devices] /\ device[n] \in Devices
      BY <1>1, Local DEF TypeOK, ProcessType
    <2> QED
      BY <1>4, <2>1 DEF Devices
  <1>6. ~device[n].forwarded
    BY <1>1, <1>2 DEF Phase, One
  <1> HIDE DEF x
  <1>7. FenceInv'
    BY <1>1, <1>2, <1>3, <1>4, <1>5, WorkSent DEF Rings, Asked
  <1> QED
    BY <1>2, <1>6, <1>7

\* The device takes a reply, SYNC, or PREPARE, which moves from Asked to Draining.
LEMMA DevicePollHostStep ==
    ASSUME IInv, NEW n \in Nodes, DevicePollHost(n)
    PROVE  /\ FenceInv'
           /\ Head(toDevice[n]).type = "prepare" =>
                /\ device' = [device EXCEPT ![n] = [device[n] EXCEPT !.prepare = Head(toDevice[n]),
                                                                     !.generation = device[n].epoch + 1]]
                /\ device[n].prepare = NoMessage /\ ~device[n].forwarded
                /\ Head(toDevice[n]) \in Fences
           /\ Head(toDevice[n]).type = "reply" => Answered(n) = 0 /\ Committing(n) = 0 /\ device[n].serving # <<>>
  <1> DEFINE m == Head(toDevice[n])
             d == device[n]
             rest == Tail(toDevice[n])
  <1>1. Phase(n) /\ Fields(n) /\ Rings(n) /\ TypeOK /\ Accesses(n)
    BY DEF IInv, FenceInv, WorkInv
  <1>2. /\ toDevice[n] # <<>> /\ toDevice' = [toDevice EXCEPT ![n] = rest]
        /\ UNCHANGED <<lifecycle, adapter, dma, network, toHost, fromNetwork>>
    BY DEF DevicePollHost, loopVars, hostVars
  <1>3. /\ toDevice'[n] = rest
        /\ \A k \in Nodes : k # n => toDevice'[k] = toDevice[k]
    BY <1>1, <1>2 DEF TypeOK, RingType
  <1>4. toDevice[n] \in Ring({"sync", "reply", "prepare"}) /\ toDevice[n] \in Seq(Item)
    BY <1>1, Local, RingCounts
  <1>5. /\ rest \in Ring({"sync", "reply", "prepare"}) /\ m.type \in {"sync", "reply", "prepare"}
        /\ \A t : /\ Num(toDevice[n], Of(t)) = Num(rest, Of(t)) + One(m.type = t)
                  /\ Num(toDevice[n], Of(t)) \in Nat /\ Num(rest, Of(t)) \in Nat
    BY <1>2, <1>4, Reading
  <1>6. Passed(n) = 0 /\ Finishing(n) = 0 /\ device[n].epoch = adapter[n].epoch /\ device[n].epoch \in Nat
    <2>1. Passed(n) = 0 /\ Finishing(n) = 0
      BY <1>1, <1>2, OneFence DEF Rings
    <2> QED
      BY <2>1, <1>1, Local DEF Phase
  <1>7. /\ m.epoch = adapter[n].epoch /\ Upward(rest, adapter[n].epoch)
        /\ m.type = "prepare" => /\ m = TheFence("prepare", adapter[n].epoch)
                                 /\ \A j \in DOMAIN rest : rest[j].type # "sync"
    BY <1>1, <1>2, <1>4, UpwardReading DEF Rings
  <1>8. CASE m.type = "prepare"
    <2>1. Asked(n) = 1 /\ Num(rest, Of("prepare")) = 0
      BY <1>1, <1>5, <1>8, OneFence DEF Asked, One
    <2>2. /\ Draining(n) = 0 /\ Forwarding(n) = 0 /\ Prepared(n) = 0 /\ Answered(n) = 0
          /\ Committing(n) = 0 /\ adapter[n].pending
      BY <1>1, <2>1, OneFence
    <2>3. One(device[n].forwarded) = 0 /\ One(device[n].prepare # NoMessage) = 0
      BY <1>1, <2>2 DEF Phase
    <2>4. ~device[n].forwarded /\ device[n].prepare = NoMessage /\ device[n].generation = device[n].epoch
      BY <2>3, <1>1, <1>6 DEF One, Fields
    <2>5. m \in Fences /\ m = TheFence("prepare", d.epoch) /\ m # NoMessage /\ m.generation = d.epoch + 1
      <3>1. PICK e \in Nat : e = d.epoch
        BY <1>6
      <3>2. m = TheFence("prepare", e)
        BY <1>6, <1>7, <1>8, <3>1
      <3>3. TheFence("prepare", e) \in Fences /\ TheFence("prepare", e) # NoMessage
            /\ TheFence("prepare", e).generation = e + 1
        BY ONLY <3>1, TheFenceFacts
      <3> QED
        BY ONLY <3>1, <3>2, <3>3
    <2>6. device' = [device EXCEPT ![n] = [d EXCEPT !.prepare = m, !.generation = d.epoch + 1]]
          /\ UNCHANGED toNetwork
      <3>1. ~(d.prepare # NoMessage \/ m.generation <= d.generation)
        <4>1. PICK e \in Nat : e = d.epoch
          BY <1>6
        <4>2. m.generation = e + 1 /\ d.generation = e /\ d.prepare = NoMessage
          BY <2>4, <2>5, <4>1
        <4>3. ~(e + 1 <= e)
          BY <4>1
        <4> QED
          BY ONLY <4>2, <4>3
      <3>2. /\ device' = [device EXCEPT ![n] =
                 IF d.prepare # NoMessage \/ m.generation <= d.generation THEN [d EXCEPT !.state = "failed"]
                 ELSE [d EXCEPT !.prepare = m, !.generation = m.generation]]
            /\ UNCHANGED toNetwork
        BY <1>8 DEF DevicePollHost
      <3> HIDE DEF d, m
      <3> QED
        BY <2>5, <3>1, <3>2
    <2>7. /\ device'[n].prepare = m /\ device'[n].generation = d.epoch + 1
          /\ device'[n].forwarded = d.forwarded /\ device'[n].commit = d.commit
          /\ device'[n].active = d.active /\ device'[n].epoch = d.epoch /\ device'[n].accesses = d.accesses
          /\ \A k \in Nodes : k # n => device'[k] = device[k]
      <3>1. device \in [Nodes -> Devices] /\ device[n] \in Devices
        BY <1>1, Local DEF TypeOK, ProcessType
      <3> QED
        BY <2>6, <3>1 DEF Devices
    <2>8. Num(rest, Of("sync")) = 0
      BY <1>5, <1>7, <1>8, RingCounts
    <2> HIDE DEF m, rest, d
    <2>9. Phase(n)'
      <3>1. /\ Forwarding(n)' = 0 /\ Prepared(n)' = 0 /\ Answered(n)' = 0 /\ Committing(n)' = 0
            /\ Passed(n)' = 0 /\ Finishing(n)' = 0
        BY <1>2, <1>6, <2>2, <2>6, <2>7 DEF Forwarding, Prepared, Answered, Committing, Passed, Finishing, d
      <3>2. Asked(n)' = 0 /\ Draining(n)' = 1
        BY <1>3, <2>1, <2>4, <2>5, <2>7 DEF Asked, Draining, One, d
      <3>3. Preparing(n)' = 1 /\ Agreed(n)' = 0
        BY <3>1, <3>2 DEF Preparing, Agreed
      <3>4. network.epoch = device[n].epoch
        BY <1>1, <1>6, <2>2, Local DEF Phase
      <3> QED
        BY <1>2, <1>6, <2>2, <2>4, <2>5, <2>7, <3>1, <3>2, <3>3, <3>4 DEF Phase, One, d
    <2>10. Fields(n)'
      BY <1>1, <1>2, <2>5, <2>7 DEF Fields, One, d
    <2>11. Rings(n)'
      BY <1>1, <1>2, <1>3, <1>6, <1>7, <2>1, <2>2, <2>4, <2>6, <2>7, <2>8
         DEF Rings, Asked, Forwarding, Answered, Committing, Passed, Finishing, d
    <2>12. \A k \in Nodes : k # n => SameFence(k)
      BY <1>2, <1>3, <2>6, <2>7 DEF SameFence
    <2>13. FenceInv'
      BY <1>2, <2>9, <2>10, <2>11, <2>12, FenceAtOne DEF IInv
    <2> QED
      BY <1>8, <2>4, <2>5, <2>6, <2>13 DEF m, d
  <1>9. CASE m.type = "reply"
    <2>1. device[n].accesses # 0 /\ device[n].accesses \in Nat /\ device[n].serving \in Seq(Nodes)
      <3>1. Num(toDevice[n], Of("reply")) # 0
        BY <1>5, <1>9 DEF One
      <3> QED
        BY <3>1, <1>1, Local, Counts DEF Accesses
    <2>2. Answered(n) = 0 /\ Committing(n) = 0 /\ device[n].serving # <<>>
      <3>1. Answered(n) + Committing(n) # 1
        BY <2>1, <1>1 DEF Rings
      <3>2. Answered(n) = 0 /\ Committing(n) = 0
        BY <3>1, <1>1, OneFence
      <3>3. Len(device[n].serving) # 0
        BY <2>1, <1>1 DEF Accesses
      <3> QED
        BY <3>2, <3>3
    <2> DEFINE source == Head(d.serving)
               d1 == [d EXCEPT !.accesses = @ - 1, !.serving = Tail(@), !.op = IF source = n THEN None ELSE @]
               x == Message("response", d.epoch, source)
    <2>3. /\ device' = [device EXCEPT ![n] = d1]
          /\ toNetwork' = IF source = n THEN toNetwork ELSE [toNetwork EXCEPT ![n] = Append(@, x)]
      BY <1>9 DEF DevicePollHost
    <2>4. /\ device'[n].prepare = d.prepare /\ device'[n].generation = d.generation
          /\ device'[n].forwarded = d.forwarded /\ device'[n].commit = d.commit
          /\ device'[n].active = d.active /\ device'[n].epoch = d.epoch
          /\ \A k \in Nodes : k # n => device'[k] = device[k]
      <3>1. device \in [Nodes -> Devices] /\ device[n] \in Devices
        BY <1>1, Local DEF TypeOK, ProcessType
      <3> QED
        BY <2>3, <3>1 DEF Devices
    <2>5. x \in Item /\ x.type \in {"request", "response"} /\ x.epoch = device[n].epoch
      <3>1. source \in Nodes
        BY <2>1, <2>2
      <3> QED
        BY <3>1, <1>6, Built DEF Carried
    <2>6. /\ Num(rest, Of("prepare")) = Asked(n) /\ Num(rest, Of("sync")) = Num(toDevice[n], Of("sync"))
      BY <1>5, <1>9 DEF Asked, One
    <2> HIDE DEF m, rest, d, source, x
    <2>7. FenceInv'
      <3>1. CASE source # n
        <4>1. toNetwork' = [toNetwork EXCEPT ![n] = Append(@, x)]
          BY <3>1, <2>3
        <4>2. Num(toDevice'[n], Of("prepare")) = Asked(n) /\ Num(toDevice'[n], Of("sync")) = Num(toDevice[n], Of("sync"))
          BY <1>3, <2>6
        <4>3. Upward(toDevice'[n], adapter[n].epoch) /\ Passed(n) + Finishing(n) # 1
          BY <1>3, <1>6, <1>7
        <4>4. /\ device'[n].prepare = device[n].prepare /\ device'[n].generation = device[n].generation
              /\ device'[n].forwarded = device[n].forwarded /\ device'[n].commit = device[n].commit
              /\ device'[n].active = device[n].active /\ device'[n].epoch = device[n].epoch
          BY <2>4 DEF d
        <4>5. \A k \in Nodes : k # n => device'[k] = device[k] /\ toDevice'[k] = toDevice[k]
          BY <1>3, <2>4
        <4> QED
          BY <4>1, <4>2, <4>3, <4>4, <4>5, <1>2, <2>2, <2>5, WorkSent
      <3>2. CASE source = n
        <4>1. UNCHANGED toNetwork
          BY <3>2, <2>3
        <4>2. Phase(n)'
          BY <1>1, <1>2, <1>3, <2>4, <2>6, <4>1
             DEF Phase, Preparing, Agreed, Asked, Draining, Forwarding, Prepared, Answered, Committing, Passed,
                 Finishing, d
        <4>3. Fields(n)'
          BY <1>1, <1>2, <2>4 DEF Fields, d
        <4>4. Rings(n)'
          BY <1>1, <1>2, <1>3, <1>6, <1>7, <2>2, <2>4, <2>6, <4>1
             DEF Rings, Asked, Forwarding, Answered, Committing, Passed, Finishing, d
        <4>5. \A k \in Nodes : k # n => SameFence(k)
          BY <1>2, <1>3, <2>4, <4>1 DEF SameFence
        <4> QED
          BY <1>2, <4>2, <4>3, <4>4, <4>5, FenceAtOne DEF IInv
      <3> QED
        BY <3>1, <3>2
    <2> QED
      BY <1>9, <2>2, <2>7 DEF m
  <1>10. CASE m.type = "sync"
    <2>1. UNCHANGED <<device, toNetwork>>
      BY <1>10 DEF DevicePollHost
    <2>2. Num(rest, Of("prepare")) = Asked(n)
      BY <1>5, <1>10 DEF Asked, One
    <2>3. Num(toDevice[n], Of("sync")) # 0
      BY <1>5, <1>10 DEF One
    <2> HIDE DEF m, rest, d
    <2>4. Phase(n)'
      BY <1>1, <1>2, <1>3, <2>1, <2>2
         DEF Phase, Preparing, Agreed, Asked, Draining, Forwarding, Prepared, Answered, Committing, Passed,
             Finishing
    <2>5. Fields(n)'
      BY <1>1, <1>2, <2>1 DEF Fields
    <2>6. Rings(n)'
      BY <1>1, <1>2, <1>3, <1>6, <1>7, <2>1, <2>2, <2>3
         DEF Rings, Asked, Forwarding, Answered, Committing, Passed, Finishing
    <2>7. \A k \in Nodes : k # n => SameFence(k)
      BY <1>2, <1>3, <2>1 DEF SameFence
    <2>8. FenceInv'
      BY <1>2, <2>1, <2>4, <2>5, <2>6, <2>7, FenceAtOne DEF IInv
    <2> QED
      BY <1>10, <2>8 DEF m
  <1> QED
    BY <1>5, <1>8, <1>9, <1>10

\* The device takes work, SYNC, or COMMIT, which moves from Answered to Committing.
LEMMA DevicePollNetworkStep ==
    ASSUME IInv, NEW n \in Nodes, DevicePollNetwork(n)
    PROVE  /\ FenceInv'
           /\ Head(fromNetwork[n]).type = "commit" =>
                /\ device' = [device EXCEPT ![n] = [device[n] EXCEPT !.commit = Head(fromNetwork[n])]]
                /\ Head(fromNetwork[n]) \in Fences
           /\ Head(fromNetwork[n]).type \in {"execute", "complete"} => Answered(n) = 0 /\ Committing(n) = 0
  <1> DEFINE m == Head(fromNetwork[n])
             d == device[n]
             rest == Tail(fromNetwork[n])
             types == {"sync", "execute", "complete", "commit"}
  <1>1. Phase(n) /\ Fields(n) /\ Rings(n) /\ TypeOK
    BY DEF IInv, FenceInv
  <1>2. /\ fromNetwork[n] # <<>> /\ d.commit = NoMessage /\ fromNetwork' = [fromNetwork EXCEPT ![n] = rest]
        /\ UNCHANGED <<lifecycle, adapter, dma, network, toDevice, toNetwork>>
    BY DEF DevicePollNetwork, ReadsNetwork, loopVars, hostVars
  <1>3. /\ fromNetwork'[n] = rest
        /\ \A k \in Nodes : k # n => fromNetwork'[k] = fromNetwork[k]
    BY <1>1, <1>2 DEF TypeOK, RingType
  <1>4. fromNetwork[n] \in Ring(types) /\ fromNetwork[n] \in Seq(Item) /\ d.epoch \in Nat /\ d \in Devices
    BY <1>1, Local, RingCounts
  <1>5. Committing(n) = 0
    BY <1>2 DEF Committing, One
  <1>6. /\ Answered(n) = Num(rest, Of("commit")) + One(m.type = "commit") /\ Num(rest, Of("commit")) \in Nat
        /\ rest \in Ring(types) /\ m \in Item /\ m.type \in types
    BY <1>2, <1>4, Reading DEF Answered
  <1>7. Downward(fromNetwork[n], d.epoch, 0)
    BY <1>1, <1>5 DEF Rings
  <1>8. CASE m.type \in {"execute", "complete"}
    <2> DEFINE x == Message("dma", d.epoch, m.node)
               d1 == [d EXCEPT !.accesses = @ + 1, !.serving = Append(@, m.node)]
    <2>1. m.type # "commit" /\ m.type # "sync"
      BY <1>8
    <2>2. Downward(rest, d.epoch, 0) /\ Answered(n) = 0
      BY <2>1, <1>2, <1>4, <1>7, DownwardReading DEF Answered
    <2>3. Num(rest, Of("commit")) = 0
      BY <2>1, <2>2, <1>6 DEF One
    <2>4. /\ device' = [device EXCEPT ![n].accesses = @ + 1, ![n].serving = Append(@, m.node)]
          /\ toHost' = [toHost EXCEPT ![n] = Append(@, x)]
      BY <1>8 DEF DevicePollNetwork, Access
    <2>5. /\ device'[n].prepare = d.prepare /\ device'[n].generation = d.generation
          /\ device'[n].forwarded = d.forwarded /\ device'[n].commit = d.commit
          /\ device'[n].active = d.active /\ device'[n].epoch = d.epoch
          /\ \A k \in Nodes : k # n => device'[k] = device[k] /\ toHost'[k] = toHost[k]
          /\ toHost'[n] = Append(toHost[n], x)
      <3>1. device \in [Nodes -> Devices] /\ DOMAIN toHost = Nodes
        BY <1>1 DEF TypeOK, ProcessType, RingType
      <3> QED
        BY <2>4, <3>1, <1>4 DEF Devices
    <2>6. x \in Item /\ x.type = "dma" /\ x.epoch = d.epoch /\ x.type \in {"sync", "dma", "commit"}
      <3>1. m.node \in Nodes
        BY <1>6, <1>8, ItemFacts DEF Carried
      <3> QED
        BY <3>1, <1>4, Built
    <2>7. toHost[n] \in Ring({"sync", "dma", "commit"}) /\ toHost[n] \in Seq(Item) /\ adapter[n].epoch \in Nat
      BY <1>1, Local, RingCounts
    <2>8. Num(toHost'[n], Of("commit")) = Passed(n)
      <3>1. /\ Num(Append(toHost[n], x), Of("commit")) = Num(toHost[n], Of("commit")) + One(x.type = "commit")
            /\ Num(toHost[n], Of("commit")) \in Nat
        BY <2>6, <2>7, Sending
      <3> QED
        BY <3>1, <2>5, <2>6 DEF Passed, One
    <2>9. Downward(toHost'[n], adapter[n].epoch, Finishing(n))
      <3>1. Finishing(n) \in {0, 1} /\ Passed(n) + Finishing(n) \in {0, 1} /\ Passed(n) \in Nat
        BY <1>1, Counts, OneFence
      <3>2. x.epoch = adapter[n].epoch + Passed(n) + Finishing(n)
        BY <2>6, <1>1 DEF Phase
      <3>3. Downward(toHost[n], adapter[n].epoch, Finishing(n)) /\ Passed(n) = Num(toHost[n], Of("commit"))
        BY <1>1 DEF Rings, Passed
      <3>4. x.type # "commit"
        BY <2>6
      <3> HIDE DEF x
      <3>5. Downward(Append(toHost[n], x), adapter[n].epoch, Finishing(n))
        BY <2>6, <2>7, <3>1, <3>2, <3>3, <3>4, DownwardSending
      <3> QED
        BY <3>5, <2>5
    <2> HIDE DEF m, rest, d, x, types
    <2>10. Phase(n)'
      BY <1>1, <1>2, <1>3, <2>2, <2>3, <2>5, <2>8
         DEF Phase, Preparing, Agreed, Asked, Draining, Forwarding, Prepared, Answered, Committing, Passed,
             Finishing, d
    <2>11. Fields(n)'
      BY <1>1, <1>2, <2>5 DEF Fields, d
    <2>12. Rings(n)'
      BY <1>1, <1>2, <1>3, <1>5, <2>2, <2>3, <2>5, <2>8, <2>9
         DEF Rings, Asked, Forwarding, Answered, Committing, Passed, Finishing, d
    <2>13. \A k \in Nodes : k # n => SameFence(k)
      BY <1>2, <1>3, <2>5 DEF SameFence
    <2>14. FenceInv'
      BY <1>2, <2>10, <2>11, <2>12, <2>13, FenceAtOne DEF IInv
    <2>15. m.type # "commit"
      BY <2>1
    <2> QED
      BY <1>5, <2>2, <2>14, <2>15 DEF m
  <1>9. CASE m.type = "commit"
    <2>1. Answered(n) = 1 /\ Num(rest, Of("commit")) = 0
      BY <1>1, <1>6, <1>9, OneFence DEF One
    <2>2. /\ Asked(n) = 0 /\ Draining(n) = 0 /\ Forwarding(n) = 0 /\ Prepared(n) = 0 /\ Passed(n) = 0
          /\ Finishing(n) = 0 /\ adapter[n].pending
      BY <1>1, <2>1, OneFence
    <2>3. One(d.forwarded) = 1 /\ One(d.prepare # NoMessage) = 1
      BY <1>1, <1>5, <2>1, <2>2 DEF Phase
    <2>4. d.forwarded /\ d.prepare = TheFence("prepare", d.epoch) /\ d.generation = d.epoch + 1
      BY <2>3, <1>1 DEF One, Fields
    <2>5. m = TheFence("commit", d.epoch) /\ Downward(rest, d.epoch, 1)
      BY <1>2, <1>4, <1>7, <1>9, <2>1, DownwardCommit DEF Answered
    <2>6. /\ m \in Fences /\ m # NoMessage /\ m.generation = d.generation /\ m.enabled = d.prepare.enabled
      <3>1. /\ TheFence("commit", d.epoch).generation = d.epoch + 1 /\ TheFence("commit", d.epoch) # NoMessage
            /\ TheFence("commit", d.epoch) \in Fences
        BY <1>4, TheFenceFacts
      <3>2. TheFence("commit", d.epoch).enabled = TheFence("prepare", d.epoch).enabled
        BY DEF TheFence, Fence
      <3> QED
        BY <3>1, <3>2, <2>4, <2>5
    <2>7. device' = [device EXCEPT ![n] = [d EXCEPT !.commit = m]] /\ UNCHANGED toHost
      <3>1. ~(~d.forwarded \/ m.generation # d.generation \/ m.enabled # d.prepare.enabled)
        BY <2>4, <2>6
      <3>2. /\ device' = [device EXCEPT ![n] =
                 IF ~d.forwarded \/ m.generation # d.generation \/ m.enabled # d.prepare.enabled
                 THEN [d EXCEPT !.state = "failed"] ELSE [d EXCEPT !.commit = m]]
            /\ UNCHANGED toHost
        BY <1>9 DEF DevicePollNetwork
      <3> HIDE DEF d, m
      <3> QED
        BY <3>1, <3>2
    <2>8. /\ device'[n].prepare = d.prepare /\ device'[n].generation = d.generation
          /\ device'[n].forwarded = d.forwarded /\ device'[n].commit = m
          /\ device'[n].active = d.active /\ device'[n].epoch = d.epoch /\ device'[n].accesses = d.accesses
          /\ \A k \in Nodes : k # n => device'[k] = device[k]
      <3>1. device \in [Nodes -> Devices] /\ device[n] \in Devices
        BY <1>1, Local DEF TypeOK, ProcessType
      <3> QED
        BY <2>7, <3>1 DEF Devices
    <2> HIDE DEF m, rest, d, types
    <2>9. Phase(n)'
      <3>1. /\ Asked(n)' = 0 /\ Draining(n)' = 0 /\ Forwarding(n)' = 0 /\ Prepared(n)' = 0
            /\ Passed(n)' = 0 /\ Finishing(n)' = 0
        BY <1>2, <2>2, <2>7, <2>8 DEF Asked, Draining, Forwarding, Prepared, Passed, Finishing, d
      <3>2. Answered(n)' = 0 /\ Committing(n)' = 1
        BY <1>3, <2>1, <2>6, <2>8 DEF Answered, Committing, One
      <3>3. Preparing(n)' = 0 /\ Agreed(n)' = 1
        BY <3>1, <3>2 DEF Preparing, Agreed
      <3>4. /\ network.epoch = d.epoch + 1 /\ d.epoch = adapter[n].epoch
        BY <1>1, <1>4, <1>5, <2>1, <2>2, Local DEF Phase, d
      <3> QED
        BY <1>2, <1>4, <2>2, <2>3, <2>8, <3>1, <3>2, <3>3, <3>4 DEF Phase, One
    <2>10. Fields(n)'
      BY <1>1, <1>2, <2>5, <2>8 DEF Fields, d
    <2>11. Rings(n)'
      BY <1>1, <1>2, <1>3, <2>1, <2>2, <2>5, <2>6, <2>7, <2>8, <1>5
         DEF Rings, Asked, Forwarding, Answered, Committing, Passed, Finishing, One, d
    <2>12. \A k \in Nodes : k # n => SameFence(k)
      BY <1>2, <1>3, <2>7, <2>8 DEF SameFence
    <2>13. FenceInv'
      BY <1>2, <2>9, <2>10, <2>11, <2>12, FenceAtOne DEF IInv
    <2> QED
      BY <1>9, <2>6, <2>7, <2>13 DEF m, d
  <1>10. CASE m.type = "sync"
    <2>1. UNCHANGED <<device, toHost>>
      BY <1>10 DEF DevicePollNetwork
    <2>2. Num(rest, Of("commit")) = Answered(n)
      BY <1>6, <1>10 DEF One
    <2>3. Downward(rest, d.epoch, 0)
      BY <1>2, <1>4, <1>7, <1>10, DownwardReading
    <2> HIDE DEF m, rest, d, types
    <2>4. Phase(n)'
      BY <1>1, <1>2, <1>3, <2>1, <2>2
         DEF Phase, Preparing, Agreed, Asked, Draining, Forwarding, Prepared, Answered, Committing, Passed,
             Finishing
    <2>5. Fields(n)'
      BY <1>1, <1>2, <2>1 DEF Fields
    <2>6. Rings(n)'
      BY <1>1, <1>2, <1>3, <1>5, <2>1, <2>2, <2>3
         DEF Rings, Asked, Forwarding, Answered, Committing, Passed, Finishing, d
    <2>7. \A k \in Nodes : k # n => SameFence(k)
      BY <1>2, <1>3, <2>1 DEF SameFence
    <2>8. FenceInv'
      BY <1>2, <2>1, <2>4, <2>5, <2>6, <2>7, FenceAtOne DEF IInv
    <2> QED
      BY <1>10, <2>8 DEF m
  <1> QED
    BY <1>6, <1>8, <1>9, <1>10

\* The drained device forwards PREPARE, which moves from Draining to Forwarding.
LEMMA DeviceForwardStep ==
    ASSUME IInv, NEW n \in Nodes, DeviceForward(n)
    PROVE  FenceInv'
  <1> DEFINE d == device[n]
             x == TheFence("prepare", d.epoch)
             types == {"sync", "request", "response", "prepare"}
  <1>1. /\ Phase(n) /\ Fields(n) /\ Rings(n) /\ TypeOK
        /\ d.prepare # NoMessage /\ ~d.forwarded
    BY DEF IInv, FenceInv, DeviceForward, MayForward
  <1>2. d.epoch \in Nat /\ x \in Item /\ x.type = "prepare" /\ x.epoch = d.epoch /\ x.type \in types
    BY <1>1, Local, TheFenceFacts
  <1>3. Draining(n) = 1
    BY <1>1 DEF Draining, One
  <1>4. /\ Asked(n) = 0 /\ Forwarding(n) = 0 /\ Prepared(n) = 0 /\ Answered(n) = 0 /\ Committing(n) = 0
        /\ Passed(n) = 0 /\ Finishing(n) = 0 /\ adapter[n].pending
    BY <1>1, <1>3, OneFence
  <1>5. d.prepare.enabled = (~Odd(d.epoch)) /\ d.generation = d.epoch + 1
    BY <1>1, <1>2, TheFenceFacts DEF Fields, One
  <1>6. /\ device' = [device EXCEPT ![n].forwarded = TRUE]
        /\ toNetwork' = [toNetwork EXCEPT ![n] = Append(@, x)]
        /\ UNCHANGED <<lifecycle, adapter, dma, network, toDevice, toHost, fromNetwork>>
    BY <1>5 DEF DeviceForward, loopVars, hostVars, TheFence
  <1>7. /\ device'[n].prepare = d.prepare /\ device'[n].generation = d.generation
        /\ device'[n].forwarded = TRUE /\ device'[n].commit = d.commit
        /\ device'[n].active = d.active /\ device'[n].epoch = d.epoch /\ device'[n].accesses = d.accesses
        /\ toNetwork'[n] = Append(toNetwork[n], x)
        /\ \A k \in Nodes : k # n => device'[k] = device[k] /\ toNetwork'[k] = toNetwork[k]
    <2>1. device \in [Nodes -> Devices] /\ d \in Devices /\ DOMAIN toNetwork = Nodes
      BY <1>1, Local DEF TypeOK, ProcessType, RingType
    <2> QED
      BY <1>6, <2>1 DEF Devices
  <1>8. toNetwork[n] \in Ring(types) /\ toNetwork[n] \in Seq(Item)
    BY <1>1, Local, RingCounts
  <1>9. Num(toNetwork'[n], Of("prepare")) = 1
    <2>1. Num(Append(toNetwork[n], x), Of("prepare")) = Num(toNetwork[n], Of("prepare")) + One(x.type = "prepare")
      BY <1>2, <1>8, Sending
    <2> QED
      BY <2>1, <1>2, <1>4, <1>7 DEF Forwarding, One
  <1>10. Upward(toNetwork'[n], d.epoch)
    BY <1>1, <1>2, <1>7, <1>8, UpwardSending DEF Rings
  <1> HIDE DEF x, d, types
  <1>11. Phase(n)'
    <2>1. /\ Asked(n)' = 0 /\ Draining(n)' = 0 /\ Prepared(n)' = 0 /\ Answered(n)' = 0
          /\ Committing(n)' = 0 /\ Passed(n)' = 0 /\ Finishing(n)' = 0 /\ Forwarding(n)' = 1
      BY <1>4, <1>6, <1>7, <1>9
         DEF Asked, Draining, Prepared, Answered, Committing, Passed, Finishing, Forwarding, One, d
    <2>2. Preparing(n)' = 1 /\ Agreed(n)' = 0
      BY <2>1 DEF Preparing, Agreed
    <2>3. network.epoch = d.epoch /\ d.epoch = adapter[n].epoch
      BY <1>1, <1>2, <1>4, Local DEF Phase, d
    <2> QED
      BY <1>1, <1>2, <1>4, <1>6, <1>7, <2>1, <2>2, <2>3 DEF Phase, One
  <1>12. Fields(n)'
    BY <1>1, <1>6, <1>7 DEF Fields, d
  <1>13. Rings(n)'
    BY <1>1, <1>4, <1>6, <1>7, <1>9, <1>10
       DEF Rings, Asked, Forwarding, Answered, Committing, Passed, Finishing, d
  <1>14. \A k \in Nodes : k # n => SameFence(k)
    BY <1>6, <1>7 DEF SameFence
  <1> QED
    BY <1>6, <1>11, <1>12, <1>13, <1>14, FenceAtOne DEF IInv

\* The device passes COMMIT on when nothing of the old epoch is left between it and its host.
LEMMA DeviceCommitStep ==
    ASSUME IInv, NEW n \in Nodes, DeviceCommit(n)
    PROVE  /\ FenceInv'
           /\ device[n].prepare.enabled = (~Odd(device[n].epoch))
           /\ device' = [device EXCEPT ![n] = Commits(device[n])]
           /\ toHost' = [toHost EXCEPT ![n] = Append(toHost[n], TheFence("commit", device[n].epoch))
                                                \o Syncs(device[n].prepare.enabled, device[n].epoch + 1)]
           /\ toNetwork' = [toNetwork EXCEPT ![n] = toNetwork[n] \o
                              Syncs(device[n].prepare.enabled, device[n].epoch + 1)]
  <1> DEFINE d == device[n]
             e == d.epoch
             x == TheFence("commit", e)
             y == Message("sync", e + 1, None)
             sent == Append(toHost[n], x)
             hostTypes == {"sync", "dma", "commit"}
             netTypes == {"sync", "request", "response", "prepare"}
  <1>1. Phase(n) /\ Fields(n) /\ Rings(n) /\ TypeOK /\ Accesses(n)
    BY DEF IInv, FenceInv, WorkInv
  <1>2. d.forwarded /\ d.commit # NoMessage /\ d.op = None /\ d.accesses = 0
    BY DEF DeviceCommit, Quiescent
  <1>3. /\ e \in Nat /\ e + 1 \in Nat /\ d \in Devices /\ device \in [Nodes -> Devices]
        /\ toHost[n] \in Ring(hostTypes) /\ toHost[n] \in Seq(Item)
        /\ toNetwork[n] \in Ring(netTypes) /\ toNetwork[n] \in Seq(Item)
        /\ DOMAIN toHost = Nodes /\ DOMAIN toNetwork = Nodes
    BY <1>1, Local, RingCounts DEF TypeOK, ProcessType, RingType
  <1>4. Committing(n) = 1
    BY <1>2 DEF Committing, One
  <1>5. /\ Asked(n) = 0 /\ Draining(n) = 0 /\ Forwarding(n) = 0 /\ Prepared(n) = 0 /\ Answered(n) = 0
        /\ Passed(n) = 0 /\ Finishing(n) = 0 /\ adapter[n].pending
    BY <1>1, <1>4, OneFence
  <1>6. e = adapter[n].epoch /\ network.epoch = e + 1
    BY <1>1, <1>3, <1>4, <1>5, Local DEF Phase
  <1>7. d.prepare # NoMessage
    <2>1. One(d.prepare # NoMessage) = 1
      BY <1>1, <1>2, <1>5 DEF Phase, One
    <2> QED
      BY <2>1 DEF One
  <1>8. /\ d.prepare = TheFence("prepare", e) /\ d.generation = e + 1 /\ d.active = Odd(e)
    BY <1>1, <1>7 DEF Fields, One
  <1>9. d.prepare.enabled = (~Odd(e)) /\ d.prepare.enabled \in BOOLEAN
    <2>1. TheFence("prepare", e).enabled = (~Odd(e))
      BY <1>3, TheFenceFacts
    <2>2. (~Odd(e)) \in BOOLEAN
      BY <1>3 DEF Odd
    <2> QED
      BY <2>1, <2>2, <1>8
  <1>10. d.prepare.enabled # d.active
    BY <1>8, <1>9
  <1>11. /\ device' = [device EXCEPT ![n] = Commits(d)]
         /\ toHost' = [toHost EXCEPT ![n] = sent \o Syncs(d.prepare.enabled, e + 1)]
         /\ toNetwork' = [toNetwork EXCEPT ![n] = toNetwork[n] \o Syncs(d.prepare.enabled, e + 1)]
         /\ UNCHANGED <<lifecycle, adapter, dma, network, toDevice, fromNetwork>>
    <2>1. x = Fence("commit", e, d.generation, d.prepare.enabled)
      BY <1>8, <1>9 DEF TheFence
    <2> QED
      BY <2>1, <1>10 DEF DeviceCommit, loopVars, hostVars
  <1>12. /\ device'[n].prepare = NoMessage /\ device'[n].generation = e + 1
         /\ device'[n].forwarded = FALSE /\ device'[n].commit = NoMessage
         /\ device'[n].active = d.prepare.enabled /\ device'[n].epoch = e + 1 /\ device'[n].accesses = 0
         /\ \A k \in Nodes : k # n => device'[k] = device[k]
    BY <1>2, <1>3, <1>8, <1>11 DEF Commits, Devices
  <1>13. /\ toHost'[n] = sent \o Syncs(d.prepare.enabled, e + 1)
         /\ toNetwork'[n] = toNetwork[n] \o Syncs(d.prepare.enabled, e + 1)
         /\ \A k \in Nodes : k # n => toHost'[k] = toHost[k] /\ toNetwork'[k] = toNetwork[k]
    BY <1>3, <1>11
  <1>14. /\ x \in Item /\ x.type = "commit" /\ x.type \in hostTypes
         /\ y \in Item /\ y.type = "sync" /\ y.epoch = e + 1 /\ y.type \in hostTypes /\ y.type \in netTypes
    <2>1. x \in Item /\ x.type = "commit"
      BY <1>3, TheFenceFacts
    <2>2. y \in Item /\ y.type = "sync" /\ y.epoch = e + 1
      BY <1>3, Built
    <2> HIDE DEF x, y
    <2> QED
      BY <2>1, <2>2
  <1>15. sent \in Ring(hostTypes) /\ sent \in Seq(Item) /\ Num(sent, Of("commit")) = 1
    <2>1. sent \in Ring(hostTypes) /\ Num(sent, Of("commit")) = Num(toHost[n], Of("commit")) + One(x.type = "commit")
      BY <1>3, <1>14, Sending
    <2> QED
      <3>1. sent \in Seq(Item)
        BY <2>1, RingCounts
      <3> HIDE DEF x, sent
      <3> QED
        BY <2>1, <3>1, <1>5, <1>14 DEF Passed, One
  <1>16. /\ toHost'[n] = IF d.prepare.enabled THEN Append(sent, y) ELSE sent
         /\ toNetwork'[n] = IF d.prepare.enabled THEN Append(toNetwork[n], y) ELSE toNetwork[n]
    BY <1>3, <1>13, <1>15, SyncsSent DEF Syncs
  <1>17. /\ Num(toHost[n], Of("dma")) = 0 /\ dma[n] = 0 /\ Num(toDevice[n], Of("reply")) = 0
    BY <1>1, <1>2, Local, Counts DEF Accesses
  <1>18. toDevice[n] = <<>>
    <2>1. /\ toDevice[n] \in Ring({"sync", "reply", "prepare"}) /\ toDevice[n] \in Seq(Item)
          /\ \A i \in DOMAIN toDevice[n] : toDevice[n][i].type \in {"sync", "reply", "prepare"}
      BY <1>1, Local, RingCounts
    <2>2. Num(toDevice[n], Of("sync")) = 0 /\ Num(toDevice[n], Of("prepare")) = 0
      BY <1>1, <1>5 DEF Rings, Asked
    <2>3. \A i \in DOMAIN toDevice[n] : toDevice[n][i].type \notin {"sync", "reply", "prepare"}
      BY <2>1, <2>2, <1>17, RingCounts
    <2> QED
      BY <2>1, <2>3
  <1>19. toNetwork[n] = <<>>
    BY <1>1, <1>4, <1>5 DEF Rings
  <1>20. Downward(toHost'[n], e, 0) /\ Num(toHost'[n], Of("commit")) = 1
    <2>1. \A i \in DOMAIN toHost[n] : toHost[n][i].type = "sync"
      <3>1. \A i \in DOMAIN toHost[n] : toHost[n][i].type \in hostTypes
        BY <1>3, RingCounts
      <3>2. \A i \in DOMAIN toHost[n] : toHost[n][i].type # "dma" /\ toHost[n][i].type # "commit"
        BY <1>3, <1>5, <1>17, RingCounts DEF Passed
      <3> QED
        BY <3>1, <3>2
    <2>2. \A i \in DOMAIN toHost[n] : toHost[n][i].epoch = e
      <3>1. Downward(toHost[n], e, 0) /\ Num(toHost[n], Of("commit")) = 0
        BY <1>1, <1>5, <1>6 DEF Rings, Passed
      <3> QED
        BY <3>1, <2>1, <1>3 DEF Downward
    <2>3. Downward(sent, e, 0)
      BY <2>1, <2>2, <1>3, DownwardCommitting
    <2>4. Downward(Append(sent, y), e, 0) /\ Num(Append(sent, y), Of("commit")) = 1
      <3>1. Num(Append(sent, y), Of("commit")) = Num(sent, Of("commit")) + One(y.type = "commit")
        BY <1>14, <1>15, Sending
      <3>2. /\ y.type # "commit" /\ Num(sent, Of("commit")) + 0 \in {0, 1}
            /\ y.epoch = e + Num(sent, Of("commit")) + 0 /\ 0 \in {0, 1}
        BY <1>3, <1>14, <1>15
      <3> HIDE DEF sent, y
      <3>3. Downward(Append(sent, y), e, 0)
        BY <2>3, <3>2, <1>3, <1>14, <1>15, DownwardSending
      <3> QED
        BY <3>1, <3>2, <3>3, <1>15 DEF One
    <2> QED
      BY <2>3, <2>4, <1>15, <1>16
  <1>21. Upward(toNetwork'[n], e + 1) /\ Num(toNetwork'[n], Of("prepare")) = 0
    <2>1. Upward(toNetwork[n], e + 1)
      BY <1>19 DEF Upward
    <2>2. Upward(Append(toNetwork[n], y), e + 1)
      BY <2>1, <1>3, <1>14, <1>19, UpwardSending
    <2>3. Num(Append(toNetwork[n], y), Of("prepare")) = Num(toNetwork[n], Of("prepare")) + One(y.type = "prepare")
      BY <1>3, <1>14, Sending
    <2> QED
      BY <2>1, <2>2, <2>3, <1>5, <1>14, <1>16 DEF Forwarding, One
  <1>22. Downward(fromNetwork[n], e + 1, 0)
    <2>1. Downward(fromNetwork[n], e, 1) /\ Num(fromNetwork[n], Of("commit")) = 0
      BY <1>1, <1>4, <1>5 DEF Rings, Answered
    <2>2. fromNetwork[n] \in Seq(Item)
      BY <1>1, Local, RingCounts
    <2> QED
      BY <2>1, <2>2, <1>3, DownwardPassed
  <1>23. Odd(e + 1) = ~Odd(e)
    BY <1>3 DEF Odd
  <1> HIDE DEF e, x, y, sent, hostTypes, netTypes
  <1>24. Phase(n)'
    <2>1. /\ Asked(n)' = 0 /\ Draining(n)' = 0 /\ Prepared(n)' = 0 /\ Answered(n)' = 0
          /\ Committing(n)' = 0 /\ Passed(n)' = 1 /\ Finishing(n)' = 0 /\ Forwarding(n)' = 0
      BY <1>5, <1>11, <1>12, <1>20, <1>21
         DEF Asked, Draining, Prepared, Answered, Committing, Passed, Finishing, Forwarding, One
    <2>2. Preparing(n)' = 0 /\ Agreed(n)' = 1
      BY <2>1 DEF Preparing, Agreed
    <2> QED
      BY <1>3, <1>5, <1>6, <1>11, <1>12, <2>1, <2>2 DEF Phase, One
  <1>25. Fields(n)'
    <2>1. device'[n].active = Odd(device'[n].epoch)
      BY <1>9, <1>12, <1>23
    <2>2. device'[n].generation = device'[n].epoch + One(device'[n].prepare # NoMessage)
      BY <1>3, <1>12 DEF One
    <2> QED
      BY <1>1, <1>11, <1>12, <2>1, <2>2 DEF Fields
  <1>26. Rings(n)'
    BY <1>1, <1>5, <1>6, <1>11, <1>12, <1>17, <1>18, <1>20, <1>21, <1>22
       DEF Rings, Asked, Forwarding, Answered, Committing, Passed, Finishing, One
  <1>27. \A k \in Nodes : k # n => SameFence(k)
    BY <1>11, <1>12, <1>13 DEF SameFence
  <1>28. FenceInv'
    BY <1>11, <1>24, <1>25, <1>26, <1>27, FenceAtOne DEF IInv
  <1> QED
    BY <1>9, <1>11, <1>28 DEF d, e, x, sent

----------------------------------------------------------------------------
(* Where an operation is *)

\* An operation is in one of its eight places, or there is none.
LEMMA OneOperation ==
    ASSUME TypeOK, NEW m \in Nodes, Work(m)
    PROVE  \/ Requested(m) = 0 /\ Sent(m) = 0 /\ Arriving(m) = 0 /\ Executed(m) = 0 /\ Responding(m) = 0
              /\ Returned(m) = 0 /\ Completing(m) = 0 /\ Completed(m) = 0 /\ device[m].op = None
           \/ Requested(m) = 1 /\ Sent(m) = 0 /\ Arriving(m) = 0 /\ Executed(m) = 0 /\ Responding(m) = 0
              /\ Returned(m) = 0 /\ Completing(m) = 0 /\ Completed(m) = 0 /\ device[m].op # None
           \/ Requested(m) = 0 /\ Sent(m) = 1 /\ Arriving(m) = 0 /\ Executed(m) = 0 /\ Responding(m) = 0
              /\ Returned(m) = 0 /\ Completing(m) = 0 /\ Completed(m) = 0 /\ device[m].op # None
           \/ Requested(m) = 0 /\ Sent(m) = 0 /\ Arriving(m) = 1 /\ Executed(m) = 0 /\ Responding(m) = 0
              /\ Returned(m) = 0 /\ Completing(m) = 0 /\ Completed(m) = 0 /\ device[m].op # None
           \/ Requested(m) = 0 /\ Sent(m) = 0 /\ Arriving(m) = 0 /\ Executed(m) = 1 /\ Responding(m) = 0
              /\ Returned(m) = 0 /\ Completing(m) = 0 /\ Completed(m) = 0 /\ device[m].op # None
           \/ Requested(m) = 0 /\ Sent(m) = 0 /\ Arriving(m) = 0 /\ Executed(m) = 0 /\ Responding(m) = 1
              /\ Returned(m) = 0 /\ Completing(m) = 0 /\ Completed(m) = 0 /\ device[m].op # None
           \/ Requested(m) = 0 /\ Sent(m) = 0 /\ Arriving(m) = 0 /\ Executed(m) = 0 /\ Responding(m) = 0
              /\ Returned(m) = 1 /\ Completing(m) = 0 /\ Completed(m) = 0 /\ device[m].op # None
           \/ Requested(m) = 0 /\ Sent(m) = 0 /\ Arriving(m) = 0 /\ Executed(m) = 0 /\ Responding(m) = 0
              /\ Returned(m) = 0 /\ Completing(m) = 1 /\ Completed(m) = 0 /\ device[m].op # None
           \/ Requested(m) = 0 /\ Sent(m) = 0 /\ Arriving(m) = 0 /\ Executed(m) = 0 /\ Responding(m) = 0
              /\ Returned(m) = 0 /\ Completing(m) = 0 /\ Completed(m) = 1 /\ device[m].op # None
  <1>1. /\ Requested(m) \in Nat /\ Sent(m) \in Nat /\ Arriving(m) \in Nat /\ Executed(m) \in Nat
        /\ Responding(m) \in Nat /\ Returned(m) \in Nat /\ Completing(m) \in Nat /\ Completed(m) \in Nat
    <2>1. Target(m) \in Nodes
      BY Local DEF Target
    <2>2. Sent(m) \in Nat /\ Returned(m) \in Nat
      BY DEF Sent, Returned, One
    <2>3. Executed(m) \in Nat /\ Completed(m) \in Nat
      BY <2>1, Local, ServingCounts DEF Executed, Completed
    <2> QED
      BY <2>1, <2>2, <2>3, Local, RingCounts DEF Requested, Arriving, Responding, Completing
  <1>2. One(device[m].op # None) \in {0, 1} /\ (One(device[m].op # None) = 1 <=> device[m].op # None)
    BY DEF One
  <1>3. Outward(m) \in Nat /\ Homeward(m) \in Nat
    BY <1>1 DEF Outward, Homeward
  <1>4. Outward(m) + Homeward(m) = One(device[m].op # None)
    BY DEF Work
  <1>5. \/ Outward(m) = 0 /\ Homeward(m) = 0 /\ device[m].op = None
        \/ Outward(m) = 1 /\ Homeward(m) = 0 /\ device[m].op # None
        \/ Outward(m) = 0 /\ Homeward(m) = 1 /\ device[m].op # None
    BY <1>2, <1>3, <1>4
  <1>6. /\ Outward(m) = 0 => Requested(m) = 0 /\ Sent(m) = 0 /\ Arriving(m) = 0 /\ Executed(m) = 0
        /\ Outward(m) = 1 =>
             \/ Requested(m) = 1 /\ Sent(m) = 0 /\ Arriving(m) = 0 /\ Executed(m) = 0
             \/ Requested(m) = 0 /\ Sent(m) = 1 /\ Arriving(m) = 0 /\ Executed(m) = 0
             \/ Requested(m) = 0 /\ Sent(m) = 0 /\ Arriving(m) = 1 /\ Executed(m) = 0
             \/ Requested(m) = 0 /\ Sent(m) = 0 /\ Arriving(m) = 0 /\ Executed(m) = 1
    BY <1>1 DEF Outward
  <1>7. /\ Homeward(m) = 0 => Responding(m) = 0 /\ Returned(m) = 0 /\ Completing(m) = 0 /\ Completed(m) = 0
        /\ Homeward(m) = 1 =>
             \/ Responding(m) = 1 /\ Returned(m) = 0 /\ Completing(m) = 0 /\ Completed(m) = 0
             \/ Responding(m) = 0 /\ Returned(m) = 1 /\ Completing(m) = 0 /\ Completed(m) = 0
             \/ Responding(m) = 0 /\ Returned(m) = 0 /\ Completing(m) = 1 /\ Completed(m) = 0
             \/ Responding(m) = 0 /\ Returned(m) = 0 /\ Completing(m) = 0 /\ Completed(m) = 1
    BY <1>1 DEF Homeward
  <1> QED
    BY <1>5, <1>6, <1>7

\* Where no operation is issued, nothing carries one and no device accesses its host.
LEMMA NoWork ==
    ASSUME TypeOK, WorkInv, \A m \in Nodes : device[m].op = None, NEW n \in Nodes
    PROVE  /\ \A i \in DOMAIN toNetwork[n] : toNetwork[n][i].type \notin {"request", "response"}
           /\ \A i \in DOMAIN fromNetwork[n] : fromNetwork[n][i].type \notin {"execute", "complete"}
           /\ device[n].accesses = 0 /\ dma[n] = 0 /\ network.tasks[n] = None
           /\ Num(toHost[n], Of("dma")) = 0 /\ Num(toDevice[n], Of("reply")) = 0
  <1>1. ASSUME NEW m \in Nodes
        PROVE  /\ Num(toNetwork[n], For("request", m)) = 0 /\ Num(toNetwork[n], For("response", m)) = 0
               /\ Num(fromNetwork[n], For("execute", m)) = 0 /\ Num(fromNetwork[n], For("complete", m)) = 0
               /\ Num(device[n].serving, {m}) = 0
    <2>1. Work(m) /\ Elsewhere(m, n)
      BY DEF WorkInv, Work
    <2>2. /\ Requested(m) = 0 /\ Arriving(m) = 0 /\ Executed(m) = 0 /\ Responding(m) = 0 /\ Completing(m) = 0
          /\ Completed(m) = 0
      BY <2>1, OneOperation
    <2> QED
      BY <2>1, <2>2 DEF Elsewhere, Requested, Arriving, Executed, Responding, Completing, Completed
  <1>2. ASSUME NEW types, NEW r \in Ring(types), NEW t \in Carried, \A m \in Nodes : Num(r, For(t, m)) = 0
        PROVE  \A i \in DOMAIN r : r[i].type # t
    <2>1. r \in Seq(Item)
      BY RingCounts
    <2>2. SUFFICES ASSUME NEW i \in DOMAIN r, r[i].type = t
                   PROVE  FALSE
      OBVIOUS
    <2>3. r[i] \in Item
      BY <2>1
    <2>4. r[i].node \in Nodes
      BY <2>2, <2>3, ItemFacts
    <2>5. r[i] \in For(t, r[i].node)
      BY <2>2, <2>3, <2>4, ItemFacts
    <2>6. Num(r, For(t, r[i].node)) = 0
      BY <1>2, <2>4
    <2> QED
      BY <2>1, <2>5, <2>6, NumZero
  <1> DEFINE up == {"sync", "request", "response", "prepare"}
             down == {"sync", "execute", "complete", "commit"}
  <1>3. toNetwork[n] \in Ring(up) /\ fromNetwork[n] \in Ring(down)
    BY Local
  <1>4. "request" \in Carried /\ "response" \in Carried /\ "execute" \in Carried /\ "complete" \in Carried
    BY DEF Carried
  <1> HIDE DEF up, down
  <1>5. \A i \in DOMAIN toNetwork[n] : toNetwork[n][i].type # "request"
    BY <1>1, <1>2, <1>3, <1>4
  <1>6. \A i \in DOMAIN toNetwork[n] : toNetwork[n][i].type # "response"
    BY <1>1, <1>2, <1>3, <1>4
  <1>7. \A i \in DOMAIN fromNetwork[n] : fromNetwork[n][i].type # "execute"
    BY <1>1, <1>2, <1>3, <1>4
  <1>8. \A i \in DOMAIN fromNetwork[n] : fromNetwork[n][i].type # "complete"
    BY <1>1, <1>2, <1>3, <1>4
  <1>9. device[n].accesses = 0
    <2>1. Accesses(n) /\ device[n].serving \in Seq(Nodes)
      BY Local DEF WorkInv
    <2>2. ASSUME device[n].serving # <<>>
          PROVE  FALSE
      <3>1. 1 \in DOMAIN device[n].serving /\ device[n].serving[1] \in Nodes
        BY <2>1, <2>2
      <3>2. Num(device[n].serving, {device[n].serving[1]}) = 0
        BY <3>1, <1>1
      <3> QED
        BY <3>1, <3>2, <2>1, NumZero
    <2>3. Len(device[n].serving) = 0
      BY <2>2
    <2> QED
      BY <2>1, <2>3 DEF Accesses
  <1>10. dma[n] = 0 /\ Num(toHost[n], Of("dma")) = 0 /\ Num(toDevice[n], Of("reply")) = 0
    BY <1>9, Local, Counts DEF WorkInv, Accesses
  <1>11. network.tasks[n] = None
    <2>1. Work(n)
      BY DEF WorkInv
    <2>2. Sent(n) = 0 /\ Returned(n) = 0 /\ Arriving(n) = 0 /\ Executed(n) = 0 /\ Responding(n) = 0
      BY <2>1, OneOperation
    <2>3. One(network.tasks[n] = "executing") = 0
      BY <2>1, <2>2 DEF Work
    <2>4. network.tasks[n] \in {None, "new", "executing", "executed"}
      BY Local
    <2> QED
      BY <2>2, <2>3, <2>4 DEF Sent, Returned, One
  <1> QED
    BY <1>5, <1>6, <1>7, <1>8, <1>9, <1>10, <1>11

----------------------------------------------------------------------------
(* The network *)

\* The network takes a task, SYNC, or PREPARE, which moves from Forwarding to Prepared.
LEMMA NetworkPollStep ==
    ASSUME IInv, NEW n \in Nodes, NetworkPoll(n)
    PROVE  FenceInv' /\ (Head(toNetwork[n]).type = "prepare" => Head(toNetwork[n]) \in Fences)
  <1> DEFINE m == Head(toNetwork[n])
             rest == Tail(toNetwork[n])
             types == {"sync", "request", "response", "prepare"}
  <1>1. Phase(n) /\ Fields(n) /\ Rings(n) /\ TypeOK
    BY DEF IInv, FenceInv
  <1>2. /\ toNetwork[n] # <<>> /\ toNetwork' = [toNetwork EXCEPT ![n] = rest]
        /\ UNCHANGED <<lifecycle, adapter, dma, device, toDevice, toHost, fromNetwork>>
    BY DEF NetworkPoll, loopVars, hostVars
  <1>3. /\ toNetwork'[n] = rest
        /\ \A k \in Nodes : k # n => toNetwork'[k] = toNetwork[k]
    BY <1>1, <1>2 DEF TypeOK, RingType
  <1>4. toNetwork[n] \in Ring(types) /\ toNetwork[n] \in Seq(Item)
    BY <1>1, Local, RingCounts
  <1>5. /\ rest \in Ring(types) /\ m.type \in types
        /\ \A t : /\ Num(toNetwork[n], Of(t)) = Num(rest, Of(t)) + One(m.type = t)
                  /\ Num(toNetwork[n], Of(t)) \in Nat /\ Num(rest, Of(t)) \in Nat
    BY <1>2, <1>4, Reading
  <1>6. Answered(n) = 0 /\ Committing(n) = 0 /\ network.epoch = device[n].epoch /\ device[n].epoch \in Nat
    <2>1. Answered(n) = 0 /\ Committing(n) = 0
      BY <1>1, <1>2, OneFence DEF Rings
    <2> QED
      BY <2>1, <1>1, Local DEF Phase
  <1>7. /\ Upward(rest, device[n].epoch)
        /\ m.type = "prepare" => /\ m = TheFence("prepare", device[n].epoch)
                                 /\ \A j \in DOMAIN rest : rest[j].type # "sync"
    BY <1>1, <1>2, <1>4, UpwardReading DEF Rings
  <1>8. network \in Networks
    BY <1>1 DEF TypeOK, ProcessType
  <1>9. CASE m.type = "prepare"
    <2>1. Forwarding(n) = 1 /\ Num(rest, Of("prepare")) = 0
      BY <1>1, <1>5, <1>9, OneFence DEF Forwarding, One
    <2>2. /\ Asked(n) = 0 /\ Draining(n) = 0 /\ Prepared(n) = 0 /\ Passed(n) = 0 /\ Finishing(n) = 0
          /\ adapter[n].pending
      BY <1>1, <2>1, OneFence
    <2>3. m \in Fences /\ m = TheFence("prepare", network.epoch) /\ m # NoMessage
      BY <1>6, <1>7, <1>9, TheFenceFacts
    <2>4. network' = [network EXCEPT !.prepared[n] = m]
      BY <1>9 DEF NetworkPoll
    <2>5. /\ network'.epoch = network.epoch /\ network'.active = network.active /\ network'.prepared[n] = m
          /\ \A k \in Nodes : k # n => network'.prepared[k] = network.prepared[k]
      BY <1>8, <2>4 DEF Networks
    <2>6. Num(rest, Of("sync")) = 0
      BY <1>5, <1>7, <1>9, RingCounts
    <2> HIDE DEF m, rest, types
    <2>7. Phase(n)'
      <3>1. /\ Asked(n)' = 0 /\ Draining(n)' = 0 /\ Forwarding(n)' = 0 /\ Answered(n)' = 0
            /\ Committing(n)' = 0 /\ Passed(n)' = 0 /\ Finishing(n)' = 0
        BY <1>2, <1>3, <1>6, <2>1, <2>2
           DEF Asked, Draining, Forwarding, Answered, Committing, Passed, Finishing
      <3>2. Prepared(n)' = 1
        BY <2>3, <2>5 DEF Prepared, One
      <3>3. Preparing(n)' = 1 /\ Agreed(n)' = 0
        BY <3>1, <3>2 DEF Preparing, Agreed
      <3>4. One(device[n].forwarded) = 1 /\ One(device[n].prepare # NoMessage) = 1 /\ device[n].epoch = adapter[n].epoch
        BY <1>1, <1>6, <2>1, <2>2, Local DEF Phase
      <3> QED
        BY <1>2, <1>6, <2>2, <2>5, <3>1, <3>2, <3>3, <3>4 DEF Phase, One
    <2>8. Fields(n)'
      BY <1>1, <1>2, <2>3, <2>5 DEF Fields
    <2>9. Rings(n)'
      BY <1>1, <1>2, <1>3, <1>6, <1>7, <2>1, <2>6
         DEF Rings, Asked, Forwarding, Answered, Committing, Passed, Finishing
    <2>10. \A k \in Nodes : k # n => SameFence(k)
      BY <1>2, <1>3, <2>5 DEF SameFence
    <2>11. FenceInv'
      BY <2>5, <2>7, <2>8, <2>9, <2>10, FenceAtOne DEF IInv
    <2> QED
      BY <2>3, <2>11 DEF m
  <1>10. CASE m.type # "prepare"
    <2>1. /\ network'.epoch = network.epoch /\ network'.active = network.active
          /\ network'.prepared = network.prepared
      BY <1>8, <1>10 DEF NetworkPoll, Networks
    <2>2. Num(rest, Of("prepare")) = Forwarding(n)
      BY <1>5, <1>10 DEF Forwarding, One
    <2>3. Num(toNetwork[n], Of("sync")) = 0 => Num(rest, Of("sync")) = 0
      BY <1>5 DEF One
    <2> HIDE DEF m, rest, types
    <2>4. Phase(n)'
      BY <1>1, <1>2, <1>3, <2>1, <2>2
         DEF Phase, Preparing, Agreed, Asked, Draining, Forwarding, Prepared, Answered, Committing, Passed,
             Finishing
    <2>5. Fields(n)'
      BY <1>1, <1>2, <2>1 DEF Fields
    <2>6. Rings(n)'
      BY <1>1, <1>2, <1>3, <1>6, <1>7, <2>1, <2>2, <2>3
         DEF Rings, Asked, Forwarding, Answered, Committing, Passed, Finishing
    <2>7. \A k \in Nodes : k # n => SameFence(k)
      BY <1>2, <1>3, <2>1 DEF SameFence
    <2>8. FenceInv'
      BY <2>1, <2>4, <2>5, <2>6, <2>7, FenceAtOne DEF IInv
    <2> QED
      BY <1>10, <2>8 DEF m
  <1> QED
    BY <1>9, <1>10

\* The network delivers: the receiver has not been sent COMMIT.
LEMMA NetworkDeliverStep ==
    ASSUME IInv, NEW n \in Nodes, NetworkDeliver(n)
    PROVE  FenceInv'
  <1> DEFINE types == {"sync", "execute", "complete", "commit"}
  <1>1. TypeOK /\ network \in Networks /\ network.epoch \in Nat /\ device[n].target \in Nodes
    BY Local DEF IInv, TypeOK, ProcessType
  <1>2. UNCHANGED <<lifecycle, adapter, dma, device, toDevice, toHost, toNetwork>>
    BY DEF NetworkDeliver, loopVars, hostVars
  <1>3. /\ network'.epoch = network.epoch /\ network'.active = network.active
        /\ network'.prepared = network.prepared
    BY <1>1 DEF NetworkDeliver, Networks
  <1>4. \E k \in Nodes, t \in {"execute", "complete"} :
          fromNetwork' = [fromNetwork EXCEPT ![k] = Append(@, Message(t, network.epoch, n))]
    BY <1>1 DEF NetworkDeliver
  <1>5. PICK k \in Nodes, t \in {"execute", "complete"} :
          fromNetwork' = [fromNetwork EXCEPT ![k] = Append(@, Message(t, network.epoch, n))]
    BY <1>4
  <1> DEFINE x == Message(t, network.epoch, n)
  <1>6. x \in Item /\ x.type = t /\ x.type \in types /\ x.type # "commit" /\ x.epoch = network.epoch
    <2>1. x \in Item /\ x.type = t /\ x.epoch = network.epoch
      BY <1>1, Built DEF Carried
    <2> QED
      BY <2>1
  <1>7. Phase(k) /\ Fields(k) /\ Rings(k)
    BY DEF IInv, FenceInv
  <1>8. /\ fromNetwork'[k] = Append(fromNetwork[k], x)
        /\ \A j \in Nodes : j # k => fromNetwork'[j] = fromNetwork[j]
    BY <1>1, <1>5 DEF TypeOK, RingType
  <1>9. fromNetwork[k] \in Ring(types) /\ fromNetwork[k] \in Seq(Item) /\ device[k].epoch \in Nat
    BY <1>1, Local, RingCounts
  <1>10. Num(fromNetwork'[k], Of("commit")) = Answered(k)
    <2>1. /\ Num(Append(fromNetwork[k], x), Of("commit")) = Num(fromNetwork[k], Of("commit")) + One(x.type = "commit")
          /\ Num(fromNetwork[k], Of("commit")) \in Nat
      BY <1>6, <1>9, Sending
    <2> HIDE DEF x
    <2> QED
      BY <2>1, <1>6, <1>8 DEF Answered, One
  <1>11. Downward(fromNetwork'[k], device[k].epoch, Committing(k))
    <2>1. Committing(k) \in {0, 1} /\ Answered(k) + Committing(k) \in {0, 1} /\ Answered(k) \in Nat
      BY <1>1, <1>7, Counts, OneFence
    <2>2. x.epoch = device[k].epoch + Answered(k) + Committing(k)
      BY <1>6, <1>7 DEF Phase
    <2>3. Downward(fromNetwork[k], device[k].epoch, Committing(k)) /\ Answered(k) = Num(fromNetwork[k], Of("commit"))
      BY <1>7 DEF Rings, Answered
    <2> HIDE DEF x
    <2>4. Downward(Append(fromNetwork[k], x), device[k].epoch, Committing(k))
      BY <1>6, <1>9, <2>1, <2>2, <2>3, DownwardSending
    <2> QED
      BY <2>4, <1>8
  <1> HIDE DEF x, types
  <1>12. Phase(k)'
    BY <1>2, <1>3, <1>7, <1>10
       DEF Phase, Preparing, Agreed, Asked, Draining, Forwarding, Prepared, Answered, Committing, Passed,
           Finishing
  <1>13. Fields(k)'
    BY <1>2, <1>3, <1>7 DEF Fields
  <1>14. Rings(k)'
    BY <1>2, <1>3, <1>7, <1>10, <1>11
       DEF Rings, Asked, Forwarding, Answered, Committing, Passed, Finishing
  <1>15. \A j \in Nodes : j # k => SameFence(j)
    BY <1>2, <1>3, <1>8 DEF SameFence
  <1> QED
    BY <1>3, <1>12, <1>13, <1>14, <1>15, FenceAtOne DEF IInv

\* The network agrees when every device has drained and forwarded PREPARE: nothing but SYNC is
\* left of the old epoch.
LEMMA NetworkCommitStep ==
    ASSUME IInv, NetworkCommit
    PROVE  /\ FenceInv' /\ network'.state = network.state /\ network'.tasks = network.tasks
           /\ network'.epoch = network.epoch + 1 /\ network'.active = (~Odd(network.epoch))
           /\ network' \in Networks
           /\ fromNetwork' = [n \in Nodes |-> Append(fromNetwork[n], TheFence("commit", network.epoch))
                                                \o Syncs(~Odd(network.epoch), network.epoch + 1)]
  <1> DEFINE e == network.epoch
             x == TheFence("commit", e)
             y == Message("sync", e + 1, None)
             types == {"sync", "execute", "complete", "commit"}
             first == network.prepared[CHOOSE n \in Nodes : TRUE]
  <1>1. TypeOK /\ WorkInv /\ network \in Networks /\ e \in Nat /\ e + 1 \in Nat
    BY DEF IInv, TypeOK, ProcessType, Networks
  <1>2. \A n \in Nodes : network.prepared[n] # NoMessage /\ Phase(n) /\ Fields(n) /\ Rings(n)
    BY DEF NetworkCommit, IInv, FenceInv
  <1>3. \A n \in Nodes : network.prepared[n] = TheFence("prepare", e)
    BY <1>2 DEF Fields
  <1>4. first = TheFence("prepare", e)
    BY <1>3, NodesAssumption
  <1>5. /\ TheFence("prepare", e).generation = e + 1 /\ TheFence("prepare", e).enabled = (~Odd(e))
        /\ (~Odd(e)) \in BOOLEAN
    BY <1>1, TheFenceFacts DEF Odd
  <1>6. network.active = Odd(e)
    BY DEF IInv, FenceInv
  <1>7. /\ network' = [network EXCEPT !.active = first.enabled, !.epoch = @ + 1,
                                      !.prepared = [n \in Nodes |-> NoMessage]]
        /\ fromNetwork' = [n \in Nodes |->
             Append(fromNetwork[n], Fence("commit", e, first.generation, first.enabled)) \o Syncs(first.enabled, e + 1)]
        /\ UNCHANGED <<lifecycle, adapter, dma, device, toDevice, toHost, toNetwork>>
    <2>1. \A n \in Nodes : /\ network.prepared[n].generation = first.generation
                           /\ network.prepared[n].enabled = first.enabled
      BY <1>3, <1>4
    <2>2. first.enabled # network.active
      BY <1>4, <1>5, <1>6
    <2> HIDE DEF first
    <2> QED
      BY <2>1, <2>2 DEF NetworkCommit, first, loopVars, hostVars
  <1>8. x = Fence("commit", e, first.generation, first.enabled) /\ first.enabled = (~Odd(e))
    BY <1>4, <1>5 DEF TheFence
  <1>9. /\ network'.state = network.state /\ network'.tasks = network.tasks /\ network'.epoch = e + 1
        /\ network'.active = (~Odd(e)) /\ \A n \in Nodes : network'.prepared[n] = NoMessage
    BY <1>1, <1>7, <1>8 DEF Networks
  <1>10. network' \in Networks
    <2>1. [n \in Nodes |-> NoMessage] \in [Nodes -> Held]
      BY DEF Held
    <2> QED
      BY <1>1, <1>5, <1>7, <1>8, <2>1 DEF Networks
  <1>11. fromNetwork' = [n \in Nodes |-> Append(fromNetwork[n], x) \o Syncs(~Odd(e), e + 1)]
    BY <1>7, <1>8
  <1> HIDE DEF first
  <1>12. ASSUME NEW n \in Nodes
         PROVE  Phase(n)' /\ Fields(n)' /\ Rings(n)'
    <2> DEFINE sent == Append(fromNetwork[n], x)
    <2>1. Prepared(n) = 1 /\ Phase(n) /\ Fields(n) /\ Rings(n)
      BY <1>2 DEF Prepared, One
    <2>2. /\ Asked(n) = 0 /\ Draining(n) = 0 /\ Forwarding(n) = 0 /\ Answered(n) = 0 /\ Committing(n) = 0
          /\ Passed(n) = 0 /\ Finishing(n) = 0 /\ adapter[n].pending
      BY <1>1, <2>1, OneFence
    <2>3. One(device[n].forwarded) = 1 /\ One(device[n].prepare # NoMessage) = 1
      BY <2>1, <2>2 DEF Phase
    <2>4. device[n].epoch = e /\ adapter[n].epoch = e
      BY <1>1, <2>1, <2>2, Local DEF Phase
    <2>5. \A m \in Nodes : device[m].op = None
      <3>1. SUFFICES ASSUME NEW m \in Nodes
                     PROVE  device[m].op = None
        OBVIOUS
      <3>2. Prepared(m) = 1 /\ Phase(m) /\ Work(m)
        BY <1>1, <1>2 DEF Prepared, One, WorkInv
      <3>3. Forwarding(m) = 0 /\ Answered(m) = 0 /\ Committing(m) = 0
        BY <1>1, <3>2, OneFence
      <3>4. device[m].forwarded
        BY <3>2, <3>3 DEF Phase, One
      <3> QED
        BY <3>2, <3>4 DEF Work
    <2>6. /\ \A i \in DOMAIN toNetwork[n] : toNetwork[n][i].type \notin {"request", "response"}
          /\ \A i \in DOMAIN fromNetwork[n] : fromNetwork[n][i].type \notin {"execute", "complete"}
          /\ device[n].accesses = 0
      BY <1>1, <2>5, NoWork
    <2>7. toNetwork[n] = <<>>
      <3>1. /\ toNetwork[n] \in Ring({"sync", "request", "response", "prepare"}) /\ toNetwork[n] \in Seq(Item)
            /\ \A i \in DOMAIN toNetwork[n] : toNetwork[n][i].type \in {"sync", "request", "response", "prepare"}
        BY <1>1, Local, RingCounts
      <3>2. Num(toNetwork[n], Of("sync")) = 0 /\ Num(toNetwork[n], Of("prepare")) = 0
        BY <2>1, <2>2, <2>3 DEF Rings, Forwarding, One
      <3>3. \A i \in DOMAIN toNetwork[n] : toNetwork[n][i].type \notin {"sync", "prepare"}
        BY <3>1, <3>2, RingCounts
      <3>4. \A i \in DOMAIN toNetwork[n] : FALSE
        BY <3>1, <3>3, <2>6
      <3> QED
        BY <3>1, <3>4
    <2>8. fromNetwork[n] \in Ring(types) /\ fromNetwork[n] \in Seq(Item)
      BY <1>1, Local, RingCounts
    <2>9. \A i \in DOMAIN fromNetwork[n] : fromNetwork[n][i].type = "sync" /\ fromNetwork[n][i].epoch = e
      <3>1. \A i \in DOMAIN fromNetwork[n] : fromNetwork[n][i].type \in types /\ fromNetwork[n][i].type # "commit"
        BY <2>2, <2>8, RingCounts DEF Answered
      <3>2. \A i \in DOMAIN fromNetwork[n] : fromNetwork[n][i].type = "sync"
        BY <3>1, <2>6
      <3>3. Downward(fromNetwork[n], e, 0) /\ Num(fromNetwork[n], Of("commit")) = 0
        BY <2>1, <2>2, <2>4 DEF Rings, Answered
      <3> QED
        BY <3>2, <3>3, <1>1 DEF Downward
    <2>10. x \in Item /\ x.type = "commit" /\ x.type \in types
      <3>1. x \in Item /\ x.type = "commit"
        BY <1>1, TheFenceFacts
      <3> HIDE DEF x
      <3> QED
        BY <3>1
    <2>11. y \in Item /\ y.type = "sync" /\ y.epoch = e + 1 /\ y.type \in types /\ y.type # "commit"
      <3>1. y \in Item /\ y.type = "sync" /\ y.epoch = e + 1
        BY <1>1, Built
      <3> HIDE DEF y
      <3> QED
        BY <3>1
    <2>12. sent \in Ring(types) /\ sent \in Seq(Item) /\ Num(sent, Of("commit")) = 1
      <3>1. sent \in Ring(types) /\ Num(sent, Of("commit")) = Num(fromNetwork[n], Of("commit")) + One(x.type = "commit")
        BY <2>8, <2>10, Sending
      <3>2. sent \in Seq(Item)
        BY <3>1, RingCounts
      <3> HIDE DEF x, sent
      <3> QED
        BY <3>1, <3>2, <2>2, <2>10 DEF Answered, One
    <2>13. fromNetwork'[n] = IF ~Odd(e) THEN Append(sent, y) ELSE sent
      BY <1>1, <1>11, <2>12, SyncsSent DEF Syncs
    <2>14. Downward(fromNetwork'[n], e, 0) /\ Num(fromNetwork'[n], Of("commit")) = 1
      <3>1. Downward(sent, e, 0)
        BY <2>8, <2>9, <1>1, DownwardCommitting
      <3>2. Num(Append(sent, y), Of("commit")) = Num(sent, Of("commit")) + One(y.type = "commit")
        BY <2>11, <2>12, Sending
      <3>3. /\ Num(sent, Of("commit")) + 0 \in {0, 1} /\ y.epoch = e + Num(sent, Of("commit")) + 0 /\ 0 \in {0, 1}
        BY <1>1, <2>11, <2>12
      <3> HIDE DEF sent, y, e
      <3>4. Downward(Append(sent, y), e, 0)
        BY <1>1, <2>11, <2>12, <3>1, <3>3, DownwardSending
      <3> QED
        BY <3>1, <3>2, <3>4, <2>11, <2>12, <2>13 DEF One
    <2> HIDE DEF e, x, y, sent, types
    <2>15. Phase(n)'
      <3>1. /\ Asked(n)' = 0 /\ Draining(n)' = 0 /\ Forwarding(n)' = 0 /\ Prepared(n)' = 0
            /\ Committing(n)' = 0 /\ Passed(n)' = 0 /\ Finishing(n)' = 0 /\ Answered(n)' = 1
        BY <1>7, <1>9, <2>2, <2>14
           DEF Asked, Draining, Forwarding, Prepared, Answered, Committing, Passed, Finishing, One
      <3>2. Preparing(n)' = 0 /\ Agreed(n)' = 1
        BY <3>1 DEF Preparing, Agreed
      <3> QED
        BY <1>1, <1>7, <1>9, <2>2, <2>3, <2>4, <3>1, <3>2 DEF Phase, One
    <2>16. Fields(n)'
      BY <1>7, <1>9, <2>1 DEF Fields
    <2>17. Rings(n)'
      BY <1>7, <2>1, <2>2, <2>4, <2>6, <2>7, <2>14
         DEF Rings, Asked, Forwarding, Answered, Committing, Passed, Finishing
    <2> QED
      BY <2>15, <2>16, <2>17
  <1>13. Odd(e + 1) = ~Odd(e)
    BY <1>1 DEF Odd
  <1>14. FenceInv'
    BY <1>9, <1>12, <1>13 DEF FenceInv
  <1> QED
    BY <1>9, <1>10, <1>11, <1>14

----------------------------------------------------------------------------
(* Operations and accesses to the host *)

\* Nothing that Work says of m changes.
SameWork(m) ==
    /\ device'[m].op = device[m].op /\ device'[m].target = device[m].target
    /\ device'[m].forwarded => device[m].op = None
    /\ network'.tasks[m] = network.tasks[m]
    /\ \A k \in Nodes :
         /\ Num(device'[k].serving, {m}) = Num(device[k].serving, {m})
         /\ \A t \in Carried : /\ Num(toNetwork'[k], For(t, m)) = Num(toNetwork[k], For(t, m))
                               /\ Num(fromNetwork'[k], For(t, m)) = Num(fromNetwork[k], For(t, m))

\* The operation of a node none of whose places has changed.
LEMMA WorkKept ==
    ASSUME TypeOK, NEW m \in Nodes, Work(m), SameWork(m)
    PROVE  Work(m)'
  <1>1. Target(m) \in Nodes /\ Target(m)' = Target(m)
    BY Local DEF Target, SameWork
  <1>2. "request" \in Carried /\ "response" \in Carried /\ "execute" \in Carried /\ "complete" \in Carried
    BY DEF Carried
  <1>3. /\ Requested(m)' = Requested(m) /\ Sent(m)' = Sent(m) /\ Arriving(m)' = Arriving(m)
        /\ Executed(m)' = Executed(m) /\ Responding(m)' = Responding(m) /\ Returned(m)' = Returned(m)
        /\ Completing(m)' = Completing(m) /\ Completed(m)' = Completed(m)
    BY <1>1, <1>2
       DEF SameWork, Requested, Sent, Arriving, Executed, Responding, Returned, Completing, Completed
  <1>4. \A k \in Nodes : Elsewhere(m, k)'
    BY <1>1, <1>2 DEF SameWork, Work, Elsewhere
  <1>5. Outward(m)' = Outward(m) /\ Homeward(m)' = Homeward(m)
    BY <1>3 DEF Outward, Homeward
  <1> QED
    BY <1>1, <1>3, <1>4, <1>5 DEF SameWork, Work

\* Nothing that Accesses says of k changes.
SameAccess(k) ==
    /\ device'[k].accesses = device[k].accesses /\ device'[k].serving = device[k].serving
    /\ dma'[k] = dma[k]
    /\ Num(toHost'[k], Of("dma")) = Num(toHost[k], Of("dma"))
    /\ Num(toDevice'[k], Of("reply")) = Num(toDevice[k], Of("reply"))

\* The accesses of a device none of whose counts has changed.
LEMMA AccessKept ==
    ASSUME NEW k \in Nodes, Accesses(k), SameAccess(k)
    PROVE  Accesses(k)'
  BY DEF Accesses, SameAccess

----------------------------------------------------------------------------
(* Steps that move no work *)

\* The adapter's and the device's fence messages carry no work: a fence,
LEMMA FenceExitWork ==
    ASSUME IInv, NEW n \in Nodes, FenceExit(n)
    PROVE  WorkInv'
  <1> DEFINE a == Begins(adapter[n])
             x == Fence("prepare", a.epoch, a.generation, ~a.active)
  <1>1. TypeOK /\ WorkInv
    BY DEF IInv
  <1>2. toDevice' = [toDevice EXCEPT ![n] = Append(@, x)] /\ UNCHANGED <<dma, device, network, toHost, toNetwork, fromNetwork>>
    BY DEF FenceExit
  <1>3. x \in Item /\ x.type = "prepare" /\ x.type \in {"sync", "reply", "prepare"}
    <2>1. a.epoch \in Nat /\ a.generation \in Nat /\ (~a.active) \in BOOLEAN
      BY <1>1, Local DEF Begins, Adapters
    <2>2. x \in Fences /\ x.type = "prepare"
      BY <2>1 DEF Fence, Fences
    <2> HIDE DEF x
    <2> QED
      BY <2>2 DEF Item
  <1>4. toDevice[n] \in Ring({"sync", "reply", "prepare"}) /\ DOMAIN toDevice = Nodes
    BY <1>1, Local DEF TypeOK, RingType
  <1> HIDE DEF x
  <1>5. \A t : Num(Append(toDevice[n], x), Of(t)) = Num(toDevice[n], Of(t)) + One(x.type = t) /\ Num(toDevice[n], Of(t)) \in Nat
    BY <1>3, <1>4, Sending
  <1>6. \A k \in Nodes : Num(toDevice'[k], Of("reply")) = Num(toDevice[k], Of("reply"))
    BY <1>2, <1>3, <1>4, <1>5 DEF One
  <1>7. \A k \in Nodes : SameAccess(k)
    BY <1>2, <1>6 DEF SameAccess
  <1>8. \A m \in Nodes : SameWork(m)
    BY <1>1, <1>2 DEF SameWork, WorkInv, Work
  <1> QED
    BY <1>1, <1>7, <1>8, WorkKept, AccessKept DEF WorkInv

\* its end at the adapter,
LEMMA CommitExitWork ==
    ASSUME IInv, NEW n \in Nodes, CommitExit(n)
    PROVE  WorkInv'
  <1> DEFINE e == adapter[n].epoch
             y == Message("sync", e + 1, None)
  <1>1. TypeOK /\ WorkInv
    BY DEF IInv
  <1>2. /\ toDevice' = [toDevice EXCEPT ![n] = toDevice[n] \o Syncs(~adapter[n].active, e + 1)]
        /\ UNCHANGED <<dma, device, network, toHost, toNetwork, fromNetwork>>
    BY DEF CommitExit
  <1>3. e + 1 \in Nat /\ toDevice[n] \in Ring({"sync", "reply", "prepare"}) /\ DOMAIN toDevice = Nodes
    BY <1>1, Local DEF TypeOK, RingType
  <1>4. y \in Item /\ y.type = "sync" /\ y.type \in {"sync", "reply", "prepare"}
    BY <1>3, Built
  <1>5. toDevice'[n] \in {Append(toDevice[n], y), toDevice[n]} /\ \A k \in Nodes : k # n => toDevice'[k] = toDevice[k]
    BY <1>2, <1>3, SyncsSent DEF Syncs
  <1> HIDE DEF y
  <1>6. \A t : Num(Append(toDevice[n], y), Of(t)) = Num(toDevice[n], Of(t)) + One(y.type = t) /\ Num(toDevice[n], Of(t)) \in Nat
    BY <1>3, <1>4, Sending
  <1>7. \A k \in Nodes : Num(toDevice'[k], Of("reply")) = Num(toDevice[k], Of("reply"))
    <2>1. Num(Append(toDevice[n], y), Of("reply")) = Num(toDevice[n], Of("reply"))
      BY <1>4, <1>6 DEF One
    <2> QED
      BY <2>1, <1>5
  <1>8. \A k \in Nodes : SameAccess(k)
    BY <1>2, <1>7 DEF SameAccess
  <1>9. \A m \in Nodes : SameWork(m)
    BY <1>1, <1>2 DEF SameWork, WorkInv, Work
  <1> QED
    BY <1>1, <1>8, <1>9, WorkKept, AccessKept DEF WorkInv

\* its way through the device,
LEMMA DeviceForwardWork ==
    ASSUME IInv, NEW n \in Nodes, DeviceForward(n)
    PROVE  WorkInv'
  <1> DEFINE d == device[n]
             x == Fence("prepare", d.epoch, d.generation, d.prepare.enabled)
             types == {"sync", "request", "response", "prepare"}
  <1>1. TypeOK /\ WorkInv /\ Fields(n) /\ d.prepare # NoMessage /\ d.op = None
    BY DEF IInv, FenceInv, DeviceForward, MayForward, Quiescent
  <1>2. /\ device' = [device EXCEPT ![n].forwarded = TRUE]
        /\ toNetwork' = [toNetwork EXCEPT ![n] = Append(@, x)]
        /\ UNCHANGED <<dma, network, toDevice, toHost, fromNetwork>>
    BY DEF DeviceForward, hostVars
  <1>3. x \in Item /\ x.type = "prepare" /\ x.type \in types
    <2>1. d.prepare \in Fences /\ d.epoch \in Nat /\ d.generation \in Nat
      BY <1>1, Local DEF Held
    <2>2. x \in Fences /\ x.type = "prepare"
      BY <2>1 DEF Fence, Fences
    <2> HIDE DEF x
    <2> QED
      BY <2>2 DEF Item
  <1>4. toNetwork[n] \in Ring(types) /\ DOMAIN toNetwork = Nodes /\ device \in [Nodes -> Devices]
    BY <1>1, Local DEF TypeOK, RingType, ProcessType
  <1> HIDE DEF x, types
  <1>5. \A t \in Carried, m \in Nodes :
          Num(Append(toNetwork[n], x), For(t, m)) = Num(toNetwork[n], For(t, m)) + One(x.type = t /\ x.node = m)
            /\ Num(toNetwork[n], For(t, m)) \in Nat
    BY <1>3, <1>4, Sending
  <1>6. \A k \in Nodes, t \in Carried, m \in Nodes : Num(toNetwork'[k], For(t, m)) = Num(toNetwork[k], For(t, m))
    <2>1. "prepare" \notin Carried
      BY DEF Carried
    <2> QED
      BY <1>2, <1>3, <1>4, <1>5, <2>1 DEF One
  <1>7. \A k \in Nodes : /\ device'[k].op = device[k].op /\ device'[k].target = device[k].target
                         /\ device'[k].serving = device[k].serving /\ device'[k].accesses = device[k].accesses
                         /\ k # n => device'[k].forwarded = device[k].forwarded
    <2>1. device'[n] = [device[n] EXCEPT !.forwarded = TRUE] /\ device[n] \in Devices
      BY <1>2, <1>4
    <2>2. \A k \in Nodes : k # n => device'[k] = device[k]
      BY <1>2, <1>4
    <2>3. /\ device'[n].op = device[n].op /\ device'[n].target = device[n].target
          /\ device'[n].serving = device[n].serving /\ device'[n].accesses = device[n].accesses
      BY <2>1 DEF Devices
    <2> QED
      BY <2>2, <2>3
  <1>8. \A k \in Nodes : SameAccess(k)
    BY <1>2, <1>7 DEF SameAccess
  <1>9. \A m \in Nodes : SameWork(m)
    BY <1>1, <1>2, <1>6, <1>7 DEF SameWork, WorkInv, Work
  <1> QED
    BY <1>1, <1>8, <1>9, WorkKept, AccessKept DEF WorkInv

\* its end at the device,
LEMMA DeviceCommitWork ==
    ASSUME IInv, NEW n \in Nodes, DeviceCommit(n)
    PROVE  WorkInv'
  <1> DEFINE d == device[n]
             e == d.epoch
             x == TheFence("commit", e)
             y == Message("sync", e + 1, None)
             sent == Append(toHost[n], x)
             hostTypes == {"sync", "dma", "commit"}
             netTypes == {"sync", "request", "response", "prepare"}
  <1>1. TypeOK /\ WorkInv /\ d.op = None
    BY DEF IInv, DeviceCommit, Quiescent
  <1>2. /\ device' = [device EXCEPT ![n] = Commits(d)]
        /\ toHost' = [toHost EXCEPT ![n] = sent \o Syncs(d.prepare.enabled, e + 1)]
        /\ toNetwork' = [toNetwork EXCEPT ![n] = toNetwork[n] \o Syncs(d.prepare.enabled, e + 1)]
        /\ UNCHANGED <<dma, network, toDevice, fromNetwork>>
    BY DeviceCommitStep DEF DeviceCommit, hostVars
  <1>3. /\ e \in Nat /\ e + 1 \in Nat /\ toHost[n] \in Ring(hostTypes) /\ toNetwork[n] \in Ring(netTypes)
        /\ DOMAIN toHost = Nodes /\ DOMAIN toNetwork = Nodes /\ device \in [Nodes -> Devices] /\ d \in Devices
    BY <1>1, Local DEF TypeOK, RingType, ProcessType
  <1>4. x \in Item /\ x.type = "commit"
    BY <1>3, TheFenceFacts
  <1>5. y \in Item /\ y.type = "sync"
    BY <1>3, Built
  <1> HIDE DEF x
  <1>6. sent \in Ring(hostTypes) /\ Num(sent, Of("dma")) = Num(toHost[n], Of("dma")) + One(x.type = "dma")
    BY <1>3, <1>4, Sending
  <1>7. /\ toHost'[n] = IF d.prepare.enabled THEN Append(sent, y) ELSE sent
        /\ toNetwork'[n] = IF d.prepare.enabled THEN Append(toNetwork[n], y) ELSE toNetwork[n]
        /\ \A k \in Nodes : k # n => toHost'[k] = toHost[k] /\ toNetwork'[k] = toNetwork[k]
    BY <1>2, <1>3, <1>6, SyncsSent DEF Syncs
  <1> HIDE DEF y, sent
  <1>8. Num(Append(sent, y), Of("dma")) = Num(sent, Of("dma")) + One(y.type = "dma")
    BY <1>5, <1>6, Sending
  <1>9. Num(toHost[n], Of("dma")) \in Nat
    BY <1>1, Counts
  <1>10. \A k \in Nodes : Num(toHost'[k], Of("dma")) = Num(toHost[k], Of("dma"))
    <2>1. Num(Append(sent, y), Of("dma")) = Num(toHost[n], Of("dma")) /\ Num(sent, Of("dma")) = Num(toHost[n], Of("dma"))
      BY <1>4, <1>5, <1>6, <1>8, <1>9 DEF One
    <2> QED
      BY <2>1, <1>7
  <1>11. \A t \in Carried, m \in Nodes :
           /\ Num(Append(toNetwork[n], y), For(t, m)) = Num(toNetwork[n], For(t, m)) + One(y.type = t /\ y.node = m)
           /\ Num(toNetwork[n], For(t, m)) \in Nat
    BY <1>3, <1>5, Sending
  <1>12. \A k \in Nodes, t \in Carried, m \in Nodes : Num(toNetwork'[k], For(t, m)) = Num(toNetwork[k], For(t, m))
    <2>1. "sync" \notin Carried
      BY DEF Carried
    <2>2. \A t \in Carried, m \in Nodes : Num(Append(toNetwork[n], y), For(t, m)) = Num(toNetwork[n], For(t, m))
      BY <1>5, <1>11, <2>1 DEF One
    <2> QED
      BY <2>2, <1>7
  <1>13. /\ device'[n].op = d.op /\ device'[n].target = d.target /\ device'[n].serving = d.serving
         /\ device'[n].accesses = d.accesses
         /\ \A k \in Nodes : k # n => device'[k] = device[k]
    BY <1>2, <1>3 DEF Commits, Devices
  <1>14. \A k \in Nodes : SameAccess(k)
    BY <1>2, <1>10, <1>13 DEF SameAccess
  <1>15. \A m \in Nodes : SameWork(m)
    BY <1>1, <1>2, <1>12, <1>13 DEF SameWork, WorkInv, Work
  <1> QED
    BY <1>1, <1>14, <1>15, WorkKept, AccessKept DEF WorkInv

\* and its end at the network.
LEMMA NetworkCommitWork ==
    ASSUME IInv, NetworkCommit
    PROVE  WorkInv'
  <1> DEFINE e == network.epoch
             x == TheFence("commit", e)
             y == Message("sync", e + 1, None)
             types == {"sync", "execute", "complete", "commit"}
  <1>1. TypeOK /\ WorkInv /\ e \in Nat /\ e + 1 \in Nat
    BY DEF IInv, TypeOK, ProcessType, Networks
  <1>2. /\ network'.tasks = network.tasks /\ UNCHANGED <<dma, device, toDevice, toHost, toNetwork>>
        /\ fromNetwork' = [n \in Nodes |-> Append(fromNetwork[n], x) \o Syncs(~Odd(e), e + 1)]
    BY NetworkCommitStep DEF NetworkCommit, hostVars
  <1>3. x \in Item /\ x.type = "commit" /\ y \in Item /\ y.type = "sync"
    BY <1>1, TheFenceFacts, Built
  <1>4. ASSUME NEW k \in Nodes, NEW t \in Carried, NEW m \in Nodes
        PROVE  Num(fromNetwork'[k], For(t, m)) = Num(fromNetwork[k], For(t, m))
    <2> DEFINE sent == Append(fromNetwork[k], x)
    <2>1. fromNetwork[k] \in Ring(types)
      BY <1>1, Local
    <2>2. x.type \in types /\ y.type \in types
      BY <1>3
    <2> HIDE DEF x, types
    <2>3. /\ sent \in Ring(types) /\ Num(fromNetwork[k], For(t, m)) \in Nat
          /\ Num(sent, For(t, m)) = Num(fromNetwork[k], For(t, m)) + One(x.type = t /\ x.node = m)
      BY <1>3, <2>1, <2>2, Sending
    <2>4. fromNetwork'[k] = IF ~Odd(e) THEN Append(sent, y) ELSE sent
      BY <1>1, <1>2, <2>3, SyncsSent DEF Syncs
    <2> HIDE DEF y, sent
    <2>5. /\ Num(sent, For(t, m)) \in Nat
          /\ Num(Append(sent, y), For(t, m)) = Num(sent, For(t, m)) + One(y.type = t /\ y.node = m)
      BY <1>3, <2>2, <2>3, Sending
    <2>6. t # "sync" /\ t # "commit"
      BY DEF Carried
    <2> QED
      BY <1>3, <2>3, <2>4, <2>5, <2>6 DEF One
  <1>5. \A k \in Nodes : SameAccess(k)
    BY <1>2 DEF SameAccess
  <1>6. \A m \in Nodes : SameWork(m)
    BY <1>1, <1>2, <1>4 DEF SameWork, WorkInv, Work
  <1> QED
    BY <1>1, <1>5, <1>6, WorkKept, AccessKept DEF WorkInv

----------------------------------------------------------------------------
(* Steps that move an access to the host *)

\* An access that completes is on its way back.
LEMMA DmaDoneWork ==
    ASSUME IInv, NEW n \in Nodes, DmaDone(n)
    PROVE  WorkInv'
  <1> DEFINE x == Message("reply", adapter[n].epoch, n)
             types == {"sync", "reply", "prepare"}
  <1>1. TypeOK /\ WorkInv
    BY DEF IInv
  <1>2. /\ dma[n] > 0 /\ dma' = [dma EXCEPT ![n] = @ - 1]
        /\ toDevice' = [toDevice EXCEPT ![n] = Append(@, x)]
        /\ UNCHANGED <<device, network, toHost, toNetwork, fromNetwork>>
    BY DEF DmaDone
  <1>3. toDevice[n] \in Ring(types) /\ DOMAIN toDevice = Nodes /\ dma \in [Nodes -> Nat] /\ adapter[n].epoch \in Nat
    BY <1>1, Local DEF TypeOK, RingType, ProcessType
  <1>4. x \in Item /\ x.type = "reply"
    BY <1>3, Built
  <1> HIDE DEF x
  <1>5. /\ Num(Append(toDevice[n], x), Of("reply")) = Num(toDevice[n], Of("reply")) + One(x.type = "reply")
        /\ Num(toDevice[n], Of("reply")) \in Nat /\ Num(toHost[n], Of("dma")) \in Nat
    BY <1>1, <1>3, <1>4, Sending, Counts
  <1>6. Num(toDevice'[n], Of("reply")) = Num(toDevice[n], Of("reply")) + 1 /\ dma'[n] = dma[n] - 1
    BY <1>2, <1>3, <1>4, <1>5 DEF One
  <1>7. \A k \in Nodes : k # n => SameAccess(k)
    BY <1>2, <1>3 DEF SameAccess
  <1>8. Accesses(n)'
    BY <1>1, <1>2, <1>3, <1>5, <1>6 DEF WorkInv, Accesses
  <1>9. \A m \in Nodes : SameWork(m)
    BY <1>1, <1>2 DEF SameWork, WorkInv, Work
  <1> QED
    BY <1>1, <1>7, <1>8, <1>9, WorkKept, AccessKept DEF WorkInv

\* An access that is read is in progress or on its way back.
LEMMA HostServiceWork ==
    ASSUME IInv, NEW n \in Nodes, HostService(n)
    PROVE  WorkInv'
  <1> DEFINE m == Head(toHost[n])
             rest == Tail(toHost[n])
             x == Message("reply", adapter[n].epoch, n)
             types == {"sync", "reply", "prepare"}
             hostTypes == {"sync", "dma", "commit"}
  <1>1. TypeOK /\ WorkInv /\ Accesses(n)
    BY DEF IInv, WorkInv
  <1>2. /\ toHost[n] # <<>> /\ toHost' = [toHost EXCEPT ![n] = rest]
        /\ UNCHANGED <<device, network, toNetwork, fromNetwork>>
    BY DEF HostService, HostReads
  <1>3. /\ toHost[n] \in Ring(hostTypes) /\ toDevice[n] \in Ring(types) /\ DOMAIN toHost = Nodes
        /\ DOMAIN toDevice = Nodes /\ dma \in [Nodes -> Nat] /\ adapter[n].epoch \in Nat
        /\ device[n].accesses \in Nat /\ dma[n] \in Nat
    BY <1>1, Local DEF TypeOK, RingType, ProcessType
  <1>4. /\ Num(toHost[n], Of("dma")) = Num(rest, Of("dma")) + One(m.type = "dma")
        /\ Num(rest, Of("dma")) \in Nat /\ m.type \in hostTypes
    BY <1>2, <1>3, Reading
  <1>5. /\ toHost'[n] = rest
        /\ \A k \in Nodes : k # n => toHost'[k] = toHost[k]
    BY <1>2, <1>3
  <1>6. x \in Item /\ x.type = "reply" /\ x.type \in types
    BY <1>3, Built
  <1>7. /\ Num(Append(toDevice[n], x), Of("reply")) = Num(toDevice[n], Of("reply")) + One(x.type = "reply")
        /\ Num(toDevice[n], Of("reply")) \in Nat
    BY <1>3, <1>6, Sending
  <1>8. \A j \in Nodes : SameWork(j)
    BY <1>1, <1>2 DEF SameWork, WorkInv, Work
  <1>9. Accesses(n)' /\ \A k \in Nodes : k # n => SameAccess(k)
    <2>1. CASE m.type = "dma" /\ cpu[n] = "boot"
      <3>1. toDevice' = [toDevice EXCEPT ![n] = Append(@, x)] /\ UNCHANGED dma
        BY <2>1 DEF HostService
      <3>2. toDevice'[n] = Append(toDevice[n], x) /\ \A k \in Nodes : k # n => toDevice'[k] = toDevice[k]
        BY <3>1, <1>3
      <3> HIDE DEF m, rest, x
      <3>3. Num(toDevice'[n], Of("reply")) = Num(toDevice[n], Of("reply")) + 1 /\ Num(toHost[n], Of("dma")) = Num(toHost'[n], Of("dma")) + 1
        BY <3>2, <2>1, <1>4, <1>5, <1>6, <1>7 DEF One
      <3>4. Num(toHost'[n], Of("dma")) \in Nat
        BY <1>4, <1>5
      <3>5. Accesses(n)'
        <4>1. /\ device[n].accesses = Num(toHost'[n], Of("dma")) + 1 + dma[n] + Num(toDevice[n], Of("reply"))
              /\ device[n].accesses = Len(device[n].serving)
          BY <1>1, <3>3 DEF Accesses
        <4>2. device[n].accesses = Num(toHost'[n], Of("dma")) + dma[n] + Num(toDevice'[n], Of("reply"))
          BY <4>1, <1>3, <1>7, <3>3, <3>4
        <4> QED
          BY <4>1, <4>2, <1>2, <3>1 DEF Accesses
      <3> QED
        BY <1>2, <1>5, <3>1, <3>2, <3>5 DEF SameAccess
    <2>2. CASE m.type = "dma" /\ cpu[n] # "boot"
      <3>1. dma' = [dma EXCEPT ![n] = @ + 1] /\ UNCHANGED toDevice
        BY <2>2 DEF HostService
      <3>2. dma'[n] = dma[n] + 1 /\ \A k \in Nodes : k # n => dma'[k] = dma[k]
        BY <3>1, <1>3
      <3> HIDE DEF m, rest, x
      <3>3. Num(toHost[n], Of("dma")) = Num(toHost'[n], Of("dma")) + 1 /\ Num(toHost'[n], Of("dma")) \in Nat
        BY <2>2, <1>4, <1>5 DEF One
      <3>4. Accesses(n)'
        <4>1. /\ device[n].accesses = Num(toHost'[n], Of("dma")) + 1 + dma[n] + Num(toDevice[n], Of("reply"))
              /\ device[n].accesses = Len(device[n].serving)
          BY <1>1, <3>3 DEF Accesses
        <4>2. device[n].accesses = Num(toHost'[n], Of("dma")) + dma'[n] + Num(toDevice[n], Of("reply"))
          BY <4>1, <1>3, <1>7, <3>2, <3>3
        <4> QED
          BY <4>1, <4>2, <1>2, <3>1 DEF Accesses
      <3> QED
        BY <1>2, <1>5, <3>1, <3>2, <3>4 DEF SameAccess
    <2>3. CASE m.type # "dma"
      <3>1. UNCHANGED <<dma, toDevice>>
        BY <2>3, <1>4 DEF HostService
      <3> HIDE DEF m, rest, x
      <3>2. Num(toHost'[n], Of("dma")) = Num(toHost[n], Of("dma"))
        BY <2>3, <1>4, <1>5 DEF One
      <3>3. Accesses(n)'
        BY <1>1, <1>2, <3>1, <3>2 DEF Accesses
      <3> QED
        BY <1>2, <1>5, <3>1, <3>3 DEF SameAccess
    <2> QED
      BY <2>1, <2>2, <2>3
  <1> QED
    BY <1>1, <1>8, <1>9, WorkKept, AccessKept DEF WorkInv

----------------------------------------------------------------------------
(* Steps that move an operation *)

\* What is found in a ring, or served by a device, is the operation itself.
LEMMA Located ==
    ASSUME TypeOK, WorkInv, NEW m \in Nodes, NEW k \in Nodes
    PROVE  /\ Num(toNetwork[k], For("request", m)) # 0 => k = m /\ Requested(m) = 1
           /\ Num(toNetwork[k], For("response", m)) # 0 => k = Target(m) /\ Responding(m) = 1
           /\ Num(fromNetwork[k], For("execute", m)) # 0 => k = Target(m) /\ Arriving(m) = 1
           /\ Num(fromNetwork[k], For("complete", m)) # 0 => k = m /\ Completing(m) = 1
           /\ Num(device[k].serving, {m}) # 0 => \/ k = m /\ Completed(m) = 1
                                                 \/ k # m /\ k = Target(m) /\ Executed(m) = 1
  <1>1. Work(m) /\ Elsewhere(m, k)
    BY DEF WorkInv, Work
  <1>2. /\ Requested(m) # 0 => Requested(m) = 1
        /\ Responding(m) # 0 => Responding(m) = 1
        /\ Arriving(m) # 0 => Arriving(m) = 1
        /\ Completing(m) # 0 => Completing(m) = 1
        /\ Completed(m) # 0 => Completed(m) = 1
        /\ Executed(m) # 0 => Executed(m) = 1
    BY <1>1, OneOperation
  <1>3. Num(toNetwork[k], For("request", m)) # 0 => k = m /\ Requested(m) = 1
    BY <1>1, <1>2 DEF Elsewhere, Requested
  <1>4. Num(toNetwork[k], For("response", m)) # 0 => k = Target(m) /\ Responding(m) = 1
    BY <1>1, <1>2 DEF Elsewhere, Responding
  <1>5. Num(fromNetwork[k], For("execute", m)) # 0 => k = Target(m) /\ Arriving(m) = 1
    BY <1>1, <1>2 DEF Elsewhere, Arriving
  <1>6. Num(fromNetwork[k], For("complete", m)) # 0 => k = m /\ Completing(m) = 1
    BY <1>1, <1>2 DEF Elsewhere, Completing
  <1>7. Num(device[k].serving, {m}) # 0 => \/ k = m /\ Completed(m) = 1
                                           \/ k # m /\ k = Target(m) /\ Executed(m) = 1
    BY <1>1, <1>2 DEF Elsewhere, Completed, Executed
  <1> QED
    BY <1>3, <1>4, <1>5, <1>6, <1>7

\* All but one operation stay where they are.
LEMMA WorkAtOne ==
    ASSUME TypeOK, WorkInv, NEW s \in Nodes, \A m \in Nodes : m # s => SameWork(m), Work(s)',
           \A k \in Nodes : Accesses(k)'
    PROVE  WorkInv'
  <1>1. \A m \in Nodes : m # s => Work(m)'
    BY WorkKept DEF WorkInv
  <1> QED
    BY <1>1 DEF WorkInv

\* A posted operation is requested.
LEMMA PostWork ==
    ASSUME IInv, NEW n \in Nodes, NEW target \in Nodes, Post(n, target)
    PROVE  WorkInv'
  <1> DEFINE x == Message("request", device[n].epoch, n)
             types == {"sync", "request", "response", "prepare"}
  <1>1. TypeOK /\ WorkInv /\ Work(n) /\ device[n].op = None /\ target # n
    BY DEF IInv, WorkInv, Post
  <1>2. /\ device' = [device EXCEPT ![n].op = "issued", ![n].target = target]
        /\ toNetwork' = [toNetwork EXCEPT ![n] = Append(@, x)]
        /\ UNCHANGED <<dma, network, toDevice, toHost, fromNetwork>>
    BY DEF Post, hostVars
  <1>3. /\ device \in [Nodes -> Devices] /\ device[n] \in Devices /\ DOMAIN toNetwork = Nodes
        /\ toNetwork[n] \in Ring(types) /\ device[n].epoch \in Nat
    BY <1>1, Local DEF TypeOK, ProcessType, RingType
  <1>4. /\ device'[n].op = "issued" /\ device'[n].target = target /\ device'[n].serving = device[n].serving
        /\ device'[n].accesses = device[n].accesses /\ device'[n].forwarded = device[n].forwarded
        /\ \A k \in Nodes : k # n => device'[k] = device[k]
        /\ toNetwork'[n] = Append(toNetwork[n], x)
        /\ \A k \in Nodes : k # n => toNetwork'[k] = toNetwork[k]
    BY <1>2, <1>3 DEF Devices
  <1>5. x \in Item /\ x.type = "request" /\ x.node = n /\ x.type \in types
    BY <1>3, Built DEF Carried
  <1> HIDE DEF x
  <1>6. \A t \in Carried, m \in Nodes :
          /\ Num(Append(toNetwork[n], x), For(t, m)) = Num(toNetwork[n], For(t, m)) + One(x.type = t /\ x.node = m)
          /\ Num(toNetwork[n], For(t, m)) \in Nat
    BY <1>3, <1>5, Sending
  <1>7. \A t \in Carried, m \in Nodes : ~(t = "request" /\ m = n) =>
          \A k \in Nodes : Num(toNetwork'[k], For(t, m)) = Num(toNetwork[k], For(t, m))
    <2>1. \A t \in Carried, m \in Nodes : ~(t = "request" /\ m = n) =>
            Num(Append(toNetwork[n], x), For(t, m)) = Num(toNetwork[n], For(t, m))
      BY <1>5, <1>6 DEF One
    <2> QED
      BY <2>1, <1>4
  <1>8. /\ Requested(n) = 0 /\ Sent(n) = 0 /\ Arriving(n) = 0 /\ Executed(n) = 0 /\ Responding(n) = 0
        /\ Returned(n) = 0 /\ Completing(n) = 0 /\ Completed(n) = 0
    BY <1>1, OneOperation
  <1>9. \A k \in Nodes : /\ Num(fromNetwork[k], For("execute", n)) = 0 /\ Num(toNetwork[k], For("response", n)) = 0
                         /\ Num(device[k].serving, {n}) = 0
    BY <1>1, <1>8 DEF Work, Elsewhere, Arriving, Responding, Executed, Completed
  <1>10. \A k \in Nodes : k # n => /\ Num(toNetwork[k], For("request", n)) = 0
                                   /\ Num(fromNetwork[k], For("complete", n)) = 0
    BY <1>1 DEF Work, Elsewhere
  <1>11. /\ "request" \in Carried /\ "response" \in Carried
    BY DEF Carried
  <1>12. Num(toNetwork'[n], For("request", n)) = 1
    BY <1>4, <1>5, <1>6, <1>8, <1>11 DEF Requested, One
  <1>13. Work(n)'
    <2>1. Target(n)' = target
      BY <1>4 DEF Target
    <2>2. /\ Requested(n)' = 1 /\ Sent(n)' = 0 /\ Arriving(n)' = 0 /\ Executed(n)' = 0 /\ Responding(n)' = 0
          /\ Returned(n)' = 0 /\ Completing(n)' = 0 /\ Completed(n)' = 0
      BY <1>1, <1>2, <1>4, <1>7, <1>8, <1>9, <1>11, <1>12, <2>1
         DEF Requested, Sent, Arriving, Executed, Responding, Returned, Completing, Completed
    <2>3. Outward(n)' = 1 /\ Homeward(n)' = 0
      BY <2>2 DEF Outward, Homeward
    <2>4. \A k \in Nodes : Elsewhere(n, k)'
      BY <1>1, <1>2, <1>4, <1>7, <1>9, <1>10, <1>11 DEF Elsewhere
    <2>5. One(network.tasks[n] = "executing") = 0
      BY <1>1, <1>8 DEF Work
    <2>6. ~device[n].forwarded
      BY PostStep
    <2>7. device'[n].op # None
      BY <1>4 DEF None
    <2>8. One(device'[n].op # None) = 1
      BY <2>7 DEF One
    <2> QED
      BY <1>1, <1>2, <1>4, <2>1, <2>2, <2>3, <2>4, <2>5, <2>6, <2>7, <2>8 DEF Work
  <1>14. \A m \in Nodes : m # n => SameWork(m)
    BY <1>1, <1>2, <1>4, <1>7 DEF SameWork, WorkInv, Work
  <1>15. \A k \in Nodes : Accesses(k)'
    <2>1. \A k \in Nodes : SameAccess(k)
      BY <1>2, <1>4 DEF SameAccess
    <2> QED
      BY <1>1, <2>1, AccessKept DEF WorkInv
  <1> QED
    BY <1>1, <1>13, <1>14, <1>15, WorkAtOne

\* A reply ends a piece of work: the operation is completed, or answered to its source.
LEMMA DevicePollHostWork ==
    ASSUME IInv, NEW n \in Nodes, DevicePollHost(n)
    PROVE  WorkInv'
  <1> DEFINE m == Head(toDevice[n])
             d == device[n]
             rest == Tail(toDevice[n])
             hostTypes == {"sync", "reply", "prepare"}
             types == {"sync", "request", "response", "prepare"}
  <1>1. TypeOK /\ WorkInv
    BY DEF IInv
  <1>2. /\ toDevice[n] # <<>> /\ toDevice' = [toDevice EXCEPT ![n] = rest]
        /\ UNCHANGED <<dma, network, toHost, fromNetwork>>
    BY DEF DevicePollHost, hostVars
  <1>3. /\ toDevice[n] \in Ring(hostTypes) /\ DOMAIN toDevice = Nodes /\ DOMAIN toNetwork = Nodes
        /\ device \in [Nodes -> Devices] /\ d \in Devices /\ toNetwork[n] \in Ring(types)
        /\ d.epoch \in Nat /\ d.serving \in Seq(Nodes) /\ d.accesses \in Nat
    BY <1>1, Local DEF TypeOK, ProcessType, RingType
  <1>4. /\ Num(toDevice[n], Of("reply")) = Num(rest, Of("reply")) + One(m.type = "reply")
        /\ Num(rest, Of("reply")) \in Nat /\ m.type \in hostTypes
    BY <1>2, <1>3, Reading
  <1>5. toDevice'[n] = rest /\ \A k \in Nodes : k # n => toDevice'[k] = toDevice[k]
    BY <1>2, <1>3
  <1>6. CASE m.type # "reply"
    <2>1. /\ UNCHANGED toNetwork
          /\ \A k \in Nodes : /\ device'[k].op = device[k].op /\ device'[k].target = device[k].target
                              /\ device'[k].serving = device[k].serving /\ device'[k].accesses = device[k].accesses
                              /\ device'[k].forwarded = device[k].forwarded
      <3>1. CASE m.type = "prepare"
        <4>1. device' = [device EXCEPT ![n] = [d EXCEPT !.prepare = m, !.generation = d.epoch + 1]]
          BY <3>1, DevicePollHostStep
        <4>2. UNCHANGED toNetwork
          BY <3>1 DEF DevicePollHost
        <4>3. /\ device'[n].op = d.op /\ device'[n].target = d.target /\ device'[n].serving = d.serving
              /\ device'[n].accesses = d.accesses /\ device'[n].forwarded = d.forwarded
              /\ \A k \in Nodes : k # n => device'[k] = device[k]
          BY <4>1, <1>3 DEF Devices
        <4> QED
          BY <4>2, <4>3
      <3>2. CASE m.type = "sync"
        BY <3>2 DEF DevicePollHost
      <3> QED
        BY <3>1, <3>2, <1>4, <1>6
    <2> HIDE DEF m, rest
    <2>2. \A k \in Nodes : SameAccess(k)
      <3>1. Num(toDevice'[n], Of("reply")) = Num(toDevice[n], Of("reply"))
        BY <1>4, <1>5, <1>6 DEF One
      <3> QED
        BY <1>2, <1>5, <2>1, <3>1 DEF SameAccess
    <2>3. \A j \in Nodes : SameWork(j)
      BY <1>1, <1>2, <2>1 DEF SameWork, WorkInv, Work
    <2> QED
      BY <1>1, <2>2, <2>3, WorkKept, AccessKept DEF WorkInv
  <1>7. CASE m.type = "reply"
    <2>1. d.serving # <<>>
      BY <1>7, DevicePollHostStep
    <2>2. PICK s \in Nodes : s = Head(d.serving)
      BY <1>3, <2>1, ServingCounts
    <2> DEFINE x == Message("response", d.epoch, s)
    <2>3. /\ Tail(d.serving) \in Seq(Nodes) /\ Len(Tail(d.serving)) = Len(d.serving) - 1
          /\ \A j : /\ Num(d.serving, {j}) = Num(Tail(d.serving), {j}) + One(Head(d.serving) = j)
                    /\ Num(Tail(d.serving), {j}) \in Nat
      BY <1>3, <2>1, ServingCounts
    <2>4. /\ device' = [device EXCEPT ![n] =
               [d EXCEPT !.accesses = @ - 1, !.serving = Tail(@), !.op = IF s = n THEN None ELSE @]]
          /\ toNetwork' = IF s = n THEN toNetwork ELSE [toNetwork EXCEPT ![n] = Append(@, x)]
      BY <1>7, <2>2 DEF DevicePollHost
    <2>5. /\ device'[n].op = (IF s = n THEN None ELSE d.op) /\ device'[n].target = d.target
          /\ device'[n].serving = Tail(d.serving) /\ device'[n].accesses = d.accesses - 1
          /\ device'[n].forwarded = d.forwarded
          /\ \A k \in Nodes : k # n => device'[k] = device[k]
      BY <1>3, <2>4 DEF Devices
    <2>6. d = device[n]
      OBVIOUS
    <2> HIDE DEF m, rest, d
    <2>7. \A k \in Nodes : Accesses(k)'
      <3>1. \A k \in Nodes : k # n => SameAccess(k)
        BY <1>2, <1>5, <2>5 DEF SameAccess
      <3>2. Accesses(n)'
        <4>1. /\ d.accesses = Len(d.serving) /\ dma[n] \in Nat /\ Num(toHost[n], Of("dma")) \in Nat
              /\ d.accesses = Num(toHost[n], Of("dma")) + dma[n] + Num(toDevice[n], Of("reply"))
          BY <1>1, <2>6, Local, Counts DEF WorkInv, Accesses
        <4>2. Num(toDevice[n], Of("reply")) = Num(rest, Of("reply")) + 1
          BY <1>4, <1>7 DEF One
        <4>3. d.accesses - 1 = Num(toHost[n], Of("dma")) + dma[n] + Num(rest, Of("reply"))
          BY <4>1, <4>2, <1>3, <1>4
        <4>4. d.accesses - 1 = Len(Tail(d.serving))
          BY <4>1, <2>3
        <4> QED
          BY <4>3, <4>4, <1>2, <1>5, <2>6, <2>5 DEF Accesses
      <3> QED
        BY <1>1, <3>1, <3>2, AccessKept DEF WorkInv
    <2>8. Num(d.serving, {s}) = Num(Tail(d.serving), {s}) + One(s = s) /\ Num(Tail(d.serving), {s}) \in Nat
      BY <2>3, <2>2
    <2>9. Num(d.serving, {s}) = Num(Tail(d.serving), {s}) + 1
      BY <2>8 DEF One
    <2>10. ASSUME NEW j \in Nodes, j # s
          PROVE  Num(Tail(d.serving), {j}) = Num(d.serving, {j})
      <3>1. Num(d.serving, {j}) = Num(Tail(d.serving), {j}) + One(s = j) /\ Num(Tail(d.serving), {j}) \in Nat
        BY <2>3, <2>2
      <3>2. One(s = j) = 0
        BY <2>10 DEF One
      <3> QED
        BY <3>1, <3>2
    <2>11. Num(d.serving, {s}) # 0
      BY <2>8, <2>9
    <2>12. Work(s)
      BY <1>1, <2>6 DEF WorkInv
    <2>13. CASE s = n
      <3>1. UNCHANGED toNetwork
        BY <2>4, <2>13
      <3>2. Completed(n) = 1
        BY <1>1, <2>6, <2>11, <2>13, Located
      <3>3. /\ Requested(n) = 0 /\ Sent(n) = 0 /\ Arriving(n) = 0 /\ Executed(n) = 0 /\ Responding(n) = 0
            /\ Returned(n) = 0 /\ Completing(n) = 0 /\ d.op # None
        BY <1>1, <2>12, <2>13, <2>6, <3>2, OneOperation
      <3>4. Target(n) # n /\ Target(n)' = Target(n) /\ Target(n) \in Nodes
        BY <1>1, <2>5, <2>12, <2>13, <2>6, <3>3, Local DEF Work, Target
      <3>5. Num(Tail(d.serving), {n}) = 0
        BY <2>6, <2>8, <2>9, <2>13, <3>2 DEF Completed
      <3>6. /\ Requested(n)' = 0 /\ Sent(n)' = 0 /\ Arriving(n)' = 0 /\ Executed(n)' = 0 /\ Responding(n)' = 0
            /\ Returned(n)' = 0 /\ Completing(n)' = 0 /\ Completed(n)' = 0
        BY <1>2, <2>5, <3>1, <3>3, <3>4, <3>5
           DEF Requested, Sent, Arriving, Executed, Responding, Returned, Completing, Completed
      <3>7. Outward(n)' = 0 /\ Homeward(n)' = 0
        BY <3>6 DEF Outward, Homeward
      <3>8. \A k \in Nodes : Elsewhere(n, k)'
        BY <1>2, <2>5, <2>12, <2>13, <3>1, <3>4 DEF Work, Elsewhere
      <3>9. One(network.tasks[n] = "executing") = 0
        BY <2>12, <2>13, <3>3 DEF Work
      <3>10. device'[n].op = None /\ One(device'[n].op # None) = 0
        BY <2>5, <2>13 DEF One
      <3>11. Work(n)'
        BY <1>2, <3>6, <3>7, <3>8, <3>9, <3>10 DEF Work
      <3>12. \A j \in Nodes : j # n => SameWork(j)
        BY <1>1, <1>2, <2>6, <2>5, <2>10, <2>13, <3>1 DEF SameWork, WorkInv, Work
      <3> QED
        BY <1>1, <2>7, <3>11, <3>12, WorkAtOne
    <2>14. CASE s # n
      <3>1. toNetwork'[n] = Append(toNetwork[n], x) /\ \A k \in Nodes : k # n => toNetwork'[k] = toNetwork[k]
        BY <1>3, <2>4, <2>14
      <3>2. Executed(s) = 1 /\ n = Target(s)
        BY <1>1, <2>6, <2>11, <2>14, Located
      <3>3. /\ Requested(s) = 0 /\ Sent(s) = 0 /\ Arriving(s) = 0 /\ Responding(s) = 0
            /\ Returned(s) = 0 /\ Completing(s) = 0 /\ Completed(s) = 0 /\ device[s].op # None
        BY <1>1, <2>6, <2>12, <3>2, OneOperation
      <3>4. Target(s)' = Target(s) /\ device'[s] = device[s]
        BY <2>6, <2>5, <2>14 DEF Target
      <3>5. x \in Item /\ x.type = "response" /\ x.node = s /\ x.type \in types
        BY <1>3, <2>6, Built DEF Carried
      <3> HIDE DEF x
      <3>6. \A t \in Carried, j \in Nodes :
              /\ Num(Append(toNetwork[n], x), For(t, j)) = Num(toNetwork[n], For(t, j)) + One(x.type = t /\ x.node = j)
              /\ Num(toNetwork[n], For(t, j)) \in Nat
        BY <1>3, <3>5, Sending
      <3>7. \A t \in Carried, j \in Nodes : ~(t = "response" /\ j = s) =>
              \A k \in Nodes : Num(toNetwork'[k], For(t, j)) = Num(toNetwork[k], For(t, j))
        <4>1. \A t \in Carried, j \in Nodes : ~(t = "response" /\ j = s) =>
                Num(Append(toNetwork[n], x), For(t, j)) = Num(toNetwork[n], For(t, j))
          BY <3>5, <3>6 DEF One
        <4> QED
          BY <4>1, <3>1
      <3>8. "request" \in Carried /\ "response" \in Carried
        BY DEF Carried
      <3>9. Num(toNetwork'[n], For("response", s)) = 1
        BY <2>6, <3>1, <3>2, <3>3, <3>5, <3>6, <3>8 DEF Responding, One
      <3>10. Num(Tail(d.serving), {s}) = 0
        BY <2>6, <2>8, <2>9, <3>2 DEF Executed
      <3>11. /\ Requested(s)' = 0 /\ Sent(s)' = 0 /\ Arriving(s)' = 0 /\ Executed(s)' = 0 /\ Responding(s)' = 1
             /\ Returned(s)' = 0 /\ Completing(s)' = 0 /\ Completed(s)' = 0
        BY <1>2, <2>6, <2>5, <3>2, <3>3, <3>4, <3>7, <3>8, <3>9, <3>10
           DEF Requested, Sent, Arriving, Executed, Responding, Returned, Completing, Completed
      <3>12. Outward(s)' = 0 /\ Homeward(s)' = 1
        BY <3>11 DEF Outward, Homeward
      <3>13. \A k \in Nodes : Elsewhere(s, k)'
        BY <1>2, <2>6, <2>5, <2>12, <3>1, <3>2, <3>4, <3>7, <3>8 DEF Work, Elsewhere
      <3>14. One(network.tasks[s] = "executing") = 1
        BY <2>12, <3>2, <3>3 DEF Work
      <3>15. Work(s)'
        BY <1>2, <2>12, <3>3, <3>4, <3>11, <3>12, <3>13, <3>14 DEF Work, One
      <3>16. \A j \in Nodes : j # s => SameWork(j)
        BY <1>1, <1>2, <2>6, <2>5, <2>10, <2>14, <3>7 DEF SameWork, WorkInv, Work
      <3> QED
        BY <1>1, <2>6, <2>7, <3>15, <3>16, WorkAtOne
    <2> QED
      BY <2>13, <2>14
  <1> QED
    BY <1>6, <1>7

\* Work that arrives at a device is executed or completed there.
LEMMA DevicePollNetworkWork ==
    ASSUME IInv, NEW n \in Nodes, DevicePollNetwork(n)
    PROVE  WorkInv'
  <1> DEFINE m == Head(fromNetwork[n])
             d == device[n]
             rest == Tail(fromNetwork[n])
             hostTypes == {"sync", "dma", "commit"}
             types == {"sync", "execute", "complete", "commit"}
  <1>1. TypeOK /\ WorkInv
    BY DEF IInv
  <1>2. /\ fromNetwork[n] # <<>> /\ fromNetwork' = [fromNetwork EXCEPT ![n] = rest]
        /\ UNCHANGED <<dma, network, toDevice, toNetwork>>
    BY DEF DevicePollNetwork, ReadsNetwork, hostVars
  <1>3. /\ fromNetwork[n] \in Ring(types) /\ DOMAIN fromNetwork = Nodes /\ DOMAIN toHost = Nodes
        /\ device \in [Nodes -> Devices] /\ d \in Devices /\ toHost[n] \in Ring(hostTypes)
        /\ d.epoch \in Nat /\ d.serving \in Seq(Nodes) /\ d.accesses \in Nat
    BY <1>1, Local DEF TypeOK, ProcessType, RingType
  <1>4. /\ m \in Item /\ m.type \in types
        /\ \A t \in Carried, j \in Nodes :
             /\ Num(fromNetwork[n], For(t, j)) = Num(rest, For(t, j)) + One(m.type = t /\ m.node = j)
             /\ Num(rest, For(t, j)) \in Nat
    <2>1. m \in Item /\ m.type \in types
      BY <1>2, <1>3, Reading
    <2>2. ASSUME NEW t \in Carried, NEW j \in Nodes
          PROVE  /\ Num(fromNetwork[n], For(t, j)) = Num(rest, For(t, j)) + One(m.type = t /\ m.node = j)
                 /\ Num(rest, For(t, j)) \in Nat
      BY <1>2, <1>3, Reading
    <2> QED
      BY <2>1, <2>2
  <1>5. fromNetwork'[n] = rest /\ \A k \in Nodes : k # n => fromNetwork'[k] = fromNetwork[k]
    BY <1>2, <1>3
  <1>6. "execute" \in Carried /\ "complete" \in Carried /\ "sync" \notin Carried /\ "commit" \notin Carried
    BY DEF Carried
  <1>7. CASE m.type \notin {"execute", "complete"}
    <2>1. /\ UNCHANGED toHost
          /\ \A k \in Nodes : /\ device'[k].op = device[k].op /\ device'[k].target = device[k].target
                              /\ device'[k].serving = device[k].serving /\ device'[k].accesses = device[k].accesses
                              /\ device'[k].forwarded = device[k].forwarded
      <3>1. CASE m.type = "commit"
        <4>1. device' = [device EXCEPT ![n] = [d EXCEPT !.commit = m]]
          BY <3>1, DevicePollNetworkStep
        <4>2. UNCHANGED toHost
          BY <3>1 DEF DevicePollNetwork
        <4>3. /\ device'[n].op = d.op /\ device'[n].target = d.target /\ device'[n].serving = d.serving
              /\ device'[n].accesses = d.accesses /\ device'[n].forwarded = d.forwarded
              /\ \A k \in Nodes : k # n => device'[k] = device[k]
          BY <4>1, <1>3 DEF Devices
        <4> QED
          BY <4>2, <4>3
      <3>2. CASE m.type = "sync"
        BY <3>2 DEF DevicePollNetwork
      <3> QED
        BY <3>1, <3>2, <1>4, <1>7
    <2> HIDE DEF m, rest
    <2>2. \A k \in Nodes : SameAccess(k)
      BY <1>2, <2>1 DEF SameAccess
    <2>3. \A t \in Carried, j \in Nodes : Num(rest, For(t, j)) = Num(fromNetwork[n], For(t, j))
      <3>1. m.type \notin Carried
        BY <1>4, <1>6, <1>7
      <3>2. \A t \in Carried, j \in Nodes : One(m.type = t /\ m.node = j) = 0
        BY <3>1 DEF One
      <3> QED
        BY <1>4, <3>2
    <2>4. \A k \in Nodes, t \in Carried, j \in Nodes : Num(fromNetwork'[k], For(t, j)) = Num(fromNetwork[k], For(t, j))
      BY <1>5, <2>3
    <2>5. \A j \in Nodes : SameWork(j)
      BY <1>1, <1>2, <2>1, <2>4 DEF SameWork, WorkInv, Work
    <2> QED
      BY <1>1, <2>2, <2>5, WorkKept, AccessKept DEF WorkInv
  <1>8. CASE m.type \in {"execute", "complete"}
    <2>1. PICK s \in Nodes : s = m.node
      BY <1>4, <1>6, <1>8, ItemFacts
    <2> DEFINE x == Message("dma", d.epoch, s)
    <2>2. /\ device' = [device EXCEPT ![n].accesses = @ + 1, ![n].serving = Append(@, s)]
          /\ toHost' = [toHost EXCEPT ![n] = Append(@, x)]
      BY <1>8, <2>1 DEF DevicePollNetwork, Access
    <2>3. /\ device'[n].op = d.op /\ device'[n].target = d.target
          /\ device'[n].serving = Append(d.serving, s) /\ device'[n].accesses = d.accesses + 1
          /\ device'[n].forwarded = d.forwarded
          /\ \A k \in Nodes : k # n => device'[k] = device[k]
      BY <1>3, <2>2 DEF Devices
    <2>4. toHost'[n] = Append(toHost[n], x) /\ \A k \in Nodes : k # n => toHost'[k] = toHost[k]
      BY <1>3, <2>2
    <2>5. x \in Item /\ x.type = "dma" /\ x.type \in hostTypes
      BY <1>3, Built
    <2>6. d = device[n]
      OBVIOUS
    <2>7. \A j : /\ Num(Append(d.serving, s), {j}) = Num(d.serving, {j}) + One(s = j)
                 /\ Num(d.serving, {j}) \in Nat /\ Len(Append(d.serving, s)) = Len(d.serving) + 1
      <3>1. ASSUME NEW j
            PROVE  /\ Num(Append(d.serving, s), {j}) = Num(d.serving, {j}) + One(s = j)
                   /\ Num(d.serving, {j}) \in Nat /\ Len(Append(d.serving, s)) = Len(d.serving) + 1
        <4>1. d.serving \in Seq(Nodes)
          BY <1>3
        <4> HIDE DEF d
        <4>2. Num(d.serving, {j}) \in Nat
          BY <4>1, ServingCounts
        <4>3. Len(Append(d.serving, s)) = Len(d.serving) + 1
          BY <4>1, AppendProperties
        <4>4. Num(Append(d.serving, s), {j}) = Num(d.serving, {j}) + One(s \in {j})
          BY <4>1, NumAppend
        <4> QED
          BY <4>2, <4>3, <4>4 DEF One
      <3> QED
        BY <3>1
    <2> HIDE DEF m, rest, d, x
    <2>8. \A k \in Nodes : Accesses(k)'
      <3>1. \A k \in Nodes : k # n => SameAccess(k)
        BY <1>2, <2>3, <2>4 DEF SameAccess
      <3>2. Accesses(n)'
        <4>1. /\ d.accesses = Len(d.serving) /\ dma[n] \in Nat /\ Num(toHost[n], Of("dma")) \in Nat
              /\ Num(toDevice[n], Of("reply")) \in Nat
              /\ d.accesses = Num(toHost[n], Of("dma")) + dma[n] + Num(toDevice[n], Of("reply"))
          BY <1>1, <2>6, Local, Counts DEF WorkInv, Accesses
        <4>2. Num(Append(toHost[n], x), Of("dma")) = Num(toHost[n], Of("dma")) + One(x.type = "dma")
          BY <1>3, <2>5, Sending
        <4>3. Num(toHost'[n], Of("dma")) = Num(toHost[n], Of("dma")) + 1
          BY <2>4, <2>5, <4>2 DEF One
        <4>4. d.accesses + 1 = Num(toHost'[n], Of("dma")) + dma[n] + Num(toDevice[n], Of("reply"))
          BY <4>1, <4>3, <1>3
        <4>5. d.accesses + 1 = Len(Append(d.serving, s))
          BY <4>1, <2>7
        <4> QED
          BY <4>4, <4>5, <1>2, <2>3 DEF Accesses
      <3> QED
        BY <1>1, <3>1, <3>2, AccessKept DEF WorkInv
    <2>9. Work(s)
      BY <1>1 DEF WorkInv
    <2>10. Num(Append(d.serving, s), {s}) = Num(d.serving, {s}) + 1
      <3>1. Num(Append(d.serving, s), {s}) = Num(d.serving, {s}) + One(s = s)
        BY <2>7
      <3> QED
        BY <3>1 DEF One
    <2>11. ASSUME NEW j \in Nodes, j # s
           PROVE  Num(Append(d.serving, s), {j}) = Num(d.serving, {j})
      <3>1. Num(Append(d.serving, s), {j}) = Num(d.serving, {j}) + One(s = j) /\ Num(d.serving, {j}) \in Nat
        BY <2>7
      <3>2. One(s = j) = 0
        BY <2>11 DEF One
      <3> QED
        BY <3>1, <3>2
    <2>12. \A t \in Carried, j \in Nodes : ~(t = m.type /\ j = s) =>
             \A k \in Nodes : Num(fromNetwork'[k], For(t, j)) = Num(fromNetwork[k], For(t, j))
      <3>1. \A t \in Carried, j \in Nodes : ~(t = m.type /\ j = s) => Num(rest, For(t, j)) = Num(fromNetwork[n], For(t, j))
        BY <1>4, <2>1 DEF One
      <3> QED
        BY <3>1, <1>5
    <2>13. Num(fromNetwork[n], For(m.type, s)) = Num(rest, For(m.type, s)) + 1 /\ Num(rest, For(m.type, s)) \in Nat
      <3>1. m.type \in Carried
        BY <1>6, <1>8
      <3>2. /\ Num(fromNetwork[n], For(m.type, s)) = Num(rest, For(m.type, s)) + One(m.type = m.type /\ m.node = s)
            /\ Num(rest, For(m.type, s)) \in Nat
        BY <1>4, <3>1
      <3> QED
        BY <3>2, <2>1 DEF One
    <2>14. \A j \in Nodes : j # s => SameWork(j)
      <3>1. \A j \in Nodes : j # s =>
              \A k \in Nodes : Num(device'[k].serving, {j}) = Num(device[k].serving, {j})
        BY <2>3, <2>6, <2>11
      <3>2. \A k \in Nodes : /\ device'[k].op = device[k].op /\ device'[k].target = device[k].target
                             /\ device'[k].forwarded = device[k].forwarded
        BY <2>3, <2>6
      <3> QED
        BY <1>1, <1>2, <2>12, <3>1, <3>2 DEF SameWork, WorkInv, Work
    <2>15. /\ device'[s].op = device[s].op /\ device'[s].forwarded = device[s].forwarded
           /\ Target(s)' = Target(s) /\ Target(s) \in Nodes
      BY <1>1, <2>3, <2>6, Local DEF Target
    <2>16. CASE m.type = "execute"
      <3>1. Arriving(s) = 1 /\ n = Target(s)
        <4>1. Num(fromNetwork[n], For("execute", s)) # 0
          BY <2>13, <2>16
        <4> QED
          BY <1>1, <4>1, Located
      <3>2. /\ Requested(s) = 0 /\ Sent(s) = 0 /\ Executed(s) = 0 /\ Responding(s) = 0
            /\ Returned(s) = 0 /\ Completing(s) = 0 /\ Completed(s) = 0 /\ device[s].op # None
        BY <1>1, <2>9, <3>1, OneOperation
      <3>3. n # s
        BY <2>9, <3>1, <3>2 DEF Work
      <3>4. Num(rest, For("execute", s)) = 0
        BY <2>13, <2>16, <3>1 DEF Arriving
      <3>5. Num(device'[n].serving, {s}) = 1
        BY <2>3, <2>6, <2>10, <3>1, <3>2 DEF Executed
      <3>6. /\ Requested(s)' = 0 /\ Sent(s)' = 0 /\ Arriving(s)' = 0 /\ Executed(s)' = 1 /\ Responding(s)' = 0
            /\ Returned(s)' = 0 /\ Completing(s)' = 0 /\ Completed(s)' = 0
        BY <1>2, <1>5, <1>6, <2>3, <2>12, <2>15, <2>16, <3>1, <3>2, <3>3, <3>4, <3>5
           DEF Requested, Sent, Arriving, Executed, Responding, Returned, Completing, Completed
      <3>7. Outward(s)' = 1 /\ Homeward(s)' = 0
        BY <3>6 DEF Outward, Homeward
      <3>8. \A k \in Nodes : Elsewhere(s, k)'
        BY <1>2, <1>5, <1>6, <2>3, <2>9, <2>12, <2>15, <2>16, <3>1 DEF Work, Elsewhere
      <3>9. One(network.tasks[s] = "executing") = 1
        BY <2>9, <3>1, <3>2 DEF Work
      <3>10. Work(s)'
        BY <1>2, <2>9, <2>15, <3>1, <3>2, <3>6, <3>7, <3>8, <3>9 DEF Work, One
      <3> QED
        BY <1>1, <2>8, <2>14, <3>10, WorkAtOne
    <2>17. CASE m.type = "complete"
      <3>1. Completing(s) = 1 /\ n = s
        <4>1. Num(fromNetwork[n], For("complete", s)) # 0
          BY <2>13, <2>17
        <4> QED
          BY <1>1, <4>1, Located
      <3>2. /\ Requested(s) = 0 /\ Sent(s) = 0 /\ Arriving(s) = 0 /\ Executed(s) = 0 /\ Responding(s) = 0
            /\ Returned(s) = 0 /\ Completed(s) = 0 /\ device[s].op # None
        BY <1>1, <2>9, <3>1, OneOperation
      <3>3. Target(s) # s
        BY <2>9, <3>2 DEF Work
      <3>4. Num(rest, For("complete", s)) = 0
        BY <2>13, <2>17, <3>1 DEF Completing
      <3>5. Num(device'[s].serving, {s}) = 1
        <4>1. Num(d.serving, {s}) = 0
          BY <2>6, <3>1, <3>2 DEF Completed
        <4> QED
          <5>1. device'[s].serving = Append(d.serving, s)
            BY <2>3, <3>1
          <5>2. Num(Append(d.serving, s), {s}) = 1
            BY <2>10, <4>1
          <5> QED
            BY <5>1, <5>2
      <3>6. /\ Requested(s)' = 0 /\ Sent(s)' = 0 /\ Arriving(s)' = 0 /\ Executed(s)' = 0 /\ Responding(s)' = 0
            /\ Returned(s)' = 0 /\ Completing(s)' = 0 /\ Completed(s)' = 1
        BY <1>2, <1>5, <1>6, <2>3, <2>12, <2>15, <2>17, <3>1, <3>2, <3>3, <3>4, <3>5
           DEF Requested, Sent, Arriving, Executed, Responding, Returned, Completing, Completed
      <3>7. Outward(s)' = 0 /\ Homeward(s)' = 1
        BY <3>6 DEF Outward, Homeward
      <3>8. \A k \in Nodes : Elsewhere(s, k)'
        BY <1>2, <1>5, <1>6, <2>3, <2>9, <2>12, <2>15, <2>17, <3>1 DEF Work, Elsewhere
      <3>9. One(network.tasks[s] = "executing") = 0
        BY <2>9, <3>2 DEF Work
      <3>10. Work(s)'
        BY <1>2, <2>9, <2>15, <3>2, <3>6, <3>7, <3>8, <3>9 DEF Work, One
      <3> QED
        BY <1>1, <2>8, <2>14, <3>10, WorkAtOne
    <2> QED
      BY <1>8, <2>16, <2>17
  <1> QED
    BY <1>7, <1>8

\* A task is at the network when it is requested or answered.
LEMMA NetworkPollWork ==
    ASSUME IInv, NEW n \in Nodes, NetworkPoll(n)
    PROVE  WorkInv'
  <1> DEFINE m == Head(toNetwork[n])
             rest == Tail(toNetwork[n])
             types == {"sync", "request", "response", "prepare"}
  <1>1. TypeOK /\ WorkInv
    BY DEF IInv
  <1>2. /\ toNetwork[n] # <<>> /\ toNetwork' = [toNetwork EXCEPT ![n] = rest]
        /\ UNCHANGED <<dma, device, toDevice, toHost, fromNetwork>>
    BY DEF NetworkPoll, hostVars
  <1>3. toNetwork[n] \in Ring(types) /\ DOMAIN toNetwork = Nodes /\ network \in Networks
    BY <1>1, Local DEF TypeOK, ProcessType, RingType
  <1>4. /\ m \in Item /\ m.type \in types
        /\ \A t \in Carried, j \in Nodes :
             /\ Num(toNetwork[n], For(t, j)) = Num(rest, For(t, j)) + One(m.type = t /\ m.node = j)
             /\ Num(rest, For(t, j)) \in Nat
    <2>1. m \in Item /\ m.type \in types
      BY <1>2, <1>3, Reading
    <2>2. ASSUME NEW t \in Carried, NEW j \in Nodes
          PROVE  /\ Num(toNetwork[n], For(t, j)) = Num(rest, For(t, j)) + One(m.type = t /\ m.node = j)
                 /\ Num(rest, For(t, j)) \in Nat
      BY <1>2, <1>3, Reading
    <2> QED
      BY <2>1, <2>2
  <1>5. toNetwork'[n] = rest /\ \A k \in Nodes : k # n => toNetwork'[k] = toNetwork[k]
    BY <1>2, <1>3
  <1>6. "request" \in Carried /\ "response" \in Carried /\ "sync" \notin Carried /\ "prepare" \notin Carried
    BY DEF Carried
  <1>7. \A k \in Nodes : Accesses(k)'
    <2>1. \A k \in Nodes : SameAccess(k)
      BY <1>2 DEF SameAccess
    <2> QED
      BY <1>1, <2>1, AccessKept DEF WorkInv
  <1>8. CASE m.type \notin {"request", "response"}
    <2>1. network'.tasks = network.tasks
      <3>1. CASE m.type = "prepare"
        <4>1. network' = [network EXCEPT !.prepared[n] = m]
          BY <3>1 DEF NetworkPoll
        <4> QED
          BY <4>1, <1>3 DEF Networks
      <3>2. CASE m.type = "sync"
        BY <3>2 DEF NetworkPoll
      <3> QED
        BY <3>1, <3>2, <1>4, <1>8
    <2> HIDE DEF m, rest
    <2>2. \A t \in Carried, j \in Nodes : Num(rest, For(t, j)) = Num(toNetwork[n], For(t, j))
      <3>1. m.type \notin Carried
        BY <1>4, <1>6, <1>8
      <3>2. \A t \in Carried, j \in Nodes : One(m.type = t /\ m.node = j) = 0
        BY <3>1 DEF One
      <3> QED
        BY <1>4, <3>2
    <2>3. \A k \in Nodes, t \in Carried, j \in Nodes : Num(toNetwork'[k], For(t, j)) = Num(toNetwork[k], For(t, j))
      BY <1>5, <2>2
    <2>4. \A j \in Nodes : SameWork(j)
      BY <1>1, <1>2, <2>1, <2>3 DEF SameWork, WorkInv, Work
    <2> QED
      BY <1>1, <1>7, <2>4, WorkKept DEF WorkInv
  <1>9. CASE m.type \in {"request", "response"}
    <2>1. PICK s \in Nodes : s = m.node
      BY <1>4, <1>6, <1>9, ItemFacts
    <2>2. Work(s)
      BY <1>1 DEF WorkInv
    <2>3. \A t \in Carried, j \in Nodes : ~(t = m.type /\ j = s) =>
            \A k \in Nodes : Num(toNetwork'[k], For(t, j)) = Num(toNetwork[k], For(t, j))
      <3> HIDE DEF m, rest
      <3>1. \A t \in Carried, j \in Nodes : ~(t = m.type /\ j = s) => Num(rest, For(t, j)) = Num(toNetwork[n], For(t, j))
        BY <1>4, <2>1 DEF One
      <3> QED
        BY <3>1, <1>5
    <2>4. Num(toNetwork[n], For(m.type, s)) = Num(rest, For(m.type, s)) + 1 /\ Num(rest, For(m.type, s)) \in Nat
      <3> HIDE DEF m, rest
      <3>1. m.type \in Carried
        BY <1>6, <1>9
      <3>2. /\ Num(toNetwork[n], For(m.type, s)) = Num(rest, For(m.type, s)) + One(m.type = m.type /\ m.node = s)
            /\ Num(rest, For(m.type, s)) \in Nat
        BY <1>4, <3>1
      <3> QED
        BY <3>2, <2>1 DEF One
    <2>5. Target(s)' = Target(s) /\ Target(s) \in Nodes
      BY <1>1, <1>2, Local DEF Target
    <2>6. CASE m.type = "request"
      <3>1. Requested(s) = 1 /\ n = s
        <4>1. Num(toNetwork[n], For("request", s)) # 0
          BY <2>4, <2>6
        <4> QED
          BY <1>1, <4>1, Located
      <3>2. /\ Sent(s) = 0 /\ Arriving(s) = 0 /\ Executed(s) = 0 /\ Responding(s) = 0
            /\ Returned(s) = 0 /\ Completing(s) = 0 /\ Completed(s) = 0 /\ device[s].op # None
        BY <1>1, <2>2, <3>1, OneOperation
      <3>3. /\ network'.tasks[s] = "new" /\ \A j \in Nodes : j # s => network'.tasks[j] = network.tasks[j]
        <4>1. network' = [network EXCEPT !.tasks[s] = "new"]
          BY <2>6, <3>1 DEF NetworkPoll
        <4> QED
          BY <4>1, <1>3 DEF Networks
      <3> HIDE DEF m, rest
      <3>4. Num(rest, For("request", s)) = 0
        BY <2>4, <2>6, <3>1 DEF Requested
      <3>5. /\ Requested(s)' = 0 /\ Sent(s)' = 1 /\ Arriving(s)' = 0 /\ Executed(s)' = 0 /\ Responding(s)' = 0
            /\ Returned(s)' = 0 /\ Completing(s)' = 0 /\ Completed(s)' = 0
        BY <1>2, <1>5, <1>6, <2>3, <2>5, <2>6, <3>1, <3>2, <3>3, <3>4
           DEF Requested, Sent, Arriving, Executed, Responding, Returned, Completing, Completed, One
      <3>6. Outward(s)' = 1 /\ Homeward(s)' = 0
        BY <3>5 DEF Outward, Homeward
      <3>7. \A k \in Nodes : Elsewhere(s, k)'
        BY <1>2, <1>5, <1>6, <2>2, <2>3, <2>5, <2>6, <3>1 DEF Work, Elsewhere
      <3>8. One(network'.tasks[s] = "executing") = 0
        BY <3>3 DEF One
      <3>9. Work(s)'
        BY <1>2, <2>2, <2>5, <3>2, <3>5, <3>6, <3>7, <3>8 DEF Work, One
      <3>10. \A j \in Nodes : j # s => SameWork(j)
        BY <1>1, <1>2, <2>3, <3>3 DEF SameWork, WorkInv, Work
      <3> QED
        BY <1>1, <1>7, <3>9, <3>10, WorkAtOne
    <2>7. CASE m.type = "response"
      <3>1. Responding(s) = 1 /\ n = Target(s)
        <4>1. Num(toNetwork[n], For("response", s)) # 0
          BY <2>4, <2>7
        <4> QED
          BY <1>1, <4>1, Located
      <3>2. /\ Requested(s) = 0 /\ Sent(s) = 0 /\ Arriving(s) = 0 /\ Executed(s) = 0
            /\ Returned(s) = 0 /\ Completing(s) = 0 /\ Completed(s) = 0 /\ device[s].op # None
        BY <1>1, <2>2, <3>1, OneOperation
      <3>3. /\ network'.tasks[s] = "executed" /\ \A j \in Nodes : j # s => network'.tasks[j] = network.tasks[j]
        <4>1. network' = [network EXCEPT !.tasks[s] = "executed"]
          BY <2>1, <2>7 DEF NetworkPoll
        <4> QED
          BY <4>1, <1>3 DEF Networks
      <3> HIDE DEF m, rest
      <3>4. Num(rest, For("response", s)) = 0
        BY <2>4, <2>7, <3>1 DEF Responding
      <3>5. /\ Requested(s)' = 0 /\ Sent(s)' = 0 /\ Arriving(s)' = 0 /\ Executed(s)' = 0 /\ Responding(s)' = 0
            /\ Returned(s)' = 1 /\ Completing(s)' = 0 /\ Completed(s)' = 0
        BY <1>2, <1>5, <1>6, <2>3, <2>5, <2>7, <3>1, <3>2, <3>3, <3>4
           DEF Requested, Sent, Arriving, Executed, Responding, Returned, Completing, Completed, One
      <3>6. Outward(s)' = 0 /\ Homeward(s)' = 1
        BY <3>5 DEF Outward, Homeward
      <3>7. \A k \in Nodes : Elsewhere(s, k)'
        BY <1>2, <1>5, <1>6, <2>2, <2>3, <2>5, <2>7, <3>1 DEF Work, Elsewhere
      <3>8. One(network'.tasks[s] = "executing") = 0
        BY <3>3 DEF One
      <3>9. Work(s)'
        BY <1>2, <2>2, <2>5, <3>2, <3>5, <3>6, <3>7, <3>8 DEF Work, One
      <3>10. \A j \in Nodes : j # s => SameWork(j)
        BY <1>1, <1>2, <2>3, <3>3 DEF SameWork, WorkInv, Work
      <3> QED
        BY <1>1, <1>7, <3>9, <3>10, WorkAtOne
    <2> QED
      BY <1>9, <2>6, <2>7
  <1> QED
    BY <1>8, <1>9

\* A task leaves the network for its target or for its source.
LEMMA NetworkDeliverWork ==
    ASSUME IInv, NEW n \in Nodes, NetworkDeliver(n)
    PROVE  WorkInv'
  <1> DEFINE types == {"sync", "execute", "complete", "commit"}
             new == network.tasks[n] = "new"
  <1>1. TypeOK /\ WorkInv /\ Work(n)
    BY DEF IInv, WorkInv
  <1>2. UNCHANGED <<dma, device, toDevice, toHost, toNetwork>>
    BY DEF NetworkDeliver, hostVars
  <1>3. /\ DOMAIN fromNetwork = Nodes /\ network \in Networks /\ network.epoch \in Nat
        /\ Target(n) \in Nodes /\ Target(n)' = Target(n)
    BY <1>1, <1>2, Local DEF TypeOK, ProcessType, RingType, Target
  <1>4. PICK to \in Nodes, type \in {"execute", "complete"} :
          /\ new => to = Target(n) /\ type = "execute"
          /\ ~new => to = n /\ type = "complete"
    BY <1>3
  <1> DEFINE x == Message(type, network.epoch, n)
  <1>5. /\ fromNetwork' = [fromNetwork EXCEPT ![to] = Append(@, x)]
        /\ network' = [network EXCEPT !.tasks[n] = IF new THEN "executing" ELSE None]
        /\ ~new => network.tasks[n] = "executed"
    BY <1>4 DEF NetworkDeliver, Target
  <1>6. /\ network'.tasks[n] = (IF new THEN "executing" ELSE None)
        /\ \A j \in Nodes : j # n => network'.tasks[j] = network.tasks[j]
    BY <1>3, <1>5 DEF Networks
  <1>7. fromNetwork'[to] = Append(fromNetwork[to], x) /\ \A k \in Nodes : k # to => fromNetwork'[k] = fromNetwork[k]
    BY <1>3, <1>5
  <1>8. x \in Item /\ x.type = type /\ x.node = n /\ x.type \in types /\ fromNetwork[to] \in Ring(types)
    BY <1>1, <1>3, Built, Local DEF Carried
  <1>9. "execute" \in Carried /\ "complete" \in Carried /\ type \in Carried
    BY DEF Carried
  <1> HIDE DEF x
  <1>10. \A t \in Carried, j \in Nodes :
           /\ Num(Append(fromNetwork[to], x), For(t, j)) = Num(fromNetwork[to], For(t, j)) + One(x.type = t /\ x.node = j)
           /\ Num(fromNetwork[to], For(t, j)) \in Nat
    BY <1>8, Sending
  <1>11. \A t \in Carried, j \in Nodes : ~(t = type /\ j = n) =>
           \A k \in Nodes : Num(fromNetwork'[k], For(t, j)) = Num(fromNetwork[k], For(t, j))
    <2>1. \A t \in Carried, j \in Nodes : ~(t = type /\ j = n) =>
            Num(Append(fromNetwork[to], x), For(t, j)) = Num(fromNetwork[to], For(t, j))
      BY <1>8, <1>10 DEF One
    <2> QED
      BY <2>1, <1>7
  <1>12. Num(fromNetwork'[to], For(type, n)) = Num(fromNetwork[to], For(type, n)) + 1
    BY <1>7, <1>8, <1>9, <1>10 DEF One
  <1>13. \A k \in Nodes : Accesses(k)'
    <2>1. \A k \in Nodes : SameAccess(k)
      BY <1>2 DEF SameAccess
    <2> QED
      BY <1>1, <2>1, AccessKept DEF WorkInv
  <1>14. \A j \in Nodes : j # n => SameWork(j)
    BY <1>1, <1>2, <1>6, <1>11 DEF SameWork, WorkInv, Work
  <1>15. CASE new
    <2>1. Sent(n) = 1
      BY <1>15 DEF Sent, One
    <2>2. /\ Requested(n) = 0 /\ Arriving(n) = 0 /\ Executed(n) = 0 /\ Responding(n) = 0
          /\ Returned(n) = 0 /\ Completing(n) = 0 /\ Completed(n) = 0 /\ device[n].op # None
      BY <1>1, <2>1, OneOperation
    <2>3. to = Target(n) /\ type = "execute" /\ network'.tasks[n] = "executing"
      BY <1>4, <1>6, <1>15
    <2>4. Num(fromNetwork'[to], For("execute", n)) = 1
      BY <1>12, <2>2, <2>3 DEF Arriving
    <2>5. /\ Requested(n)' = 0 /\ Sent(n)' = 0 /\ Arriving(n)' = 1 /\ Executed(n)' = 0 /\ Responding(n)' = 0
          /\ Returned(n)' = 0 /\ Completing(n)' = 0 /\ Completed(n)' = 0
      BY <1>2, <1>3, <1>9, <1>11, <2>2, <2>3, <2>4
         DEF Requested, Sent, Arriving, Executed, Responding, Returned, Completing, Completed, One
    <2>6. Outward(n)' = 1 /\ Homeward(n)' = 0
      BY <2>5 DEF Outward, Homeward
    <2>7. \A k \in Nodes : Elsewhere(n, k)'
      <3>1. \A k \in Nodes : Num(fromNetwork'[k], For("complete", n)) = Num(fromNetwork[k], For("complete", n))
        BY <1>9, <1>11, <2>3
      <3>2. \A k \in Nodes : k # Target(n) => Num(fromNetwork'[k], For("execute", n)) = Num(fromNetwork[k], For("execute", n))
        BY <1>7, <2>3
      <3>3. \A k \in Nodes : Elsewhere(n, k)
        BY <1>1 DEF Work
      <3> QED
        BY <1>2, <1>3, <3>1, <3>2, <3>3 DEF Elsewhere
    <2>8. One(network'.tasks[n] = "executing") = 1
      BY <2>3 DEF One
    <2>9. Work(n)'
      BY <1>1, <1>2, <1>3, <2>2, <2>5, <2>6, <2>7, <2>8 DEF Work, One
    <2> QED
      BY <1>1, <1>13, <1>14, <2>9, WorkAtOne
  <1>16. CASE ~new
    <2>1. Returned(n) = 1
      BY <1>5, <1>16 DEF Returned, One
    <2>2. /\ Requested(n) = 0 /\ Sent(n) = 0 /\ Arriving(n) = 0 /\ Executed(n) = 0 /\ Responding(n) = 0
          /\ Completing(n) = 0 /\ Completed(n) = 0 /\ device[n].op # None
      BY <1>1, <2>1, OneOperation
    <2>3. to = n /\ type = "complete" /\ network'.tasks[n] = None
      BY <1>4, <1>6, <1>16
    <2>4. Num(fromNetwork'[n], For("complete", n)) = 1
      BY <1>12, <2>2, <2>3 DEF Completing
    <2>5. /\ Requested(n)' = 0 /\ Sent(n)' = 0 /\ Arriving(n)' = 0 /\ Executed(n)' = 0 /\ Responding(n)' = 0
          /\ Returned(n)' = 0 /\ Completing(n)' = 1 /\ Completed(n)' = 0
      BY <1>2, <1>3, <1>9, <1>11, <2>2, <2>3, <2>4
         DEF Requested, Sent, Arriving, Executed, Responding, Returned, Completing, Completed, One, None
    <2>6. Outward(n)' = 0 /\ Homeward(n)' = 1
      BY <2>5 DEF Outward, Homeward
    <2>7. \A k \in Nodes : Elsewhere(n, k)'
      <3>1. \A k \in Nodes : Num(fromNetwork'[k], For("execute", n)) = Num(fromNetwork[k], For("execute", n))
        BY <1>9, <1>11, <2>3
      <3>2. \A k \in Nodes : k # n => Num(fromNetwork'[k], For("complete", n)) = Num(fromNetwork[k], For("complete", n))
        BY <1>7, <2>3
      <3>3. \A k \in Nodes : Elsewhere(n, k)
        BY <1>1 DEF Work
      <3> QED
        BY <1>2, <1>3, <3>1, <3>2, <3>3 DEF Elsewhere
    <2>8. One(network'.tasks[n] = "executing") = 0
      BY <2>3 DEF One, None
    <2>9. Work(n)'
      BY <1>1, <1>2, <1>3, <2>2, <2>5, <2>6, <2>7, <2>8 DEF Work, One
    <2> QED
      BY <1>1, <1>13, <1>14, <2>9, WorkAtOne
  <1> QED
    BY <1>15, <1>16

----------------------------------------------------------------------------
(* Steps of guests and users that send nothing, and the end of a device *)

\* A step that touches neither a fence nor an operation.
LEMMA QuietStep ==
    ASSUME IInv, UNCHANGED <<lifecycle, adapter, dma, network, toDevice, toHost, toNetwork, fromNetwork>>,
           \A k \in Nodes : \E s : device'[k] = [device[k] EXCEPT !.state = s]
    PROVE  FenceInv' /\ WorkInv'
  <1>1. TypeOK /\ FenceInv /\ WorkInv
    BY DEF IInv
  <1>2. ASSUME NEW k \in Nodes
        PROVE  /\ device'[k].op = device[k].op /\ device'[k].target = device[k].target
               /\ device'[k].serving = device[k].serving /\ device'[k].accesses = device[k].accesses
               /\ device'[k].prepare = device[k].prepare /\ device'[k].generation = device[k].generation
               /\ device'[k].forwarded = device[k].forwarded /\ device'[k].commit = device[k].commit
               /\ device'[k].active = device[k].active /\ device'[k].epoch = device[k].epoch
    <2>1. device[k] \in Devices
      BY <1>1, Local
    <2> QED
      BY <2>1 DEF Devices
  <1>3. \A k \in Nodes : SameFence(k)
    BY <1>2 DEF SameFence
  <1>4. FenceInv'
    <2>1. \A k \in Nodes : Phase(k)' /\ Fields(k)' /\ Rings(k)'
      BY <1>1, <1>3, FenceKept DEF FenceInv
    <2> QED
      BY <1>1, <2>1 DEF FenceInv
  <1>5. \A k \in Nodes : SameAccess(k)
    BY <1>2 DEF SameAccess
  <1>6. \A j \in Nodes : SameWork(j)
    BY <1>1, <1>2 DEF SameWork, WorkInv, Work
  <1>7. WorkInv'
    BY <1>1, <1>5, <1>6, WorkKept, AccessKept DEF WorkInv
  <1> QED
    BY <1>4, <1>7

----------------------------------------------------------------------------
(* The program of a guest, and its CPU *)

\* The last steps of a program: what Tail leaves is left of it too.
LEMMA LeftOfFacts ==
    ASSUME NEW p \in Seq(Steps), NEW s \in Seq(Steps)
    PROVE  /\ LeftOf(p, p) /\ LeftOf(<<>>, p)
           /\ s # <<>> /\ LeftOf(s, p) =>
                /\ Len(s) \in 1 .. Len(p) /\ Head(s) = p[Len(p) - Len(s) + 1]
                /\ LeftOf(Tail(s), p) /\ Tail(s) \in Seq(Steps) /\ Len(Tail(s)) = Len(s) - 1
  <1>1. LeftOf(p, p) /\ LeftOf(<<>>, p)
    BY DEF LeftOf
  <1>2. ASSUME s # <<>>, LeftOf(s, p)
        PROVE  /\ Len(s) \in 1 .. Len(p) /\ Head(s) = p[Len(p) - Len(s) + 1]
               /\ LeftOf(Tail(s), p) /\ Tail(s) \in Seq(Steps) /\ Len(Tail(s)) = Len(s) - 1
    <2>1. Len(s) \in Nat /\ Len(p) \in Nat /\ Len(s) > 0 /\ Len(s) <= Len(p) /\ Head(s) = s[1]
      BY <1>2 DEF LeftOf
    <2>2. Tail(s) \in Seq(Steps) /\ Len(Tail(s)) = Len(s) - 1 /\ \A i \in 1 .. Len(s) - 1 : Tail(s)[i] = s[i + 1]
      BY <1>2
    <2>3. Head(s) = p[Len(p) - Len(s) + 1]
      BY <1>2, <2>1 DEF LeftOf
    <2>4. ASSUME NEW i \in 1 .. Len(s) - 1
          PROVE  Tail(s)[i] = p[Len(p) - (Len(s) - 1) + i]
      <3>1. i + 1 \in 1 .. Len(s)
        BY <2>1
      <3>2. s[i + 1] = p[Len(p) - Len(s) + (i + 1)]
        BY <1>2, <3>1 DEF LeftOf
      <3>3. Len(p) - Len(s) + (i + 1) = Len(p) - (Len(s) - 1) + i
        BY <2>1
      <3> QED
        BY <2>2, <3>2, <3>3
    <2> QED
      BY <2>1, <2>2, <2>3, <2>4 DEF LeftOf
  <1> QED
    BY <1>1, <1>2

\* A program without steps is at its end.
LEMMA EmptyLen ==
    ASSUME NEW q \in Seq(Steps)
    PROVE  q = <<>> <=> Len(q) = 0
  OBVIOUS

\* The benchmarks, step by step.
LEMMA BenchmarkLayout ==
    /\ Len(Benchmark("bandwidth")) = 4 /\ Len(Benchmark("latency")) = 6 /\ Len(Benchmark("plain")) = 1
    /\ Benchmark("bandwidth")[1] = "work" /\ Benchmark("bandwidth")[2] = "fence"
    /\ Benchmark("bandwidth")[3] = "loop" /\ Benchmark("bandwidth")[4] = "fence"
    /\ Benchmark("latency")[1] = "work" /\ Benchmark("latency")[2] = "fence"
    /\ Benchmark("latency")[3] = "switchcpu" /\ Benchmark("latency")[4] = "loop"
    /\ Benchmark("latency")[5] = "switchcpu" /\ Benchmark("latency")[6] = "fence"
    /\ Benchmark("plain")[1] = "work"
    /\ Len(Checkpointing) = 1 /\ Checkpointing[1] = "checkpoint"
  BY DEF Benchmark, Bandwidth, Latency, Plain, Checkpointing

\* Where a guest is, by what is next in its program.
LEMMA Place ==
    ASSUME TypeOK, NEW n \in Nodes, Programs(n), program[n] # <<>>
    PROVE  /\ session.benchmark \in {"bandwidth", "latency", "plain"}
           /\ Len(program[n]) \in Nat \ {0} /\ Len(Tail(program[n])) = Len(program[n]) - 1
           /\ Tail(program[n]) \in Seq(Steps) /\ Head(program[n]) \in Steps
           /\ Head(program[n]) # "checkpoint" =>
                /\ Testing(n) /\ LeftOf(Tail(program[n]), Benchmark(session.benchmark))
                /\ session.benchmark = "bandwidth" => Len(program[n]) \in 1 .. 4
                /\ session.benchmark = "latency" => Len(program[n]) \in 1 .. 6
                /\ session.benchmark = "plain" => Len(program[n]) = 1
           /\ Head(program[n]) = "checkpoint" => /\ ~Testing(n) /\ Len(program[n]) = 1 /\ Tail(program[n]) = <<>>
           /\ Testing(n) => Head(program[n]) =
                Benchmark(session.benchmark)[Len(Benchmark(session.benchmark)) - Len(program[n]) + 1]
  <1> DEFINE b == Benchmark(session.benchmark)
             p == program[n]
  <1>1. session.benchmark \in {"bandwidth", "latency", "plain"} /\ p \in Seq(Steps)
    BY SessionsAssumption DEF TypeOK, GuestType
  <1>2. b \in Seq(Steps) /\ Checkpointing \in Seq(Steps)
    BY <1>1, BenchmarkSteps
  <1>3. Len(p) \in Nat \ {0} /\ Len(Tail(p)) = Len(p) - 1 /\ Tail(p) \in Seq(Steps) /\ Head(p) \in Steps
    BY <1>1
  <1>4. LeftOf(p, b) \/ LeftOf(p, Checkpointing)
    BY DEF Programs
  <1>5. LeftOf(p, Checkpointing) => Head(p) = "checkpoint" /\ Len(p) = 1
    <2>1. LeftOf(p, Checkpointing) => /\ Len(p) \in 1 .. Len(Checkpointing)
                                      /\ Head(p) = Checkpointing[Len(Checkpointing) - Len(p) + 1]
      BY <1>1, <1>2, LeftOfFacts
    <2>2. LeftOf(p, Checkpointing) => Len(p) = 1
      BY <2>1, <1>3, BenchmarkLayout
    <2>3. LeftOf(p, Checkpointing) => Head(p) = Checkpointing[1]
      <3>1. SUFFICES ASSUME LeftOf(p, Checkpointing)
                     PROVE  Head(p) = Checkpointing[1]
        OBVIOUS
      <3>2. Len(p) = 1 /\ Len(Checkpointing) = 1 /\ Head(p) = p[1]
        BY <1>1, <2>2, <3>1, BenchmarkLayout
      <3> HIDE DEF p
      <3> QED
        BY <3>1, <3>2 DEF LeftOf
    <2> QED
      BY <2>2, <2>3, BenchmarkLayout
  <1>6. LeftOf(p, b) => /\ Len(p) \in 1 .. Len(b) /\ Head(p) = b[Len(b) - Len(p) + 1]
                        /\ LeftOf(Tail(p), b)
    BY <1>1, <1>2, LeftOfFacts
  <1>7. LeftOf(p, b) =>
          /\ session.benchmark = "bandwidth" => Len(p) \in 1 .. 4
          /\ session.benchmark = "latency" => Len(p) \in 1 .. 6
          /\ session.benchmark = "plain" => Len(p) = 1
          /\ Head(p) # "checkpoint"
    <2>1. CASE session.benchmark = "bandwidth"
      <3>1. Len(b) = 4 /\ (LeftOf(p, b) => Len(p) \in 1 .. 4)
        BY <2>1, <1>6, BenchmarkLayout
      <3>2. LeftOf(p, b) /\ Len(p) = 4 => Head(p) = b[1]
        BY <3>1, <1>6
      <3>3. LeftOf(p, b) /\ Len(p) = 3 => Head(p) = b[2]
        BY <3>1, <1>6
      <3>4. LeftOf(p, b) /\ Len(p) = 2 => Head(p) = b[3]
        BY <3>1, <1>6
      <3>5. LeftOf(p, b) /\ Len(p) = 1 => Head(p) = b[4]
        BY <3>1, <1>6
      <3> QED
        BY <2>1, <3>1, <3>2, <3>3, <3>4, <3>5, BenchmarkLayout
    <2>2. CASE session.benchmark = "latency"
      <3>1. Len(b) = 6 /\ (LeftOf(p, b) => Len(p) \in 1 .. 6)
        BY <2>2, <1>6, BenchmarkLayout
      <3>2. LeftOf(p, b) /\ Len(p) = 6 => Head(p) = b[1]
        BY <3>1, <1>6
      <3>3. LeftOf(p, b) /\ Len(p) = 5 => Head(p) = b[2]
        BY <3>1, <1>6
      <3>4. LeftOf(p, b) /\ Len(p) = 4 => Head(p) = b[3]
        BY <3>1, <1>6
      <3>5. LeftOf(p, b) /\ Len(p) = 3 => Head(p) = b[4]
        BY <3>1, <1>6
      <3>6. LeftOf(p, b) /\ Len(p) = 2 => Head(p) = b[5]
        BY <3>1, <1>6
      <3>7. LeftOf(p, b) /\ Len(p) = 1 => Head(p) = b[6]
        BY <3>1, <1>6
      <3> QED
        BY <2>2, <3>1, <3>2, <3>3, <3>4, <3>5, <3>6, <3>7, BenchmarkLayout
    <2>3. CASE session.benchmark = "plain"
      <3>1. Len(b) = 1 /\ (LeftOf(p, b) => Len(p) \in 1 .. 1)
        BY <2>3, <1>6, BenchmarkLayout
      <3>2. LeftOf(p, b) /\ Len(p) = 1 => Head(p) = b[1]
        BY <3>1, <1>6
      <3> QED
        BY <2>3, <3>1, <3>2, BenchmarkLayout
    <2> QED
      BY <1>1, <2>1, <2>2, <2>3
  <1>8. Len(p) = 1 => Tail(p) = <<>>
    <2>1. Len(p) = 1 => Len(Tail(p)) = 0
      BY <1>3
    <2> HIDE DEF p
    <2> QED
      BY <1>3, <2>1, EmptyLen
  <1> QED
    BY <1>1, <1>3, <1>4, <1>5, <1>6, <1>7, <1>8 DEF Testing

\* The places of a guest in the benchmark of its session.
LEMMA Where ==
    ASSUME TypeOK, NEW n \in Nodes, Programs(n), program[n] # <<>>, Head(program[n]) # "checkpoint"
    PROVE  /\ Testing(n) /\ (adapter[n].active <=> Len(program[n]) <= Inside(session.benchmark))
           /\ \/ /\ session.benchmark = "bandwidth" /\ Inside(session.benchmark) = 2
                 /\ \/ Len(program[n]) = 4 /\ Head(program[n]) = "work"
                    \/ Len(program[n]) = 3 /\ Head(program[n]) = "fence"
                    \/ Len(program[n]) = 2 /\ Head(program[n]) = "loop"
                    \/ Len(program[n]) = 1 /\ Head(program[n]) = "fence"
              \/ /\ session.benchmark = "latency" /\ Inside(session.benchmark) = 4
                 /\ \/ Len(program[n]) = 6 /\ Head(program[n]) = "work"
                    \/ Len(program[n]) = 5 /\ Head(program[n]) = "fence"
                    \/ Len(program[n]) = 4 /\ Head(program[n]) = "switchcpu"
                    \/ Len(program[n]) = 3 /\ Head(program[n]) = "loop"
                    \/ Len(program[n]) = 2 /\ Head(program[n]) = "switchcpu"
                    \/ Len(program[n]) = 1 /\ Head(program[n]) = "fence"
              \/ /\ session.benchmark = "plain" /\ Inside(session.benchmark) = 0
                 /\ Len(program[n]) = 1 /\ Head(program[n]) = "work"
  <1> DEFINE b == Benchmark(session.benchmark)
             p == program[n]
  <1>1. /\ session.benchmark \in {"bandwidth", "latency", "plain"} /\ Testing(n)
        /\ session.benchmark = "bandwidth" => Len(p) \in 1 .. 4
        /\ session.benchmark = "latency" => Len(p) \in 1 .. 6
        /\ session.benchmark = "plain" => Len(p) = 1
        /\ Head(p) = b[Len(b) - Len(p) + 1]
    BY Place
  <1>2. adapter[n].active <=> Len(p) <= Inside(session.benchmark)
    BY <1>1 DEF Programs
  <1> HIDE DEF p
  <1>3. CASE session.benchmark = "bandwidth"
    <2>1. Len(b) = 4 /\ Inside(session.benchmark) = 2
      BY <1>3, BenchmarkLayout DEF Inside
    <2>2. /\ Len(p) = 4 => Head(p) = b[1]
          /\ Len(p) = 3 => Head(p) = b[2]
          /\ Len(p) = 2 => Head(p) = b[3]
          /\ Len(p) = 1 => Head(p) = b[4]
      <3>1. Len(p) = 4 => Head(p) = b[1]
        BY <1>1, <2>1
      <3>2. Len(p) = 3 => Head(p) = b[2]
        BY <1>1, <2>1
      <3>3. Len(p) = 2 => Head(p) = b[3]
        BY <1>1, <2>1
      <3>4. Len(p) = 1 => Head(p) = b[4]
        BY <1>1, <2>1
      <3> QED
        BY <3>1, <3>2, <3>3, <3>4
    <2>3. \/ Len(p) = 4 /\ Head(p) = "work"
          \/ Len(p) = 3 /\ Head(p) = "fence"
          \/ Len(p) = 2 /\ Head(p) = "loop"
          \/ Len(p) = 1 /\ Head(p) = "fence"
      BY <1>1, <1>3, <2>2, BenchmarkLayout
    <2> QED
      BY <1>1, <1>2, <1>3, <2>1, <2>3 DEF p
  <1>4. CASE session.benchmark = "latency"
    <2>1. Len(b) = 6 /\ Inside(session.benchmark) = 4
      BY <1>4, BenchmarkLayout DEF Inside
    <2>2. /\ Len(p) = 6 => Head(p) = b[1]
          /\ Len(p) = 5 => Head(p) = b[2]
          /\ Len(p) = 4 => Head(p) = b[3]
          /\ Len(p) = 3 => Head(p) = b[4]
          /\ Len(p) = 2 => Head(p) = b[5]
          /\ Len(p) = 1 => Head(p) = b[6]
      <3>1. Len(p) = 6 => Head(p) = b[1]
        BY <1>1, <2>1
      <3>2. Len(p) = 5 => Head(p) = b[2]
        BY <1>1, <2>1
      <3>3. Len(p) = 4 => Head(p) = b[3]
        BY <1>1, <2>1
      <3>4. Len(p) = 3 => Head(p) = b[4]
        BY <1>1, <2>1
      <3>5. Len(p) = 2 => Head(p) = b[5]
        BY <1>1, <2>1
      <3>6. Len(p) = 1 => Head(p) = b[6]
        BY <1>1, <2>1
      <3> QED
        BY <3>1, <3>2, <3>3, <3>4, <3>5, <3>6
    <2>3. \/ Len(p) = 6 /\ Head(p) = "work"
          \/ Len(p) = 5 /\ Head(p) = "fence"
          \/ Len(p) = 4 /\ Head(p) = "switchcpu"
          \/ Len(p) = 3 /\ Head(p) = "loop"
          \/ Len(p) = 2 /\ Head(p) = "switchcpu"
          \/ Len(p) = 1 /\ Head(p) = "fence"
      BY <1>1, <1>4, <2>2, BenchmarkLayout
    <2> QED
      BY <1>1, <1>2, <1>4, <2>1, <2>3 DEF p
  <1>5. CASE session.benchmark = "plain"
    <2>1. Len(b) = 1 /\ Inside(session.benchmark) = 0 /\ Len(p) = 1
      BY <1>1, <1>5, BenchmarkLayout DEF Inside
    <2>2. Head(p) = b[1]
      BY <1>1, <2>1
    <2> QED
      BY <1>1, <1>2, <1>5, <2>1, <2>2, BenchmarkLayout DEF p
  <1> QED
    BY <1>1, <1>3, <1>4, <1>5

\* Nothing that Programs says of k changes.
SameGuest(k) ==
    /\ session' = session /\ program'[k] = program[k]
    /\ adapter'[k].active = adapter[k].active /\ adapter'[k].pending = adapter[k].pending
    /\ switched'[k] = switched[k] /\ cpu'[k] = cpu[k] /\ loop'[k] = loop[k]

\* A guest none of whose state has changed.
LEMMA GuestKept ==
    ASSUME NEW k \in Nodes, Programs(k), SameGuest(k)
    PROVE  Programs(k)'
  BY DEF SameGuest, Programs, Testing, InO3

\* A step of one guest.
LEMMA GuestAtOne ==
    ASSUME GuestInv, NEW n \in Nodes, \A k \in Nodes : k # n => SameGuest(k), Programs(n)'
    PROVE  GuestInv'
  BY GuestKept DEF GuestInv

\* A guest that runs is not suspended, and knows its CPU.
LEMMA AtStep ==
    ASSUME IInv, NEW n \in Nodes, NEW step, At(n, step)
    PROVE  /\ TypeOK /\ Programs(n) /\ loop[n] = "running" /\ ~adapter[n].pending
           /\ program[n] # <<>> /\ Head(program[n]) = step /\ program[n] \in Seq(Steps)
           /\ lifecycle[n] = adapter[n].active /\ adapter[n].active \in BOOLEAN
           /\ session.auto \in BOOLEAN /\ switched[n] \in BOOLEAN /\ cpu[n] \in {"boot", "o3"}
  <1>1. TypeOK /\ Programs(n) /\ Fields(n)
    BY DEF IInv, GuestInv, FenceInv
  <1>2. loop[n] = "running" /\ ~adapter[n].pending /\ program[n] # <<>> /\ Head(program[n]) = step
    BY DEF At, Running
  <1>3. adapter[n].active \in BOOLEAN
    BY <1>1, Local
  <1> QED
    BY <1>1, <1>2, <1>3, SessionsAssumption DEF Fields, TypeOK, GuestType

\* What is left of the program after a step of it.
LEMMA NextStepFacts ==
    ASSUME TypeOK, NEW n \in Nodes, Programs(n), program[n] # <<>>, NextStep(n), UNCHANGED session
    PROVE  \E l \in Nat \ {0} :
             /\ Len(program[n]) = l /\ Len(program'[n]) = l - 1 /\ program'[n] = Tail(program[n])
             /\ program'[n] # <<>> <=> l # 1
             /\ \A k \in Nodes : k # n => program'[k] = program[k]
             /\ LeftOf(program'[n], Benchmark(session.benchmark))
             /\ Testing(n)' <=> l # 1
  <1>1. program'[n] = Tail(program[n]) /\ \A k \in Nodes : k # n => program'[k] = program[k]
    BY DEF NextStep, TypeOK, GuestType
  <1>2. PICK l \in Nat \ {0} : l = Len(program[n])
    BY Place
  <1>3. program'[n] \in Seq(Steps) /\ Len(program'[n]) = l - 1
    BY <1>1, <1>2, Place
  <1>4. program'[n] # <<>> <=> l # 1
    BY <1>3, EmptyLen
  <1>5. LeftOf(program'[n], Benchmark(session.benchmark))
    <2>1. CASE Head(program[n]) # "checkpoint"
      BY <1>1, <2>1, Place
    <2>2. CASE Head(program[n]) = "checkpoint"
      <3>1. program'[n] = <<>> /\ session.benchmark \in {"bandwidth", "latency", "plain"}
        BY <1>1, <2>2, Place
      <3> QED
        BY <3>1, BenchmarkSteps, LeftOfFacts
    <2> QED
      BY <2>1, <2>2
  <1> QED
    BY <1>1, <1>2, <1>3, <1>4, <1>5 DEF Testing

\* A guest that goes on does not leave or enter the fences.
LEMMA GoOnGuest ==
    ASSUME IInv, NEW n \in Nodes, GoOn(n)
    PROVE  GuestInv'
  <1>1. At(n, "work") \/ At(n, "loop")
    BY DEF GoOn
  <1>2. NextStep(n) /\ UNCHANGED <<session, adapter, switched, cpu, loop>>
    BY DEF GoOn, loopVars, hostVars
  <1>3. /\ TypeOK /\ Programs(n) /\ loop[n] = "running" /\ ~adapter[n].pending /\ program[n] # <<>>
        /\ Head(program[n]) \in {"work", "loop"}
    BY <1>1, AtStep
  <1>4. PICK l \in Nat \ {0} :
          /\ Len(program[n]) = l /\ Len(program'[n]) = l - 1
          /\ \A k \in Nodes : k # n => program'[k] = program[k]
          /\ LeftOf(program'[n], Benchmark(session.benchmark)) /\ (Testing(n)' <=> l # 1)
    BY <1>2, <1>3, NextStepFacts
  <1>5. PICK b : b = session.benchmark
    OBVIOUS
  <1>6. /\ adapter[n].active <=> l <= Inside(b)
        /\ \/ b = "bandwidth" /\ Inside(b) = 2 /\ l \in {4, 2}
           \/ b = "latency" /\ Inside(b) = 4 /\ l \in {6, 3}
           \/ b = "plain" /\ Inside(b) = 0 /\ l = 1
    BY <1>3, <1>4, <1>5, Where
  <1>7. Programs(n)'
    <2>1. adapter[n].active <=> Testing(n)' /\ l - 1 <= Inside(b)
      BY <1>4, <1>6
    <2>2. InO3(n)' = InO3(n)
      BY <1>2, <1>3, <1>4, <1>5, <1>6 DEF InO3
    <2> QED
      BY <1>2, <1>3, <1>4, <1>5, <2>1, <2>2 DEF Programs
  <1>8. \A k \in Nodes : k # n => SameGuest(k)
    BY <1>2, <1>4 DEF SameGuest
  <1> QED
    BY <1>7, <1>8, GuestAtOne DEF IInv

\* A latency test switches to O3 before its loop and back after it.
LEMMA SwitchExitGuest ==
    ASSUME IInv, NEW n \in Nodes, SwitchExit(n)
    PROVE  GuestInv' /\ UNCHANGED loop /\ cpu' \in [Nodes -> {"boot", "o3"}] /\ switched' \in [Nodes -> BOOLEAN]
  <1>1. At(n, "switchcpu")
    BY DEF SwitchExit
  <1>2. NextStep(n) /\ UNCHANGED <<session, adapter>>
    BY DEF SwitchExit, hostVars
  <1>3. /\ TypeOK /\ Programs(n) /\ loop[n] = "running" /\ ~adapter[n].pending /\ program[n] # <<>>
        /\ Head(program[n]) = "switchcpu" /\ session.auto \in BOOLEAN /\ adapter[n].active \in BOOLEAN
    BY <1>1, AtStep
  <1>4. PICK l \in Nat \ {0} :
          /\ Len(program[n]) = l /\ Len(program'[n]) = l - 1
          /\ \A k \in Nodes : k # n => program'[k] = program[k]
          /\ LeftOf(program'[n], Benchmark(session.benchmark)) /\ (Testing(n)' <=> l # 1)
    BY <1>2, <1>3, NextStepFacts
  <1>5. PICK b : b = session.benchmark
    OBVIOUS
  <1>6. /\ adapter[n].active <=> l <= Inside(b)
        /\ b = "latency" /\ Inside(b) = 4 /\ l \in {4, 2}
    BY <1>3, <1>4, <1>5, Where
  <1>7. /\ switched[n] = InO3(n) /\ cpu[n] = (IF InO3(n) THEN "o3" ELSE "boot") /\ InO3(n) \in BOOLEAN
        /\ cpu \in [Nodes -> {"boot", "o3"}] /\ switched \in [Nodes -> BOOLEAN] /\ DOMAIN loop = Nodes
    <2>1. InO3(n) \in BOOLEAN
      BY <1>3 DEF InO3
    <2> QED
      BY <1>3, <2>1 DEF Programs, TypeOK, GuestType
  <1>8. /\ cpu' = [cpu EXCEPT ![n] = IF InO3(n) THEN "boot" ELSE "o3"]
        /\ switched' = [switched EXCEPT ![n] = ~InO3(n)]
        /\ loop' = [loop EXCEPT ![n] = @]
    <2>1. CASE switched[n]
      <3>1. SwitchCpus(n, "o3", "boot") /\ cpu[n] = "o3"
        BY <2>1, <1>7 DEF SwitchExit
      <3> QED
        BY <3>1, <2>1, <1>7 DEF SwitchCpus
    <2>2. CASE ~switched[n]
      <3>1. SwitchCpus(n, "boot", "o3") /\ cpu[n] = "boot"
        BY <2>2, <1>7 DEF SwitchExit
      <3> QED
        BY <3>1, <2>2, <1>7 DEF SwitchCpus
    <2> QED
      BY <2>1, <2>2
  <1>9. /\ cpu'[n] = (IF InO3(n) THEN "boot" ELSE "o3") /\ switched'[n] = ~InO3(n) /\ loop' = loop
        /\ \A k \in Nodes : k # n => cpu'[k] = cpu[k] /\ switched'[k] = switched[k]
        /\ cpu' \in [Nodes -> {"boot", "o3"}] /\ switched' \in [Nodes -> BOOLEAN]
    <2>1. loop' = loop
      BY <1>3, <1>8 DEF TypeOK, GuestType
    <2>2. (~InO3(n)) \in BOOLEAN /\ (IF InO3(n) THEN "boot" ELSE "o3") \in {"boot", "o3"}
      OBVIOUS
    <2>3. cpu' \in [Nodes -> {"boot", "o3"}]
      BY <1>7, <1>8
    <2>4. switched' \in [Nodes -> BOOLEAN]
      BY <1>7, <1>8, <2>2
    <2> QED
      BY <1>7, <1>8, <2>1, <2>3, <2>4
  <1>10. Programs(n)'
    <2>1. adapter[n].active <=> Testing(n)' /\ l - 1 <= Inside(b)
      BY <1>4, <1>6
    <2>2. InO3(n) = IF l = 2 THEN ~session.auto ELSE session.auto
      BY <1>3, <1>4, <1>5, <1>6 DEF InO3
    <2>3. InO3(n)' = IF l - 1 = 3 THEN ~session.auto ELSE session.auto
      BY <1>2, <1>3, <1>4, <1>5, <1>6 DEF InO3
    <2>4. InO3(n)' = ~InO3(n)
      <3>1. CASE l = 4
        BY <3>1, <1>3, <2>2, <2>3
      <3>2. CASE l = 2
        <4>1. InO3(n) = ~session.auto /\ InO3(n)' = session.auto
          BY <3>2, <2>2, <2>3
        <4>2. CASE session.auto = TRUE
          BY <4>1, <4>2
        <4>3. CASE session.auto = FALSE
          BY <4>1, <4>3
        <4> QED
          BY <4>2, <4>3, <1>3
      <3> QED
        BY <3>1, <3>2, <1>6
    <2>5. /\ switched'[n] = InO3(n)' /\ cpu'[n] = IF InO3(n)' THEN "o3" ELSE "boot"
      BY <1>7, <1>9, <2>4
    <2> QED
      BY <1>2, <1>3, <1>4, <1>5, <1>9, <2>1, <2>5 DEF Programs
  <1>11. \A k \in Nodes : k # n => SameGuest(k)
    BY <1>2, <1>4, <1>9 DEF SameGuest
  <1> QED
    BY <1>9, <1>10, <1>11, GuestAtOne DEF IInv

\* A checkpoint is never taken on O3, and the loop ends with it.
LEMMA CheckpointExitGuest ==
    ASSUME IInv, NEW n \in Nodes, CheckpointExit(n)
    PROVE  GuestInv' /\ loop' = [loop EXCEPT ![n] = "ended"]
  <1>1. At(n, "checkpoint")
    BY DEF CheckpointExit
  <1>2. NextStep(n) /\ UNCHANGED <<session, adapter, cpu, switched>>
    BY DEF CheckpointExit, hostVars
  <1>3. /\ TypeOK /\ Programs(n) /\ loop[n] = "running" /\ ~adapter[n].pending /\ program[n] # <<>>
        /\ Head(program[n]) = "checkpoint"
    BY <1>1, AtStep
  <1>4. /\ Len(program[n]) = 1 /\ ~Testing(n) /\ program'[n] = <<>>
        /\ \A k \in Nodes : k # n => program'[k] = program[k]
    BY <1>2, <1>3, Place DEF NextStep, TypeOK, GuestType
  <1>5. LeftOf(program'[n], Benchmark(session.benchmark))
    BY <1>2, <1>3, NextStepFacts
  <1>6. ~adapter[n].active
    BY <1>3, <1>4 DEF Programs
  <1>7. InO3(n) = FALSE /\ InO3(n)' = FALSE
    BY <1>2, <1>3, <1>4, <1>6 DEF InO3
  <1>8. loop' = [loop EXCEPT ![n] = "ended"]
    BY <1>3, <1>7 DEF CheckpointExit, Programs
  <1>9. Programs(n)'
    BY <1>2, <1>3, <1>4, <1>5, <1>6, <1>7 DEF Programs, Testing
  <1>10. \A k \in Nodes : k # n => SameGuest(k)
    BY <1>2, <1>3, <1>4, <1>8 DEF SameGuest, TypeOK, GuestType
  <1> QED
    BY <1>8, <1>9, <1>10, GuestAtOne DEF IInv

\* A command starts outside the fences and on the boot CPU.
LEMMA CommandGuest ==
    ASSUME IInv, NEW p \in {Benchmark(session.benchmark), Checkpointing}, Command(p)
    PROVE  GuestInv' /\ program' \in [Nodes -> Seq(Steps)]
  <1>1. /\ program' = [n \in Nodes |-> p] /\ UNCHANGED <<session, adapter, cpu, switched, loop>>
        /\ \A n \in Nodes : ~adapter[n].pending /\ program[n] = <<>>
    BY DEF Command, Running, loopVars, hostVars
  <1>2. session.benchmark \in {"bandwidth", "latency", "plain"}
    BY SessionsAssumption DEF IInv, TypeOK, GuestType
  <1>3. PICK b : b = Benchmark(session.benchmark)
    OBVIOUS
  <1>4. p \in Seq(Steps) /\ b \in Seq(Steps) /\ LeftOf(p, p)
    BY <1>2, <1>3, BenchmarkSteps, LeftOfFacts
  <1>5. /\ Len(b) > Inside(session.benchmark) /\ Len(b) \notin {2, 3} /\ Len(b) \in Nat /\ Len(b) > 0
        /\ b[Len(b)] # "checkpoint"
    <2>1. CASE session.benchmark = "bandwidth"
      BY <1>3, <2>1, BenchmarkLayout DEF Inside
    <2>2. CASE session.benchmark = "latency"
      BY <1>3, <2>2, BenchmarkLayout DEF Inside
    <2>3. CASE session.benchmark = "plain"
      <3>1. Inside(session.benchmark) = 0
        BY <2>3 DEF Inside
      <3>2. Len(b) = 1 /\ b[1] = "work"
        BY <1>3, <2>3, BenchmarkLayout
      <3> QED
        BY <3>1, <3>2
    <2> QED
      BY <1>2, <2>1, <2>2, <2>3
  <1>6. Inside(session.benchmark) \in Nat
    BY <1>2 DEF Inside
  <1>7. p = Checkpointing => ~LeftOf(p, b) /\ Len(p) = 1
    <2>1. SUFFICES ASSUME p = Checkpointing, LeftOf(p, b)
                   PROVE  FALSE
      BY BenchmarkLayout
    <2>2. Len(p) = 1 /\ p[1] = "checkpoint"
      BY <2>1, BenchmarkLayout
    <2>3. p[1] = b[Len(b) - Len(p) + 1]
      BY <2>1, <2>2 DEF LeftOf
    <2>4. Len(b) - Len(p) + 1 = Len(b)
      BY <2>2, <1>5
    <2> QED
      BY <2>2, <2>3, <2>4, <1>5
  <1>8. ASSUME NEW n \in Nodes
        PROVE  Programs(n)'
    <2>1. Programs(n) /\ ~adapter[n].pending /\ program[n] = <<>> /\ program'[n] = p
      BY <1>1 DEF IInv, GuestInv
    <2>2. ~adapter[n].active
      BY <2>1 DEF Programs, Testing
    <2>3. ~(Testing(n)' /\ Len(p) <= Inside(session.benchmark))
      <3>1. CASE p = b
        BY <3>1, <1>5, <1>6
      <3>2. CASE p = Checkpointing
        BY <3>2, <1>1, <1>3, <1>7, <2>1 DEF Testing
      <3> QED
        BY <1>3, <3>1, <3>2
    <2>4. InO3(n) = FALSE
      <3>1. Len(program[n]) = 0
        BY <2>1
      <3> QED
        BY <3>1, <2>1, <2>2 DEF InO3
    <2>5. InO3(n)' = FALSE
      <3>1. Len(p) \notin {2, 3}
        BY <1>3, <1>5, <1>7
      <3> QED
        BY <3>1, <1>1, <2>1, <2>2 DEF InO3
    <2> QED
      BY <1>1, <1>3, <1>4, <2>1, <2>2, <2>3, <2>4, <2>5 DEF Programs
  <1> QED
    BY <1>1, <1>4, <1>8 DEF GuestInv

\* A guest enters a fence: the loop switches to O3 from the boot CPU.
LEMMA FenceExitGuest ==
    ASSUME IInv, NEW n \in Nodes, FenceExit(n)
    PROVE  GuestInv' /\ UNCHANGED loop /\ cpu' \in [Nodes -> {"boot", "o3"}] /\ switched' \in [Nodes -> BOOLEAN]
  <1>1. At(n, "fence") /\ UNCHANGED <<session, program, lifecycle>>
    BY DEF FenceExit, guestVars
  <1>2. /\ TypeOK /\ Programs(n) /\ loop[n] = "running" /\ ~adapter[n].pending /\ program[n] # <<>>
        /\ Head(program[n]) = "fence" /\ lifecycle[n] = adapter[n].active /\ adapter[n].active \in BOOLEAN
        /\ session.auto \in BOOLEAN
    BY <1>1, AtStep
  <1>3. ~(session.benchmark = "latency" /\ Len(program[n]) \in {2, 3})
    <2>1. Head(program[n]) # "checkpoint"
      BY <1>2
    <2>2. session.benchmark = "latency" => Len(program[n]) = 5 \/ Len(program[n]) = 1
      BY <1>2, <2>1, Where
    <2> QED
      BY <2>2
  <1>4. InO3(n) = (session.auto /\ adapter[n].active)
    BY <1>2, <1>3 DEF InO3
  <1>5. /\ adapter'[n].active = adapter[n].active /\ adapter'[n].pending = TRUE
        /\ \A k \in Nodes : k # n => adapter'[k] = adapter[k]
    <2>1. adapter' = [adapter EXCEPT ![n] = Begins(adapter[n])] /\ adapter[n] \in Adapters /\ DOMAIN adapter = Nodes
      BY <1>2, Local DEF FenceExit, TypeOK, ProcessType
    <2>2. Begins(adapter[n]).active = adapter[n].active /\ Begins(adapter[n]).pending = TRUE
      BY <2>1 DEF Begins, Adapters
    <2> QED
      BY <2>1, <2>2
  <1>6. InO3(n)' = session.auto
    BY <1>1, <1>2, <1>3, <1>5 DEF InO3
  <1>7. /\ switched[n] = InO3(n) /\ cpu[n] = (IF InO3(n) THEN "o3" ELSE "boot") /\ DOMAIN loop = Nodes
        /\ cpu \in [Nodes -> {"boot", "o3"}] /\ switched \in [Nodes -> BOOLEAN]
        /\ loop \in [Nodes -> {"running", "ended", "failed"}]
    BY <1>2 DEF Programs, TypeOK, GuestType
  <1>8. /\ loop' = loop /\ switched'[n] = session.auto /\ cpu'[n] = (IF session.auto THEN "o3" ELSE "boot")
        /\ \A k \in Nodes : k # n => cpu'[k] = cpu[k] /\ switched'[k] = switched[k]
        /\ cpu' \in [Nodes -> {"boot", "o3"}] /\ switched' \in [Nodes -> BOOLEAN]
    <2>1. CASE session.auto = TRUE /\ adapter[n].active = FALSE
      <3>1. EntersO3(n) /\ InO3(n) = FALSE
        BY <2>1, <1>2, <1>4 DEF EntersO3
      <3>2. SwitchCpus(n, "boot", "o3") /\ cpu[n] = "boot"
        BY <3>1, <1>7 DEF FenceExit
      <3>3. /\ cpu' = [cpu EXCEPT ![n] = "o3"] /\ switched' = [switched EXCEPT ![n] = TRUE]
            /\ loop' = [loop EXCEPT ![n] = @]
        BY <3>2 DEF SwitchCpus
      <3> QED
        BY <3>3, <1>7, <2>1
    <2>2. CASE session.auto = TRUE /\ adapter[n].active = TRUE
      <3>1. ~EntersO3(n) /\ InO3(n) = TRUE
        BY <2>2, <1>2, <1>4 DEF EntersO3
      <3>2. UNCHANGED <<cpu, switched, loop>>
        BY <3>1 DEF FenceExit
      <3> QED
        BY <3>1, <3>2, <1>7, <2>2
    <2>3. CASE session.auto = FALSE
      <3>1. ~EntersO3(n) /\ InO3(n) = FALSE
        BY <2>3, <1>2, <1>4 DEF EntersO3
      <3>2. UNCHANGED <<cpu, switched, loop>>
        BY <3>1 DEF FenceExit
      <3> QED
        BY <3>1, <3>2, <1>7, <2>3
    <2> QED
      BY <1>2, <2>1, <2>2, <2>3
  <1>9. Programs(n)'
    <2>1. Testing(n)' = Testing(n)
      BY <1>1 DEF Testing
    <2> QED
      BY <1>1, <1>2, <1>5, <1>6, <1>8, <2>1 DEF Programs
  <1>10. \A k \in Nodes : k # n => SameGuest(k)
    BY <1>1, <1>5, <1>8 DEF SameGuest
  <1> QED
    BY <1>8, <1>9, <1>10, GuestAtOne DEF IInv

\* A guest leaves a fence: the loop switches back from O3.
LEMMA CommitExitGuest ==
    ASSUME IInv, NEW n \in Nodes, CommitExit(n)
    PROVE  GuestInv' /\ UNCHANGED loop /\ cpu' \in [Nodes -> {"boot", "o3"}] /\ switched' \in [Nodes -> BOOLEAN]
  <1>1. /\ NextStep(n) /\ UNCHANGED session /\ loop[n] = "running" /\ adapter[n].pending
        /\ adapter' = [adapter EXCEPT ![n].pending = FALSE, ![n].active = ~adapter[n].active,
                                      ![n].epoch = @ + 1, ![n].commit = NoMessage]
    BY DEF CommitExit
  <1>2. TypeOK /\ Programs(n) /\ Fields(n)
    BY DEF IInv, GuestInv, FenceInv
  <1>3. /\ program[n] # <<>> /\ Head(program[n]) = "fence" /\ lifecycle[n] = adapter[n].active
        /\ adapter[n].active \in BOOLEAN /\ session.auto \in BOOLEAN
    BY <1>1, <1>2, Local, SessionsAssumption DEF Programs, Fields, TypeOK, GuestType
  <1>4. PICK l \in Nat \ {0} :
          /\ Len(program[n]) = l /\ Len(program'[n]) = l - 1 /\ (program'[n] # <<>> <=> l # 1)
          /\ \A k \in Nodes : k # n => program'[k] = program[k]
          /\ LeftOf(program'[n], Benchmark(session.benchmark)) /\ (Testing(n)' <=> l # 1)
    BY <1>1, <1>2, <1>3, NextStepFacts
  <1>5. PICK b : b = session.benchmark
    OBVIOUS
  <1>6. /\ adapter[n].active <=> l <= Inside(b)
        /\ \/ b = "bandwidth" /\ Inside(b) = 2 /\ l \in {3, 1}
           \/ b = "latency" /\ Inside(b) = 4 /\ l \in {5, 1}
    <2>1. Head(program[n]) # "checkpoint"
      BY <1>3
    <2> QED
      BY <1>2, <1>3, <1>4, <1>5, <2>1, Where
  <1>7. adapter[n].active <=> l = 1
    BY <1>6
  <1>8. /\ adapter'[n].active = (~adapter[n].active) /\ adapter'[n].pending = FALSE
        /\ \A k \in Nodes : k # n => adapter'[k] = adapter[k]
    <2>1. adapter[n] \in Adapters /\ adapter \in [Nodes -> Adapters]
      BY <1>2, Local DEF TypeOK, ProcessType
    <2> QED
      BY <1>1, <2>1 DEF Adapters
  <1>9. InO3(n) = session.auto
    BY <1>1, <1>3, <1>4, <1>5, <1>6 DEF InO3
  <1>10. InO3(n)' = (session.auto /\ ~adapter[n].active)
    <2>1. ~(session'.benchmark = "latency" /\ Len(program'[n]) \in {2, 3})
      BY <1>1, <1>4, <1>5, <1>6
    <2> QED
      BY <1>1, <1>3, <1>8, <2>1 DEF InO3
  <1>11. /\ switched[n] = InO3(n) /\ cpu[n] = (IF InO3(n) THEN "o3" ELSE "boot") /\ DOMAIN loop = Nodes
         /\ cpu \in [Nodes -> {"boot", "o3"}] /\ switched \in [Nodes -> BOOLEAN]
         /\ loop \in [Nodes -> {"running", "ended", "failed"}]
    BY <1>2 DEF Programs, TypeOK, GuestType
  <1>12. ~(adapter[n].commit.enabled # (~adapter[n].active) \/ dma[n] > 0)
    BY CommitExitStep
  <1>13. IF session.auto /\ lifecycle[n] THEN SwitchCpus(n, "o3", "boot") ELSE UNCHANGED <<cpu, switched, loop>>
    BY <1>12 DEF CommitExit
  <1>14. /\ loop' = loop /\ switched'[n] = InO3(n)' /\ cpu'[n] = (IF InO3(n)' THEN "o3" ELSE "boot")
         /\ \A k \in Nodes : k # n => cpu'[k] = cpu[k] /\ switched'[k] = switched[k]
         /\ cpu' \in [Nodes -> {"boot", "o3"}] /\ switched' \in [Nodes -> BOOLEAN]
    <2>1. CASE session.auto = TRUE /\ adapter[n].active = TRUE
      <3>1. SwitchCpus(n, "o3", "boot") /\ cpu[n] = "o3"
        BY <2>1, <1>3, <1>9, <1>11, <1>13
      <3>2. /\ cpu' = [cpu EXCEPT ![n] = "boot"] /\ switched' = [switched EXCEPT ![n] = FALSE]
            /\ loop' = [loop EXCEPT ![n] = @] /\ InO3(n)' = FALSE
        BY <3>1, <1>10, <2>1 DEF SwitchCpus
      <3> QED
        BY <3>2, <1>11
    <2>2. CASE session.auto = TRUE /\ adapter[n].active = FALSE
      <3>1. UNCHANGED <<cpu, switched, loop>> /\ InO3(n) = TRUE /\ InO3(n)' = TRUE
        BY <2>2, <1>3, <1>9, <1>10, <1>13
      <3> QED
        BY <3>1, <1>11
    <2>3. CASE session.auto = FALSE
      <3>1. UNCHANGED <<cpu, switched, loop>> /\ InO3(n) = FALSE /\ InO3(n)' = FALSE
        BY <2>3, <1>9, <1>10, <1>13
      <3> QED
        BY <3>1, <1>11
    <2> QED
      BY <1>3, <2>1, <2>2, <2>3
  <1>15. Programs(n)'
    <2>1. adapter'[n].active <=> Testing(n)' /\ l - 1 <= Inside(b)
      <3>1. CASE l = 1
        BY <3>1, <1>4, <1>7, <1>8
      <3>2. CASE l # 1
        <4>1. adapter'[n].active
          BY <3>2, <1>3, <1>7, <1>8
        <4>2. l - 1 <= Inside(b)
          BY <3>2, <1>6
        <4> QED
          BY <3>2, <4>1, <4>2, <1>4
      <3> QED
        BY <3>1, <3>2
    <2> QED
      BY <1>1, <1>4, <1>5, <1>8, <1>14, <2>1 DEF Programs
  <1>16. \A k \in Nodes : k # n => SameGuest(k)
    BY <1>1, <1>4, <1>8, <1>14 DEF SameGuest
  <1> QED
    BY <1>14, <1>15, <1>16, GuestAtOne DEF IInv

----------------------------------------------------------------------------
(* Types are kept *)

\* What a step may put into a ring.
LEMMA Sendable ==
    ASSUME TypeOK, NEW n \in Nodes, NEW target \in Nodes
    PROVE  /\ Append(toDevice[n], Message("reply", adapter[n].epoch, n)) \in Ring({"sync", "reply", "prepare"})
           /\ Append(toHost[n], Message("dma", device[n].epoch, target)) \in Ring({"sync", "dma", "commit"})
           /\ \A type \in {"request", "response"} :
                Append(toNetwork[n], Message(type, device[n].epoch, target))
                  \in Ring({"sync", "request", "response", "prepare"})
           /\ \A type \in {"execute", "complete"} :
                Append(fromNetwork[n], Message(type, network.epoch, target))
                  \in Ring({"sync", "execute", "complete", "commit"})
  <1>1. adapter[n].epoch \in Nat /\ device[n].epoch \in Nat /\ network.epoch \in Nat
    BY Local
  <1>2. Append(toDevice[n], Message("reply", adapter[n].epoch, n)) \in Ring({"sync", "reply", "prepare"})
    <2>1. toDevice[n] \in Ring({"sync", "reply", "prepare"})
      BY Local
    <2>2. PICK x \in Item : x = Message("reply", adapter[n].epoch, n) /\ x.type = "reply"
      BY <1>1, Built
    <2> QED
      BY <2>1, <2>2, Sending
  <1>3. Append(toHost[n], Message("dma", device[n].epoch, target)) \in Ring({"sync", "dma", "commit"})
    <2>1. toHost[n] \in Ring({"sync", "dma", "commit"})
      BY Local
    <2>2. PICK x \in Item : x = Message("dma", device[n].epoch, target) /\ x.type = "dma"
      BY <1>1, Built
    <2> QED
      BY <2>1, <2>2, Sending
  <1>4. ASSUME NEW type \in {"request", "response"}
        PROVE  Append(toNetwork[n], Message(type, device[n].epoch, target))
                 \in Ring({"sync", "request", "response", "prepare"})
    <2>1. toNetwork[n] \in Ring({"sync", "request", "response", "prepare"})
      BY Local
    <2>2. PICK x \in Item : x = Message(type, device[n].epoch, target) /\ x.type = type
      BY <1>1, Built DEF Carried
    <2> QED
      BY <2>1, <2>2, Sending
  <1>5. ASSUME NEW type \in {"execute", "complete"}
        PROVE  Append(fromNetwork[n], Message(type, network.epoch, target))
                 \in Ring({"sync", "execute", "complete", "commit"})
    <2>1. fromNetwork[n] \in Ring({"sync", "execute", "complete", "commit"})
      BY Local
    <2>2. PICK x \in Item : x = Message(type, network.epoch, target) /\ x.type = type
      BY <1>1, Built DEF Carried
    <2> QED
      BY <2>1, <2>2, Sending
  <1> QED
    BY <1>2, <1>3, <1>4, <1>5

\* Sending SYNC, or nothing.
LEMMA SyncsTyped ==
    ASSUME NEW types, "sync" \in types, NEW r \in Ring(types), NEW epoch \in Nat, NEW enable \in BOOLEAN
    PROVE  r \o Syncs(enable, epoch) \in Ring(types)
  <1>1. PICK x \in Item : x = Message("sync", epoch, None) /\ x.type = "sync"
    BY Built
  <1>2. Append(r, x) \in Ring(types)
    BY <1>1, Sending
  <1> QED
    BY <1>1, <1>2, SyncsSent DEF Syncs

\* Steps of guests and users.
LEMMA GuestTypes ==
    ASSUME IInv, NEW n \in Nodes, NEW target \in Nodes,
           \/ RunBenchmark \/ RunCheckpoint \/ Post(n, target) \/ GoOn(n) \/ SwitchExit(n) \/ CheckpointExit(n)
    PROVE  TypeOK'
  <1>1. TypeOK /\ GuestType /\ ProcessType /\ RingType /\ Programs(n)
    BY DEF IInv, TypeOK, GuestInv
  <1>2. NextStep(n) /\ program[n] # <<>> => program' \in [Nodes -> Seq(Steps)]
    <2>1. program[n] # <<>> => Tail(program[n]) \in Seq(Steps)
      BY <1>1, Place
    <2> QED
      BY <1>1, <2>1 DEF NextStep, GuestType
  <1>3. CASE RunBenchmark \/ RunCheckpoint
    <2>1. program' \in [Nodes -> Seq(Steps)]
      <3>1. CASE RunBenchmark
        BY <3>1, CommandGuest DEF RunBenchmark
      <3>2. CASE RunCheckpoint
        BY <3>2, CommandGuest DEF RunCheckpoint
      <3> QED
        BY <1>3, <3>1, <3>2
    <2>2. benchmarks' \in Nat /\ UNCHANGED <<session, posts, loopVars, hostVars, device, network, rings>>
      BY <1>1, <1>3 DEF RunBenchmark, RunCheckpoint, Command, GuestType
    <2>3. UNCHANGED <<session, posts, loop, cpu, switched, lifecycle, adapter, dma, device, network, toDevice, toHost,
                      toNetwork, fromNetwork>>
      BY <2>2 DEF loopVars, hostVars, rings
    <2>4. GuestType'
      BY <1>1, <2>1, <2>2, <2>3 DEF GuestType
    <2>5. ProcessType' /\ RingType'
      BY <1>1, <2>3 DEF ProcessType, RingType
    <2> QED
      BY <2>4, <2>5 DEF TypeOK
  <1>4. CASE Post(n, target)
    <2>1. /\ device' = [device EXCEPT ![n].op = "issued", ![n].target = target] /\ posts' = posts + 1
          /\ toNetwork' = [toNetwork EXCEPT ![n] = Append(@, Message("request", device[n].epoch, n))]
          /\ UNCHANGED <<session, benchmarks, program, loopVars, hostVars, network, toDevice, toHost, fromNetwork>>
      BY <1>4 DEF Post
    <2>2. UNCHANGED <<session, benchmarks, program, loop, cpu, switched, lifecycle, adapter, dma, network, toDevice,
                      toHost, fromNetwork>>
      BY <2>1 DEF loopVars, hostVars
    <2>3. device' \in [Nodes -> Devices]
      <3>1. device \in [Nodes -> Devices] /\ device[n] \in Devices
        BY <1>1 DEF ProcessType
      <3>2. [device[n] EXCEPT !.op = "issued", !.target = target] \in Devices
        BY <3>1 DEF Devices
      <3>3. device' = [device EXCEPT ![n] = [device[n] EXCEPT !.op = "issued", !.target = target]]
        BY <2>1, <3>1
      <3> QED
        BY <3>1, <3>2, <3>3
    <2>4. Append(toNetwork[n], Message("request", device[n].epoch, n)) \in Ring({"sync", "request", "response", "prepare"})
      BY <1>1, Sendable
    <2>5. RingType'
      BY <1>1, <2>1, <2>2, <2>4 DEF RingType
    <2>6. GuestType' /\ ProcessType'
      BY <1>1, <2>1, <2>2, <2>3 DEF GuestType, ProcessType
    <2> QED
      BY <2>5, <2>6 DEF TypeOK
  <1>5. CASE GoOn(n) \/ SwitchExit(n) \/ CheckpointExit(n)
    <2>1. NextStep(n) /\ program[n] # <<>> /\ UNCHANGED <<session, benchmarks, posts, lifecycle, hostVars, device, network, rings>>
      BY <1>5 DEF GoOn, SwitchExit, CheckpointExit, At, loopVars
    <2>2. UNCHANGED <<adapter, dma, toDevice, toHost, toNetwork, fromNetwork>>
      BY <2>1 DEF hostVars, rings
    <2>3. /\ loop' \in [Nodes -> {"running", "ended", "failed"}] /\ cpu' \in [Nodes -> {"boot", "o3"}]
          /\ switched' \in [Nodes -> BOOLEAN]
      <3>1. CASE GoOn(n)
        BY <1>1, <3>1 DEF GoOn, loopVars, GuestType
      <3>2. CASE SwitchExit(n)
        BY <1>1, <3>2, SwitchExitGuest DEF GuestType
      <3>3. CASE CheckpointExit(n)
        <4>1. loop' = [loop EXCEPT ![n] = "ended"] /\ UNCHANGED <<cpu, switched>>
          BY <3>3, CheckpointExitGuest DEF CheckpointExit
        <4> QED
          BY <1>1, <4>1 DEF GuestType
      <3> QED
        BY <1>5, <3>1, <3>2, <3>3
    <2>4. GuestType'
      BY <1>1, <1>2, <2>1, <2>3 DEF GuestType
    <2>5. ProcessType' /\ RingType'
      BY <1>1, <2>1, <2>2 DEF ProcessType, RingType
    <2> QED
      BY <2>4, <2>5 DEF TypeOK
  <1> QED
    BY <1>3, <1>4, <1>5

\* Steps of the host.
LEMMA HostTypes ==
    ASSUME IInv, NEW n \in Nodes, FenceExit(n) \/ HostService(n) \/ DmaDone(n) \/ CommitExit(n)
    PROVE  TypeOK'
  <1> DEFINE types == {"sync", "reply", "prepare"}
             hostTypes == {"sync", "dma", "commit"}
  <1>1. TypeOK /\ GuestType /\ ProcessType /\ RingType /\ Programs(n) /\ Phase(n) /\ Fields(n)
    BY DEF IInv, TypeOK, GuestInv, FenceInv
  <1>2. /\ adapter \in [Nodes -> Adapters] /\ adapter[n] \in Adapters /\ dma \in [Nodes -> Nat]
        /\ toDevice \in [Nodes -> Ring(types)] /\ toHost \in [Nodes -> Ring(hostTypes)]
        /\ toDevice[n] \in Ring(types) /\ toHost[n] \in Ring(hostTypes) /\ adapter[n].epoch \in Nat
        /\ adapter[n].active \in BOOLEAN /\ adapter[n].generation \in Nat /\ dma[n] \in Nat
    BY <1>1, Local DEF ProcessType, RingType
  <1>3. NoMessage \in Held
    BY DEF Held
  <1>4. Append(toDevice[n], Message("reply", adapter[n].epoch, n)) \in Ring(types)
    BY <1>1, Sendable
  <1>5. CASE FenceExit(n)
    <2> DEFINE a == Begins(adapter[n])
               x == Fence("prepare", a.epoch, a.generation, ~a.active)
    <2>1. /\ adapter' = [adapter EXCEPT ![n] = a] /\ toDevice' = [toDevice EXCEPT ![n] = Append(@, x)]
          /\ UNCHANGED <<guestVars, lifecycle, dma, device, network, toHost, toNetwork, fromNetwork>>
      BY <1>5 DEF FenceExit
    <2>2. UNCHANGED <<session, benchmarks, program, posts>>
      BY <2>1 DEF guestVars
    <2>3. a \in Adapters /\ a.epoch \in Nat /\ a.generation \in Nat /\ (~a.active) \in BOOLEAN
      <3>1. TRUE \in BOOLEAN /\ adapter[n].generation + 1 \in Nat
        BY <1>2
      <3>2. a \in Adapters
        BY <1>2, <1>3, <3>1 DEF Begins, Adapters
      <3> HIDE DEF a
      <3>3. a.epoch \in Nat /\ a.generation \in Nat
        BY <3>2 DEF Adapters
      <3> QED
        BY <3>2, <3>3
    <2>4. x \in Item /\ x.type = "prepare"
      <3>1. x \in Fences /\ x.type = "prepare"
        BY <2>3 DEF Fence, Fences
      <3> HIDE DEF x
      <3> QED
        BY <3>1 DEF Item
    <2> HIDE DEF a, x
    <2>5. Append(toDevice[n], x) \in Ring(types)
      BY <1>2, <2>4, Sending
    <2>6. GuestType'
      BY <1>1, <1>5, <2>1, <2>2, FenceExitGuest DEF GuestType
    <2>7. ProcessType' /\ RingType'
      BY <1>1, <1>2, <2>1, <2>3, <2>5 DEF ProcessType, RingType
    <2> QED
      BY <2>6, <2>7 DEF TypeOK
  <1>6. CASE DmaDone(n)
    <2>1. /\ dma[n] > 0 /\ dma' = [dma EXCEPT ![n] = @ - 1]
          /\ toDevice' = [toDevice EXCEPT ![n] = Append(@, Message("reply", adapter[n].epoch, n))]
          /\ UNCHANGED <<guestVars, loopVars, adapter, device, network, toHost, toNetwork, fromNetwork>>
      BY <1>6 DEF DmaDone
    <2>2. UNCHANGED <<session, benchmarks, program, posts, loop, cpu, switched, lifecycle>>
      BY <2>1 DEF guestVars, loopVars
    <2>3. dma' \in [Nodes -> Nat]
      BY <1>2, <2>1
    <2>4. GuestType' /\ ProcessType' /\ RingType'
      BY <1>1, <1>2, <1>4, <2>1, <2>2, <2>3 DEF GuestType, ProcessType, RingType
    <2> QED
      BY <2>4 DEF TypeOK
  <1>7. CASE HostService(n)
    <2> DEFINE m == Head(toHost[n])
    <2>1. /\ toHost[n] # <<>> /\ toHost' = [toHost EXCEPT ![n] = Tail(@)]
          /\ UNCHANGED <<guestVars, loopVars, device, network, toNetwork, fromNetwork>>
      BY <1>7 DEF HostService, HostReads
    <2>2. UNCHANGED <<session, benchmarks, program, posts, loop, cpu, switched, lifecycle>>
      BY <2>1 DEF guestVars, loopVars
    <2>3. Tail(toHost[n]) \in Ring(hostTypes) /\ m \in Item /\ m.type \in hostTypes
      BY <1>2, <2>1, Reading
    <2>4. toHost' \in [Nodes -> Ring(hostTypes)]
      BY <1>2, <2>1, <2>3
    <2>5. adapter' \in [Nodes -> Adapters] /\ dma' \in [Nodes -> Nat] /\ toDevice' \in [Nodes -> Ring(types)]
      <3>1. CASE m.type = "dma"
        <4>1. /\ UNCHANGED adapter
              /\ \/ UNCHANGED dma /\ toDevice' = [toDevice EXCEPT ![n] = Append(@, Message("reply", adapter[n].epoch, n))]
                 \/ dma' = [dma EXCEPT ![n] = @ + 1] /\ UNCHANGED toDevice
          BY <1>7, <3>1 DEF HostService
        <4>2. CASE UNCHANGED dma
          BY <1>2, <1>4, <4>1, <4>2
        <4>3. CASE dma' = [dma EXCEPT ![n] = @ + 1] /\ UNCHANGED toDevice
          <5>1. dma' \in [Nodes -> Nat]
            BY <1>2, <4>3
          <5> QED
            BY <1>2, <4>1, <4>3, <5>1
        <4> QED
          BY <4>1, <4>2, <4>3
      <3>2. CASE m.type = "commit"
        <4>1. /\ UNCHANGED <<dma, toDevice>>
              /\ adapter' = [adapter EXCEPT ![n].commit = IF m.generation = adapter[n].generation THEN m ELSE @]
          BY <1>7, <3>2 DEF HostService
        <4>2. m \in Held
          BY <2>3, <3>2, ItemFacts DEF Held
        <4> HIDE DEF m
        <4>3. [adapter[n] EXCEPT !.commit = m] \in Adapters
          BY <1>2, <4>2 DEF Adapters
        <4>4. adapter' = [adapter EXCEPT ![n] = [adapter[n] EXCEPT !.commit = m]] \/ adapter' = adapter
          BY <1>2, <4>1 DEF Adapters
        <4> QED
          BY <1>2, <4>1, <4>3, <4>4
      <3>3. CASE m.type = "sync"
        BY <1>2, <1>7, <3>3 DEF HostService
      <3> QED
        BY <2>3, <3>1, <3>2, <3>3
    <2>6. GuestType' /\ ProcessType' /\ RingType'
      BY <1>1, <2>1, <2>2, <2>4, <2>5 DEF GuestType, ProcessType, RingType
    <2> QED
      BY <2>6 DEF TypeOK
  <1>8. CASE CommitExit(n)
    <2>1. /\ adapter' = [adapter EXCEPT ![n].pending = FALSE, ![n].active = ~adapter[n].active,
                                        ![n].epoch = @ + 1, ![n].commit = NoMessage]
          /\ toDevice' = [toDevice EXCEPT ![n] = @ \o Syncs(~adapter[n].active, adapter[n].epoch + 1)]
          /\ lifecycle' = [lifecycle EXCEPT ![n] = ~@] /\ NextStep(n) /\ adapter[n].pending
          /\ UNCHANGED <<session, benchmarks, posts, dma, device, network, toHost, toNetwork, fromNetwork>>
      BY <1>8 DEF CommitExit
    <2>2. program' \in [Nodes -> Seq(Steps)]
      <3>1. program[n] # <<>>
        BY <1>1, <2>1 DEF Programs
      <3>2. Tail(program[n]) \in Seq(Steps)
        BY <1>1, <3>1, Place
      <3> QED
        BY <1>1, <2>1, <3>2 DEF NextStep, GuestType
    <2>3. PICK enable \in BOOLEAN : enable = ~adapter[n].active
      OBVIOUS
    <2>4. toDevice[n] \o Syncs(enable, adapter[n].epoch + 1) \in Ring(types)
      <3>1. adapter[n].epoch + 1 \in Nat /\ "sync" \in types
        BY <1>2
      <3> HIDE DEF types
      <3> QED
        BY <1>2, <3>1, SyncsTyped
    <2>5. toDevice' \in [Nodes -> Ring(types)]
      BY <1>2, <2>1, <2>3, <2>4
    <2>6. adapter' \in [Nodes -> Adapters]
      <3> DEFINE a == [adapter[n] EXCEPT !.pending = FALSE, !.active = enable, !.epoch = @ + 1, !.commit = NoMessage]
      <3>1. a \in Adapters
        <4>1. FALSE \in BOOLEAN /\ adapter[n].epoch + 1 \in Nat
          BY <1>2
        <4> QED
          BY <1>2, <1>3, <2>3, <4>1 DEF Adapters
      <3>2. adapter' = [adapter EXCEPT ![n] = a]
        BY <2>1, <2>3
      <3> QED
        BY <1>2, <3>1, <3>2
    <2>7. lifecycle' \in [Nodes -> BOOLEAN]
      BY <1>1, <2>1 DEF GuestType
    <2>8. GuestType'
      BY <1>1, <1>8, <2>1, <2>2, <2>7, CommitExitGuest DEF GuestType
    <2>9. ProcessType' /\ RingType'
      BY <1>1, <2>1, <2>5, <2>6 DEF ProcessType, RingType
    <2> QED
      BY <2>8, <2>9 DEF TypeOK
  <1> QED
    BY <1>5, <1>6, <1>7, <1>8

\* Steps of a device: types, and no check of the device fails.
LEMMA DeviceTypes ==
    ASSUME IInv, NEW n \in Nodes,
           DevicePollHost(n) \/ DevicePollNetwork(n) \/ DeviceForward(n) \/ DeviceCommit(n)
    PROVE  /\ TypeOK' /\ UNCHANGED <<loop, network>> /\ device[n].state = "up" /\ device'[n].state = "up"
           /\ \A k \in Nodes : k # n => device'[k] = device[k]
  <1> DEFINE d == device[n]
             up == {"sync", "request", "response", "prepare"}
             down == {"sync", "execute", "complete", "commit"}
             types == {"sync", "reply", "prepare"}
             hostTypes == {"sync", "dma", "commit"}
  <1>1. TypeOK /\ GuestType /\ ProcessType /\ RingType /\ Work(n) /\ Accesses(n) /\ d.state = "up"
    BY DEF IInv, TypeOK, WorkInv, DevicePollHost, DevicePollNetwork, ReadsNetwork, DeviceForward, DeviceCommit, Up
  <1>2. /\ device \in [Nodes -> Devices] /\ d \in Devices /\ d.epoch \in Nat /\ d.serving \in Seq(Nodes)
        /\ d.accesses \in Nat /\ d.generation \in Nat
        /\ toDevice \in [Nodes -> Ring(types)] /\ toHost \in [Nodes -> Ring(hostTypes)]
        /\ toNetwork \in [Nodes -> Ring(up)] /\ fromNetwork \in [Nodes -> Ring(down)]
        /\ toDevice[n] \in Ring(types) /\ toHost[n] \in Ring(hostTypes)
        /\ toNetwork[n] \in Ring(up) /\ fromNetwork[n] \in Ring(down)
    BY <1>1, Local DEF ProcessType, RingType
  <1>3. UNCHANGED <<session, benchmarks, program, posts, loop, cpu, switched, lifecycle, adapter, dma, network>>
    BY DEF DevicePollHost, DevicePollNetwork, DeviceForward, DeviceCommit, guestVars, loopVars, hostVars
  <1>4. /\ toDevice' \in [Nodes -> Ring(types)] /\ toHost' \in [Nodes -> Ring(hostTypes)]
        /\ toNetwork' \in [Nodes -> Ring(up)] /\ fromNetwork' \in [Nodes -> Ring(down)]
        /\ \E e \in Devices : e.state = "up" /\ device' = [device EXCEPT ![n] = e]
    <2>1. CASE DevicePollHost(n)
      <3> DEFINE m == Head(toDevice[n])
      <3>1. /\ toDevice[n] # <<>> /\ toDevice' = [toDevice EXCEPT ![n] = Tail(@)]
            /\ UNCHANGED <<toHost, fromNetwork>>
        BY <2>1 DEF DevicePollHost
      <3>2. Tail(toDevice[n]) \in Ring(types) /\ m.type \in types
        BY <1>2, <3>1, Reading
      <3>3. CASE m.type = "prepare"
        <4>1. device' = [device EXCEPT ![n] = [d EXCEPT !.prepare = m, !.generation = d.epoch + 1]] /\ m \in Fences
          BY <2>1, <3>3, DevicePollHostStep
        <4>2. UNCHANGED toNetwork
          BY <2>1, <3>3 DEF DevicePollHost
        <4>3. m \in Held /\ d.epoch + 1 \in Nat
          BY <1>2, <4>1 DEF Held
        <4> HIDE DEF m
        <4>4. [d EXCEPT !.prepare = m, !.generation = d.epoch + 1] \in Devices
          BY <1>2, <4>3 DEF Devices
        <4>5. [d EXCEPT !.prepare = m, !.generation = d.epoch + 1].state = "up"
          BY <1>1, <1>2 DEF Devices
        <4> QED
          BY <1>2, <3>1, <3>2, <4>1, <4>2, <4>4, <4>5
      <3>4. CASE m.type = "reply"
        <4>1. d.serving # <<>>
          BY <2>1, <3>4, DevicePollHostStep
        <4>2. PICK s \in Nodes : s = Head(d.serving)
          BY <1>2, <4>1, ServingCounts
        <4> DEFINE e == [d EXCEPT !.accesses = @ - 1, !.serving = Tail(@), !.op = IF s = n THEN None ELSE @]
        <4>3. /\ device' = [device EXCEPT ![n] = e]
              /\ toNetwork' = IF s = n THEN toNetwork
                              ELSE [toNetwork EXCEPT ![n] = Append(@, Message("response", d.epoch, s))]
          BY <2>1, <3>4, <4>2 DEF DevicePollHost
        <4>4. Append(toNetwork[n], Message("response", d.epoch, s)) \in Ring(up)
          BY <1>1, Sendable
        <4>5. Tail(d.serving) \in Seq(Nodes) /\ d.accesses - 1 \in Nat
          <5>1. Tail(d.serving) \in Seq(Nodes) /\ Len(Tail(d.serving)) = Len(d.serving) - 1
            BY <1>2, <4>1, ServingCounts
          <5>2. Len(Tail(d.serving)) \in Nat
            BY <5>1
          <5> QED
            BY <1>1, <5>1, <5>2 DEF Accesses
        <4>6. e \in Devices /\ e.state = "up"
          BY <1>1, <1>2, <4>5 DEF Devices
        <4> HIDE DEF e
        <4>7. toNetwork' \in [Nodes -> Ring(up)]
          BY <1>2, <4>3, <4>4
        <4> QED
          BY <1>2, <3>1, <3>2, <4>3, <4>6, <4>7
      <3>5. CASE m.type = "sync"
        <4>1. UNCHANGED <<device, toNetwork>>
          BY <2>1, <3>5 DEF DevicePollHost
        <4>2. device' = [device EXCEPT ![n] = d]
          BY <1>2, <4>1
        <4> QED
          BY <1>1, <1>2, <3>1, <3>2, <4>1, <4>2
      <3> QED
        BY <3>2, <3>3, <3>4, <3>5
    <2>2. CASE DevicePollNetwork(n)
      <3> DEFINE m == Head(fromNetwork[n])
      <3>1. /\ fromNetwork[n] # <<>> /\ fromNetwork' = [fromNetwork EXCEPT ![n] = Tail(@)]
            /\ UNCHANGED <<toDevice, toNetwork>>
        BY <2>2 DEF DevicePollNetwork, ReadsNetwork
      <3>2. Tail(fromNetwork[n]) \in Ring(down) /\ m \in Item /\ m.type \in down
        BY <1>2, <3>1, Reading
      <3>3. CASE m.type \in {"execute", "complete"}
        <4>1. PICK s \in Nodes : s = m.node
          BY <3>2, <3>3, ItemFacts DEF Carried
        <4> DEFINE e == [d EXCEPT !.accesses = @ + 1, !.serving = Append(@, s)]
        <4>2. /\ device' = [device EXCEPT ![n] = e]
              /\ toHost' = [toHost EXCEPT ![n] = Append(@, Message("dma", d.epoch, s))]
          BY <2>2, <3>3, <4>1 DEF DevicePollNetwork, Access
        <4>3. Append(toHost[n], Message("dma", d.epoch, s)) \in Ring(hostTypes)
          BY <1>1, Sendable
        <4>4. Append(d.serving, s) \in Seq(Nodes) /\ d.accesses + 1 \in Nat
          BY <1>2
        <4>5. e \in Devices /\ e.state = "up"
          BY <1>1, <1>2, <4>4 DEF Devices
        <4> HIDE DEF e
        <4> QED
          BY <1>2, <3>1, <3>2, <4>2, <4>3, <4>5
      <3>4. CASE m.type = "commit"
        <4>1. device' = [device EXCEPT ![n] = [d EXCEPT !.commit = m]] /\ m \in Fences
          BY <2>2, <3>4, DevicePollNetworkStep
        <4>2. UNCHANGED toHost
          BY <2>2, <3>4 DEF DevicePollNetwork
        <4>3. m \in Held
          BY <4>1 DEF Held
        <4> HIDE DEF m
        <4>4. [d EXCEPT !.commit = m] \in Devices /\ [d EXCEPT !.commit = m].state = "up"
          BY <1>1, <1>2, <4>3 DEF Devices
        <4> QED
          BY <1>2, <3>1, <3>2, <4>1, <4>2, <4>4
      <3>5. CASE m.type = "sync"
        <4>1. UNCHANGED <<device, toHost>>
          BY <2>2, <3>5 DEF DevicePollNetwork
        <4>2. device' = [device EXCEPT ![n] = d]
          BY <1>2, <4>1
        <4> QED
          BY <1>1, <1>2, <3>1, <3>2, <4>1, <4>2
      <3> QED
        BY <3>2, <3>3, <3>4, <3>5
    <2>3. CASE DeviceForward(n)
      <3> DEFINE x == Fence("prepare", d.epoch, d.generation, d.prepare.enabled)
                 e == [d EXCEPT !.forwarded = TRUE]
      <3>1. /\ d.prepare # NoMessage /\ device' = [device EXCEPT ![n].forwarded = TRUE]
            /\ toNetwork' = [toNetwork EXCEPT ![n] = Append(@, x)]
            /\ UNCHANGED <<toDevice, toHost, fromNetwork>>
        BY <2>3 DEF DeviceForward, MayForward
      <3>2. x \in Item /\ x.type = "prepare"
        <4>1. d.prepare \in Fences
          BY <1>1, <3>1, Local DEF Held
        <4>2. x \in Fences /\ x.type = "prepare"
          BY <1>2, <4>1 DEF Fence, Fences
        <4> HIDE DEF x
        <4> QED
          BY <4>2 DEF Item
      <3> HIDE DEF x
      <3>3. Append(toNetwork[n], x) \in Ring(up)
        BY <1>2, <3>2, Sending
      <3>4. e \in Devices /\ e.state = "up" /\ device' = [device EXCEPT ![n] = e]
        <4>1. TRUE \in BOOLEAN
          OBVIOUS
        <4> QED
          BY <1>1, <1>2, <3>1, <4>1 DEF Devices
      <3> HIDE DEF e
      <3> QED
        BY <1>2, <3>1, <3>3, <3>4
    <2>4. CASE DeviceCommit(n)
      <3> DEFINE x == TheFence("commit", d.epoch)
                 e == Commits(d)
      <3>1. /\ UNCHANGED <<toDevice, fromNetwork>> /\ device' = [device EXCEPT ![n] = e]
            /\ toHost' = [toHost EXCEPT ![n] = Append(toHost[n], x) \o Syncs(d.prepare.enabled, d.epoch + 1)]
            /\ toNetwork' = [toNetwork EXCEPT ![n] = toNetwork[n] \o Syncs(d.prepare.enabled, d.epoch + 1)]
            /\ d.prepare.enabled = ~Odd(d.epoch)
        BY <2>4, DeviceCommitStep DEF DeviceCommit
      <3>2. PICK enable \in BOOLEAN : enable = d.prepare.enabled
        BY <3>1
      <3>3. x \in Item /\ x.type = "commit" /\ d.epoch + 1 \in Nat
        <4>1. d.epoch \in Nat /\ d.epoch + 1 \in Nat
          BY <1>2
        <4> HIDE DEF d
        <4> QED
          BY <4>1, TheFenceFacts
      <3> HIDE DEF x
      <3>4. Append(toHost[n], x) \in Ring(hostTypes)
        BY <1>2, <3>3, Sending
      <3>5. "sync" \in hostTypes /\ "sync" \in up
        OBVIOUS
      <3>6. e \in Devices /\ e.state = "up"
        <4>1. NoMessage \in Held /\ FALSE \in BOOLEAN
          BY DEF Held
        <4> QED
          BY <1>1, <1>2, <3>2, <3>3, <4>1 DEF Commits, Devices
      <3> HIDE DEF hostTypes, up, e
      <3>7. Append(toHost[n], x) \o Syncs(enable, d.epoch + 1) \in Ring(hostTypes)
        BY <3>3, <3>4, <3>5, SyncsTyped
      <3>8. toNetwork[n] \o Syncs(enable, d.epoch + 1) \in Ring(up)
        BY <1>2, <3>3, <3>5, SyncsTyped
      <3> QED
        BY <1>2, <3>1, <3>2, <3>6, <3>7, <3>8
    <2> QED
      BY <2>1, <2>2, <2>3, <2>4
  <1>5. PICK e \in Devices : e.state = "up" /\ device' = [device EXCEPT ![n] = e]
    BY <1>4
  <1>6. device' \in [Nodes -> Devices] /\ device'[n].state = "up" /\ \A k \in Nodes : k # n => device'[k] = device[k]
    BY <1>2, <1>5
  <1>7. GuestType' /\ ProcessType' /\ RingType'
    BY <1>1, <1>3, <1>4, <1>6 DEF GuestType, ProcessType, RingType
  <1> QED
    BY <1>1, <1>3, <1>6, <1>7 DEF TypeOK

\* The end of a device.
LEMMA StopTypes ==
    ASSUME IInv, NEW n \in Nodes, DeviceStop(n)
    PROVE  /\ TypeOK' /\ UNCHANGED <<loop, network>>
           /\ device' = [device EXCEPT ![n] = [device[n] EXCEPT !.state = IF MaySave(n) THEN "saved" ELSE "refused"]]
           /\ device[n] \in Devices /\ device \in [Nodes -> Devices]
  <1>1. TypeOK /\ GuestType /\ ProcessType /\ RingType
    BY DEF IInv, TypeOK
  <1>2. device \in [Nodes -> Devices] /\ device[n] \in Devices
    BY <1>1 DEF ProcessType
  <1>3. device' = [device EXCEPT ![n] = [device[n] EXCEPT !.state = IF MaySave(n) THEN "saved" ELSE "refused"]]
    BY DEF DeviceStop
  <1>4. PICK s \in {"saved", "refused"} : s = IF MaySave(n) THEN "saved" ELSE "refused"
    OBVIOUS
  <1>5. [device[n] EXCEPT !.state = s] \in Devices
    BY <1>2 DEF Devices
  <1>6. device' \in [Nodes -> Devices]
    BY <1>2, <1>3, <1>4, <1>5
  <1>7. UNCHANGED <<session, benchmarks, program, posts, loop, cpu, switched, lifecycle, adapter, dma, network,
                    toDevice, toHost, toNetwork, fromNetwork>>
    BY DEF DeviceStop, guestVars, loopVars, hostVars, rings
  <1>8. GuestType' /\ ProcessType' /\ RingType'
    BY <1>1, <1>6, <1>7 DEF GuestType, ProcessType, RingType
  <1> QED
    BY <1>2, <1>3, <1>7, <1>8 DEF TypeOK

\* Steps of the network: types, and no check of the network fails.
LEMMA NetworkTypes ==
    ASSUME IInv, NetworkStep
    PROVE  TypeOK' /\ UNCHANGED <<loop, device>> /\ network'.state = "up"
  <1> DEFINE up == {"sync", "request", "response", "prepare"}
             down == {"sync", "execute", "complete", "commit"}
             states == {None, "new", "executing", "executed"}
  <1>1. TypeOK /\ GuestType /\ ProcessType /\ RingType /\ network.state = "up"
    BY DEF IInv, TypeOK, NetworkStep, NetworkPoll, NetworkDeliver, NetworkCommit, NetworkUp
  <1>2. /\ network \in Networks /\ network.epoch \in Nat /\ network.tasks \in [Nodes -> states]
        /\ network.prepared \in [Nodes -> Held]
        /\ toNetwork \in [Nodes -> Ring(up)] /\ fromNetwork \in [Nodes -> Ring(down)]
    BY <1>1 DEF ProcessType, RingType, Networks
  <1>3. UNCHANGED <<session, benchmarks, program, posts, loop, cpu, switched, lifecycle, adapter, dma, device,
                    toDevice, toHost>>
    BY DEF NetworkStep, NetworkPoll, NetworkDeliver, NetworkCommit, guestVars, loopVars, hostVars
  <1>4. ASSUME NEW n \in Nodes, NEW s \in states
        PROVE  /\ [network EXCEPT !.tasks[n] = s] \in Networks
               /\ [network EXCEPT !.tasks[n] = s].state = "up"
    <2>1. [network.tasks EXCEPT ![n] = s] \in [Nodes -> states]
      BY <1>2
    <2>2. [network EXCEPT !.tasks[n] = s] = [network EXCEPT !.tasks = [network.tasks EXCEPT ![n] = s]]
      OBVIOUS
    <2>3. PICK f \in [Nodes -> states] : f = [network.tasks EXCEPT ![n] = s]
      BY <2>1
    <2>4. [network EXCEPT !.tasks = f] \in Networks /\ [network EXCEPT !.tasks = f].state = "up"
      BY <1>1, <1>2 DEF Networks
    <2> QED
      BY <2>2, <2>3, <2>4
  <1>5. /\ network' \in Networks /\ network'.state = "up"
        /\ toNetwork' \in [Nodes -> Ring(up)] /\ fromNetwork' \in [Nodes -> Ring(down)]
    <2>1. ASSUME NEW n \in Nodes, NetworkPoll(n)
          PROVE  /\ network' \in Networks /\ network'.state = "up"
                 /\ toNetwork' \in [Nodes -> Ring(up)] /\ fromNetwork' \in [Nodes -> Ring(down)]
      <3> DEFINE m == Head(toNetwork[n])
      <3>1. toNetwork[n] # <<>> /\ toNetwork' = [toNetwork EXCEPT ![n] = Tail(@)] /\ UNCHANGED fromNetwork
        BY <2>1 DEF NetworkPoll
      <3>2. Tail(toNetwork[n]) \in Ring(up) /\ m \in Item /\ m.type \in up
        <4>1. toNetwork[n] \in Ring(up)
          BY <1>2
        <4> QED
          BY <3>1, <4>1, Reading
      <3>3. network' \in Networks /\ network'.state = "up"
        <4>1. CASE m.type = "request"
          <5>1. network' = [network EXCEPT !.tasks[n] = "new"]
            BY <2>1, <4>1 DEF NetworkPoll
          <5> QED
            BY <5>1, <1>4
        <4>2. CASE m.type = "response"
          <5>1. PICK s \in Nodes : s = m.node
            BY <3>2, <4>2, ItemFacts DEF Carried
          <5>2. network' = [network EXCEPT !.tasks[s] = "executed"]
            BY <2>1, <4>2, <5>1 DEF NetworkPoll
          <5> QED
            BY <5>2, <1>4
        <4>3. CASE m.type = "prepare"
          <5>1. network' = [network EXCEPT !.prepared[n] = m]
            BY <2>1, <4>3 DEF NetworkPoll
          <5>2. m \in Held
            BY <2>1, <4>3, NetworkPollStep DEF Held
          <5> HIDE DEF m
          <5>3. PICK f \in [Nodes -> Held] : f = [network.prepared EXCEPT ![n] = m]
            BY <1>2, <5>2
          <5>4. [network EXCEPT !.prepared = f] \in Networks /\ [network EXCEPT !.prepared = f].state = "up"
            BY <1>1, <1>2 DEF Networks
          <5>5. network' = [network EXCEPT !.prepared = [network.prepared EXCEPT ![n] = m]]
            BY <5>1
          <5> QED
            BY <5>3, <5>4, <5>5
        <4>4. CASE m.type = "sync"
          BY <2>1, <4>4, <1>1, <1>2 DEF NetworkPoll
        <4> QED
          BY <3>2, <4>1, <4>2, <4>3, <4>4
      <3> QED
        BY <1>2, <3>1, <3>2, <3>3
    <2>2. ASSUME NEW n \in Nodes, NetworkDeliver(n)
          PROVE  /\ network' \in Networks /\ network'.state = "up"
                 /\ toNetwork' \in [Nodes -> Ring(up)] /\ fromNetwork' \in [Nodes -> Ring(down)]
      <3>1. device[n].target \in Nodes
        BY <1>1, Local
      <3>2. PICK s \in {"executing", None}, type \in {"execute", "complete"}, k \in Nodes :
              /\ network' = [network EXCEPT !.tasks[n] = s]
              /\ fromNetwork' = [fromNetwork EXCEPT ![k] = Append(@, Message(type, network.epoch, n))]
        BY <2>2, <3>1 DEF NetworkDeliver
      <3>3. UNCHANGED toNetwork
        BY <2>2 DEF NetworkDeliver
      <3>4. Append(fromNetwork[k], Message(type, network.epoch, n)) \in Ring(down)
        BY <1>1, Sendable
      <3>5. network' \in Networks /\ network'.state = "up"
        BY <1>4, <3>2
      <3> QED
        BY <1>2, <3>2, <3>3, <3>4, <3>5
    <2>3. CASE NetworkCommit
      <3>1. /\ network' \in Networks /\ network'.state = "up" /\ UNCHANGED toNetwork
            /\ fromNetwork' = [n \in Nodes |-> Append(fromNetwork[n], TheFence("commit", network.epoch))
                                                \o Syncs(~Odd(network.epoch), network.epoch + 1)]
        BY <1>1, <2>3, NetworkCommitStep DEF NetworkCommit
      <3>2. PICK enable \in BOOLEAN : enable = ~Odd(network.epoch)
        OBVIOUS
      <3>3. PICK x \in Item : x = TheFence("commit", network.epoch) /\ x.type = "commit"
        BY <1>2, TheFenceFacts
      <3>4. network.epoch + 1 \in Nat /\ "sync" \in down /\ x.type \in down
        BY <1>2, <3>3
      <3> HIDE DEF down
      <3>5. ASSUME NEW n \in Nodes
            PROVE  Append(fromNetwork[n], x) \o Syncs(enable, network.epoch + 1) \in Ring(down)
        <4>1. fromNetwork[n] \in Ring(down)
          BY <1>2
        <4>2. Append(fromNetwork[n], x) \in Ring(down)
          BY <3>4, <4>1, Sending
        <4> QED
          BY <3>4, <4>2, SyncsTyped
      <3>6. fromNetwork' \in [Nodes -> Ring(down)]
        BY <3>1, <3>2, <3>3, <3>5
      <3> QED
        BY <1>2, <3>1, <3>6
    <2> QED
      BY <2>1, <2>2, <2>3 DEF NetworkStep
  <1>6. GuestType' /\ ProcessType' /\ RingType'
    BY <1>1, <1>3, <1>5 DEF GuestType, ProcessType, RingType
  <1> QED
    BY <1>3, <1>5, <1>6 DEF TypeOK

----------------------------------------------------------------------------
(* The invariant holds initially and is kept by every step *)

\* Initially nothing is anywhere.
LEMMA InitInv ==
    ASSUME Init
    PROVE  IInv
  <1>1. TypeOK
    <2>1. /\ session \in Sessions /\ benchmarks \in Nat /\ posts \in Nat
      BY DEF Init
    <2>2. <<>> \in Seq(Steps) /\ <<>> \in Seq(Nodes) /\ NoMessage \in Held /\ FALSE \in BOOLEAN /\ 0 \in Nat
      BY DEF Held
    <2>3. \A types : <<>> \in Ring(types)
      BY DEF Ring
    <2>4. GuestType
      BY <2>1, <2>2 DEF Init, GuestType
    <2>5. ASSUME NEW n \in Nodes
          PROVE  adapter[n] \in Adapters /\ device[n] \in Devices
      BY <2>2 DEF Init, Adapters, Devices
    <2>6. network \in Networks
      <3>1. [n \in Nodes |-> None] \in [Nodes -> {None, "new", "executing", "executed"}]
        OBVIOUS
      <3>2. [n \in Nodes |-> NoMessage] \in [Nodes -> Held]
        BY <2>2
      <3>3. PICK f \in [Nodes -> {None, "new", "executing", "executed"}] : f = [n \in Nodes |-> None]
        BY <3>1
      <3>4. PICK g \in [Nodes -> Held] : g = [n \in Nodes |-> NoMessage]
        BY <3>2
      <3>5. network = [state |-> "up", tasks |-> f, active |-> FALSE, epoch |-> 0, prepared |-> g]
        BY <3>3, <3>4 DEF Init
      <3> QED
        BY <2>2, <3>5 DEF Networks
    <2>7. ProcessType
      BY <2>5, <2>6 DEF Init, ProcessType
    <2>8. RingType
      BY <2>3 DEF Init, RingType
    <2> QED
      BY <2>4, <2>7, <2>8 DEF TypeOK
  <1>2. ASSUME NEW n \in Nodes
        PROVE  /\ loop[n] = "running" /\ cpu[n] = "boot" /\ switched[n] = FALSE /\ lifecycle[n] = FALSE
               /\ adapter[n].pending = FALSE /\ adapter[n].commit = NoMessage /\ adapter[n].generation = 0
               /\ adapter[n].active = FALSE /\ adapter[n].epoch = 0 /\ dma[n] = 0
               /\ device[n].state = "up" /\ device[n].op = None /\ device[n].target = n
               /\ device[n].accesses = 0 /\ device[n].serving = <<>> /\ device[n].prepare = NoMessage
               /\ device[n].generation = 0 /\ device[n].forwarded = FALSE /\ device[n].commit = NoMessage
               /\ device[n].active = FALSE /\ device[n].epoch = 0
               /\ network.state = "up" /\ network.tasks[n] = None /\ network.active = FALSE
               /\ network.epoch = 0 /\ network.prepared[n] = NoMessage
               /\ toDevice[n] = <<>> /\ toHost[n] = <<>> /\ toNetwork[n] = <<>> /\ fromNetwork[n] = <<>>
               /\ program[n] = <<>>
    BY DEF Init
  <1>3. \A S : Num(<<>>, S) = 0
    BY NumEmpty
  <1>4. NoFenceFailure
    <2>1. network.state = "up"
      BY DEF Init
    <2> QED
      BY <1>2, <2>1 DEF NoFenceFailure
  <1>5. ASSUME NEW n \in Nodes
        PROVE  Phase(n) /\ Fields(n) /\ Rings(n)
    <2>1. /\ adapter[n].pending = FALSE /\ adapter[n].commit = NoMessage /\ adapter[n].generation = 0
          /\ adapter[n].active = FALSE /\ adapter[n].epoch = 0 /\ dma[n] = 0 /\ lifecycle[n] = FALSE
          /\ network.epoch = 0 /\ network.prepared[n] = NoMessage
      BY <1>2
    <2>2. /\ device[n].prepare = NoMessage /\ device[n].generation = 0 /\ device[n].forwarded = FALSE
          /\ device[n].commit = NoMessage /\ device[n].active = FALSE /\ device[n].epoch = 0
          /\ device[n].accesses = 0
      BY <1>2
    <2>3. toDevice[n] = <<>> /\ toHost[n] = <<>> /\ toNetwork[n] = <<>> /\ fromNetwork[n] = <<>>
      BY <1>2
    <2>4. /\ Asked(n) = 0 /\ Draining(n) = 0 /\ Forwarding(n) = 0 /\ Prepared(n) = 0 /\ Answered(n) = 0
          /\ Committing(n) = 0 /\ Passed(n) = 0 /\ Finishing(n) = 0
      BY <2>1, <2>2, <2>3, <1>3 DEF Asked, Draining, Forwarding, Prepared, Answered, Committing, Passed, Finishing, One
    <2>5. Phase(n)
      BY <2>1, <2>2, <2>4 DEF Phase, Preparing, Agreed, One
    <2>6. Fields(n)
      <3>1. Odd(0) = FALSE
        BY DEF Odd
      <3>2. One(FALSE) = 0 /\ One(NoMessage # NoMessage) = 0
        BY DEF One
      <3>3. /\ adapter[n].active = Odd(adapter[n].epoch) /\ lifecycle[n] = adapter[n].active
            /\ device[n].active = Odd(device[n].epoch)
        BY <2>1, <2>2, <3>1
      <3>4. adapter[n].generation = adapter[n].epoch + One(adapter[n].pending)
        BY <2>1 DEF One
      <3>5. device[n].generation = device[n].epoch + One(device[n].prepare # NoMessage)
        BY <2>2, <3>2
      <3> QED
        BY <2>1, <2>2, <3>3, <3>4, <3>5 DEF Fields
    <2>7. Upward(<<>>, 0) /\ Downward(<<>>, 0, 0)
      BY DEF Upward, Downward
    <2>8. Rings(n)
      BY <2>1, <2>2, <2>3, <2>4, <2>7 DEF Rings
    <2> QED
      BY <2>5, <2>6, <2>8
  <1>6. FenceInv
    <2>1. network.active = FALSE /\ network.epoch = 0
      BY DEF Init
    <2> QED
      <3>1. Odd(0) = FALSE
        BY DEF Odd
      <3> QED
        BY <1>5, <2>1, <3>1 DEF FenceInv
  <1>7. ASSUME NEW n \in Nodes
        PROVE  Accesses(n) /\ Work(n)
    <2>1. /\ device[n].op = None /\ device[n].accesses = 0 /\ device[n].forwarded = FALSE /\ dma[n] = 0
          /\ network.tasks[n] = None
      BY <1>2
    <2>2. \A k \in Nodes : /\ toDevice[k] = <<>> /\ toHost[k] = <<>> /\ toNetwork[k] = <<>>
                           /\ fromNetwork[k] = <<>> /\ device[k].serving = <<>>
      BY <1>2
    <2>3. Accesses(n)
      BY <2>1, <2>2, <1>3 DEF Accesses
    <2>4. Target(n) = n
      BY <1>2 DEF Target
    <2>5. /\ Requested(n) = 0 /\ Sent(n) = 0 /\ Arriving(n) = 0 /\ Executed(n) = 0 /\ Responding(n) = 0
          /\ Returned(n) = 0 /\ Completing(n) = 0 /\ Completed(n) = 0 /\ One(network.tasks[n] = "executing") = 0
      BY <2>1, <2>2, <1>3, <2>4
         DEF Requested, Sent, Arriving, Executed, Responding, Returned, Completing, Completed, One, None
    <2>6. Outward(n) = 0 /\ Homeward(n) = 0
      BY <2>5 DEF Outward, Homeward
    <2>7. \A k \in Nodes : Elsewhere(n, k)
      BY <2>2, <1>3 DEF Elsewhere
    <2>8. Work(n)
      BY <2>1, <2>5, <2>6, <2>7 DEF Work, One
    <2> QED
      BY <2>3, <2>8
  <1>8. ASSUME NEW n \in Nodes
        PROVE  Programs(n)
    <2>1. /\ program[n] = <<>> /\ loop[n] = "running" /\ cpu[n] = "boot" /\ switched[n] = FALSE
          /\ adapter[n].pending = FALSE /\ adapter[n].active = FALSE
      BY <1>2
    <2>2. LeftOf(<<>>, Checkpointing)
      BY BenchmarkLayout DEF LeftOf
    <2>3. ~Testing(n) /\ Len(program[n]) = 0
      BY <2>1 DEF Testing
    <2>4. InO3(n) = FALSE
      BY <2>1, <2>3 DEF InO3
    <2> QED
      BY <2>1, <2>2, <2>3, <2>4 DEF Programs
  <1>9. StopInv
    BY <1>2 DEF StopInv, Stopped
  <1> QED
    BY <1>1, <1>4, <1>6, <1>7, <1>8, <1>9 DEF IInv, WorkInv, GuestInv

\* While a gem5 runs, no device has stopped.
LEMMA NotStopped ==
    ASSUME IInv, NEW n \in Nodes, loop[n] = "running", \A k \in Nodes : device'[k].state = device[k].state
    PROVE  StopInv'
  BY DEF IInv, StopInv, Stopped

\* A step that leaves the guests alone.
LEMMA GuestsKept ==
    ASSUME IInv, UNCHANGED <<session, program, switched, cpu, loop>>,
           \A k \in Nodes : adapter'[k].active = adapter[k].active /\ adapter'[k].pending = adapter[k].pending
    PROVE  GuestInv'
  <1>1. \A k \in Nodes : SameGuest(k)
    BY DEF SameGuest
  <1> QED
    BY <1>1, GuestKept DEF IInv, GuestInv

\* The steps of Next: a command,
LEMMA CommandInv ==
    ASSUME IInv, RunBenchmark \/ RunCheckpoint
    PROVE  IInv'
  <1>1. PICK p \in {Benchmark(session.benchmark), Checkpointing} : Command(p)
    BY DEF RunBenchmark, RunCheckpoint
  <1>2. PICK n \in Nodes : TRUE
    BY NodesAssumption
  <1>3. /\ loop[n] = "running"
        /\ UNCHANGED <<loop, lifecycle, adapter, dma, device, network, toDevice, toHost, toNetwork, fromNetwork>>
    BY <1>1, <1>2 DEF Command, Running, loopVars, hostVars, rings
  <1>4. TypeOK'
    BY <1>2, GuestTypes
  <1>5. FenceInv' /\ WorkInv'
    <2>1. ASSUME NEW k \in Nodes
          PROVE  \E s : device'[k] = [device[k] EXCEPT !.state = s]
      <3>1. device[k] \in Devices
        BY Local DEF IInv
      <3>2. device'[k] = [device[k] EXCEPT !.state = device[k].state]
        BY <1>3, <3>1 DEF Devices
      <3> QED
        BY <3>2
    <2> QED
      BY <1>3, <2>1, QuietStep
  <1>6. GuestInv'
    BY <1>1, CommandGuest
  <1>7. StopInv'
    BY <1>3, NotStopped
  <1>8. NoFenceFailure'
    BY <1>3 DEF IInv, NoFenceFailure
  <1> QED
    BY <1>4, <1>5, <1>6, <1>7, <1>8 DEF IInv

\* a step of a guest,
LEMMA GuestStepInv ==
    ASSUME IInv, NEW n \in Nodes, GoOn(n) \/ SwitchExit(n) \/ CheckpointExit(n)
    PROVE  IInv'
  <1>1. loop[n] = "running" /\ UNCHANGED <<lifecycle, adapter, dma, device, network, toDevice, toHost, toNetwork, fromNetwork>>
    BY DEF GoOn, SwitchExit, CheckpointExit, At, Running, loopVars, hostVars, rings
  <1>2. TypeOK'
    BY GuestTypes
  <1>3. FenceInv' /\ WorkInv'
    <2>1. ASSUME NEW k \in Nodes
          PROVE  \E s : device'[k] = [device[k] EXCEPT !.state = s]
      <3>1. device[k] \in Devices
        BY Local DEF IInv
      <3>2. device'[k] = [device[k] EXCEPT !.state = device[k].state]
        BY <1>1, <3>1 DEF Devices
      <3> QED
        BY <3>2
    <2> QED
      BY <1>1, <2>1, QuietStep
  <1>4. GuestInv'
    BY GoOnGuest, SwitchExitGuest, CheckpointExitGuest
  <1>5. StopInv'
    BY <1>1, NotStopped
  <1>6. \A k \in Nodes : loop'[k] # "failed"
    <2>1. \A k \in Nodes : loop[k] # "failed"
      BY DEF IInv, NoFenceFailure
    <2>2. CASE GoOn(n) \/ SwitchExit(n)
      <3>1. UNCHANGED loop
        BY <2>2, SwitchExitGuest DEF GoOn, loopVars
      <3> QED
        BY <2>1, <3>1
    <2>3. CASE CheckpointExit(n)
      <3>1. loop' = [loop EXCEPT ![n] = "ended"] /\ DOMAIN loop = Nodes
        BY <2>3, CheckpointExitGuest DEF IInv, TypeOK, GuestType
      <3> QED
        BY <2>1, <3>1
    <2> QED
      BY <2>2, <2>3
  <1>7. NoFenceFailure'
    BY <1>1, <1>6 DEF IInv, NoFenceFailure
  <1> QED
    BY <1>2, <1>3, <1>4, <1>5, <1>7 DEF IInv

\* an operation posted,
LEMMA PostInv ==
    ASSUME IInv, NEW n \in Nodes, NEW target \in Nodes, Post(n, target)
    PROVE  IInv'
  <1>1. /\ loop[n] = "running" /\ device' = [device EXCEPT ![n].op = "issued", ![n].target = target]
        /\ UNCHANGED <<session, program, switched, cpu, loop, adapter, network>>
    BY DEF Post, At, Running, loopVars, hostVars
  <1>2. TypeOK'
    BY GuestTypes
  <1>3. FenceInv' /\ WorkInv'
    BY PostStep, PostWork
  <1>4. GuestInv'
    BY <1>1, GuestsKept
  <1>5. \A k \in Nodes : device'[k].state = device[k].state
    <2>1. device \in [Nodes -> Devices] /\ device[n] \in Devices
      BY DEF IInv, TypeOK, ProcessType
    <2>2. device'[n].state = device[n].state /\ \A k \in Nodes : k # n => device'[k] = device[k]
      BY <1>1, <2>1 DEF Devices
    <2> QED
      BY <2>2
  <1>6. StopInv'
    BY <1>1, <1>5, NotStopped
  <1>7. NoFenceFailure'
    BY <1>1, <1>5 DEF IInv, NoFenceFailure
  <1> QED
    BY <1>2, <1>3, <1>4, <1>6, <1>7 DEF IInv

\* a step of a host adapter,
LEMMA HostStepInv ==
    ASSUME IInv, NEW n \in Nodes, FenceExit(n) \/ HostService(n) \/ DmaDone(n) \/ CommitExit(n)
    PROVE  IInv'
  <1>1. loop[n] = "running" /\ UNCHANGED <<device, network>>
    BY DEF FenceExit, At, Running, HostService, HostReads, DmaDone, CommitExit
  <1>2. TypeOK'
    BY HostTypes
  <1>3. FenceInv'
    BY FenceExitStep, HostServiceStep, DmaDoneStep, CommitExitStep
  <1>4. WorkInv'
    BY FenceExitWork, HostServiceWork, DmaDoneWork, CommitExitWork
  <1>5. GuestInv' /\ UNCHANGED loop
    <2>1. CASE FenceExit(n)
      BY <2>1, FenceExitGuest
    <2>2. CASE CommitExit(n)
      BY <2>2, CommitExitGuest
    <2>3. CASE HostService(n) \/ DmaDone(n)
      <3>1. UNCHANGED <<session, program, switched, cpu, loop>>
        BY <2>3 DEF HostService, DmaDone, guestVars, loopVars
      <3>2. \A k \in Nodes : adapter'[k].active = adapter[k].active /\ adapter'[k].pending = adapter[k].pending
        <4>1. adapter \in [Nodes -> Adapters] /\ adapter[n] \in Adapters
          BY DEF IInv, TypeOK, ProcessType
        <4>2. \/ adapter' = adapter
              \/ \E m : adapter' = [adapter EXCEPT ![n].commit = m]
          BY <2>3 DEF HostService, DmaDone
        <4>3. ASSUME NEW m, adapter' = [adapter EXCEPT ![n].commit = m]
              PROVE  /\ adapter'[n].active = adapter[n].active /\ adapter'[n].pending = adapter[n].pending
                     /\ \A k \in Nodes : k # n => adapter'[k] = adapter[k]
          BY <4>1, <4>3 DEF Adapters
        <4> QED
          BY <4>2, <4>3
      <3> QED
        BY <3>1, <3>2, GuestsKept
    <2> QED
      BY <2>1, <2>2, <2>3
  <1>6. StopInv'
    BY <1>1, NotStopped
  <1>7. NoFenceFailure'
    BY <1>1, <1>5 DEF IInv, NoFenceFailure
  <1> QED
    BY <1>2, <1>3, <1>4, <1>5, <1>6, <1>7 DEF IInv

\* of a device,
LEMMA DeviceStepInv ==
    ASSUME IInv, NEW n \in Nodes, DeviceStep(n)
    PROVE  IInv'
  <1>1. DevicePollHost(n) \/ DevicePollNetwork(n) \/ DeviceForward(n) \/ DeviceCommit(n)
    BY DEF DeviceStep
  <1>2. /\ TypeOK' /\ UNCHANGED <<loop, network>> /\ device[n].state = "up" /\ device'[n].state = "up"
        /\ \A k \in Nodes : k # n => device'[k] = device[k]
    BY <1>1, DeviceTypes
  <1>3. FenceInv'
    BY <1>1, DevicePollHostStep, DevicePollNetworkStep, DeviceForwardStep, DeviceCommitStep
  <1>4. WorkInv'
    BY <1>1, DevicePollHostWork, DevicePollNetworkWork, DeviceForwardWork, DeviceCommitWork
  <1>5. GuestInv'
    <2>1. UNCHANGED <<session, program, switched, cpu, loop, adapter>>
      BY <1>1 DEF DevicePollHost, DevicePollNetwork, DeviceForward, DeviceCommit, guestVars, loopVars, hostVars
    <2> QED
      BY <2>1, GuestsKept
  <1>6. StopInv'
    <2>1. ASSUME NEW k \in Nodes
          PROVE  Stopped(k)'
      <3>1. CASE k = n
        BY <3>1, <1>2 DEF Stopped
      <3>2. CASE k # n
        BY <3>2, <1>2 DEF IInv, StopInv, Stopped, Quiescent
      <3> QED
        BY <3>1, <3>2
    <2> QED
      BY <2>1 DEF StopInv
  <1>7. NoFenceFailure'
    BY <1>2 DEF IInv, NoFenceFailure
  <1> QED
    BY <1>2, <1>3, <1>4, <1>5, <1>6, <1>7 DEF IInv

\* the end of a device,
LEMMA DeviceStopInv ==
    ASSUME IInv, NEW n \in Nodes, DeviceStop(n)
    PROVE  IInv'
  <1>1. /\ TypeOK' /\ UNCHANGED <<loop, network>> /\ device[n] \in Devices /\ device \in [Nodes -> Devices]
        /\ device' = [device EXCEPT ![n] = [device[n] EXCEPT !.state = IF MaySave(n) THEN "saved" ELSE "refused"]]
    BY StopTypes
  <1>2. UNCHANGED <<session, program, switched, cpu, lifecycle, adapter, dma, toDevice, toHost, toNetwork, fromNetwork>>
    BY DEF DeviceStop, guestVars, loopVars, hostVars, rings
  <1>3. \A m \in Nodes : loop[m] = "ended"
    BY DEF DeviceStop
  <1>4. PICK s \in {"saved", "refused"} : s = IF MaySave(n) THEN "saved" ELSE "refused"
    OBVIOUS
  <1>5. device'[n] = [device[n] EXCEPT !.state = s] /\ \A k \in Nodes : k # n => device'[k] = device[k]
    BY <1>1, <1>4
  <1>6. /\ device'[n].state = s /\ device'[n].op = device[n].op /\ device'[n].accesses = device[n].accesses
    BY <1>1, <1>5 DEF Devices
  <1>7. FenceInv' /\ WorkInv'
    <2>1. ASSUME NEW k \in Nodes
          PROVE  \E t : device'[k] = [device[k] EXCEPT !.state = t]
      <3>1. CASE k = n
        BY <3>1, <1>5
      <3>2. CASE k # n
        <4>1. device[k] \in Devices
          BY <1>1
        <4>2. device'[k] = [device[k] EXCEPT !.state = device[k].state]
          BY <3>2, <1>5, <4>1 DEF Devices
        <4> QED
          BY <4>2
      <3> QED
        BY <3>1, <3>2
    <2> QED
      BY <1>1, <1>2, <2>1, QuietStep
  <1>8. GuestInv'
    BY <1>1, <1>2, GuestsKept
  <1>9. StopInv'
    <2>1. Stopped(n)'
      <3>1. s = "saved" => Quiescent(n)
        BY <1>4 DEF MaySave
      <3> QED
        BY <1>1, <1>3, <1>6, <3>1 DEF Stopped, Quiescent
    <2>2. ASSUME NEW k \in Nodes, k # n
          PROVE  Stopped(k)'
      BY <1>1, <1>5, <2>2 DEF IInv, StopInv, Stopped, Quiescent
    <2> QED
      BY <2>1, <2>2 DEF StopInv
  <1>10. NoFenceFailure'
    BY <1>1, <1>5, <1>6 DEF IInv, NoFenceFailure
  <1> QED
    BY <1>1, <1>7, <1>8, <1>9, <1>10 DEF IInv

\* a step of the network,
LEMMA NetworkStepInv ==
    ASSUME IInv, NetworkStep
    PROVE  IInv'
  <1>1. TypeOK' /\ UNCHANGED <<loop, device>> /\ network'.state = "up"
    BY NetworkTypes
  <1>2. FenceInv'
    BY NetworkPollStep, NetworkDeliverStep, NetworkCommitStep DEF NetworkStep
  <1>3. WorkInv'
    BY NetworkPollWork, NetworkDeliverWork, NetworkCommitWork DEF NetworkStep
  <1>4. GuestInv'
    <2>1. UNCHANGED <<session, program, switched, cpu, loop, adapter>>
      BY DEF NetworkStep, NetworkPoll, NetworkDeliver, NetworkCommit, guestVars, loopVars, hostVars
    <2> QED
      BY <2>1, GuestsKept
  <1>5. StopInv'
    BY <1>1 DEF IInv, StopInv, Stopped, Quiescent
  <1>6. NoFenceFailure'
    BY <1>1 DEF IInv, NoFenceFailure
  <1> QED
    BY <1>1, <1>2, <1>3, <1>4, <1>5, <1>6 DEF IInv

\* or none.
LEMMA StutterInv ==
    ASSUME IInv, UNCHANGED vars
    PROVE  IInv'
  <1>1. UNCHANGED <<session, benchmarks, program, posts, loop, cpu, switched, lifecycle, adapter, dma, device, network,
                    toDevice, toHost, toNetwork, fromNetwork>>
    BY DEF vars, guestVars, loopVars, hostVars, rings
  <1>2. TypeOK'
    BY <1>1 DEF IInv, TypeOK, GuestType, ProcessType, RingType
  <1>3. FenceInv' /\ WorkInv'
    <2>1. ASSUME NEW k \in Nodes
          PROVE  \E s : device'[k] = [device[k] EXCEPT !.state = s]
      <3>1. device[k] \in Devices
        BY Local DEF IInv
      <3>2. device'[k] = [device[k] EXCEPT !.state = device[k].state]
        BY <1>1, <3>1 DEF Devices
      <3> QED
        BY <3>2
    <2> QED
      BY <1>1, <2>1, QuietStep
  <1>4. GuestInv'
    BY <1>1, GuestsKept
  <1>5. StopInv' /\ NoFenceFailure'
    BY <1>1 DEF IInv, StopInv, Stopped, Quiescent, NoFenceFailure
  <1> QED
    BY <1>2, <1>3, <1>4, <1>5 DEF IInv

\* Every step keeps the invariant.
LEMMA StepInv ==
    ASSUME IInv, [Next]_vars
    PROVE  IInv'
  <1>1. CASE RunBenchmark \/ RunCheckpoint
    BY <1>1, CommandInv
  <1>2. ASSUME NEW n \in Nodes, NEW m \in Nodes, Post(n, m)
        PROVE  IInv'
    BY <1>2, PostInv
  <1>3. ASSUME NEW n \in Nodes, GuestStep(n) \/ HostStep(n)
        PROVE  IInv'
    BY <1>3, GuestStepInv, HostStepInv DEF GuestStep, HostStep
  <1>4. ASSUME NEW n \in Nodes, DeviceStep(n) \/ DeviceStop(n)
        PROVE  IInv'
    BY <1>4, DeviceStepInv, DeviceStopInv
  <1>5. CASE NetworkStep
    BY <1>5, NetworkStepInv
  <1>6. CASE UNCHANGED vars
    BY <1>6, StutterInv
  <1> QED
    BY <1>1, <1>2, <1>3, <1>4, <1>5, <1>6 DEF Next


----------------------------------------------------------------------------
(* The theorems *)

\* The invariant holds throughout.
LEMMA Invariance == Spec => []IInv
  <1>1. Init => IInv
    BY InitInv
  <1>2. IInv /\ [Next]_vars => IInv'
    BY StepInv
  <1> QED
    BY <1>1, <1>2, PTL DEF Spec

\* Every variable keeps its type, and a ring holds only messages its reader handles: HostPort,
\* the device's PollNetworkBatch, the host adapter's serviceDevice and the network process
\* never meet a message they would stop at.
THEOREM TypeCorrect == Spec => []TypeOK
  <1>1. IInv => TypeOK
    BY DEF IInv
  <1> QED
    BY <1>1, Invariance, PTL

\* Whatever the number of nodes and the order in which their guests arrive, none of the
\* checks that stop gem5, a device or the network at a fence fails.
THEOREM NoFailure == Spec => []NoFenceFailure
  <1>1. IInv => NoFenceFailure
    BY DEF IInv
  <1> QED
    BY <1>1, Invariance, PTL

\* What a party reads from a ring that comes from the network is of its own epoch until it
\* has read COMMIT.
LEMMA DownwardHead ==
    ASSUME NEW r \in Seq(Item), r # <<>>, NEW e \in Nat, Downward(r, e, 0)
    PROVE  Head(r).epoch = e
  <1>1. Head(r) = r[1] /\ 1 \in DOMAIN r /\ e + 0 = e
    OBVIOUS
  <1>2. CASE Head(r).type = "commit"
    <2>1. Head(r) = TheFence("commit", e)
      BY <1>1, <1>2 DEF Downward
    <2> QED
      BY <2>1, TheFenceFacts
  <1>3. CASE Head(r).type # "commit"
    <2>1. /\ Num(r, Of("commit")) = 0 => Head(r).epoch = e + 0
          /\ Num(r, Of("commit")) # 0 => Head(r).epoch = e
      BY <1>3, DownwardReading
    <2> QED
      BY <2>1, <1>1
  <1> QED
    BY <1>2, <1>3

\* Every message is read in the epoch it was sent in: on either side of a fence the adapter,
\* the device and the network have taken everything of the old epoch before they toggle, and
\* stop reading at COMMIT.
THEOREM Epochs == Spec => []EpochsAgree
  <1>1. ASSUME IInv
        PROVE  EpochsAgree
    <2>1. TypeOK /\ FenceInv
      BY <1>1 DEF IInv
    <2>2. ASSUME NEW n \in Nodes
          PROVE  /\ HostReads(n) => Head(toHost[n]).epoch = adapter[n].epoch
                 /\ Up(n) /\ toDevice[n] # <<>> => Head(toDevice[n]).epoch = device[n].epoch
                 /\ ReadsNetwork(n) => Head(fromNetwork[n]).epoch = device[n].epoch
                 /\ NetworkUp /\ toNetwork[n] # <<>> => Head(toNetwork[n]).epoch = network.epoch
      <3>1. Phase(n) /\ Rings(n)
        BY <2>1 DEF FenceInv
      <3>2. /\ toDevice[n] \in Seq(Item) /\ toHost[n] \in Seq(Item)
            /\ toNetwork[n] \in Seq(Item) /\ fromNetwork[n] \in Seq(Item)
        BY <2>1, RingFacts DEF TypeOK, RingType
      <3>3. adapter[n].epoch \in Nat /\ device[n].epoch \in Nat /\ network.epoch \in Nat
        BY <2>1, Local DEF TypeOK, ProcessType, Networks
      <3>4. /\ Passed(n) + Finishing(n) \in {0, 1} /\ Answered(n) + Committing(n) \in {0, 1}
            /\ Passed(n) \in Nat /\ Finishing(n) \in Nat /\ Answered(n) \in Nat /\ Committing(n) \in Nat
        BY <2>1, <3>1, OneFence
      <3>5. /\ network.epoch = device[n].epoch + Answered(n) + Committing(n)
            /\ device[n].epoch = adapter[n].epoch + Passed(n) + Finishing(n)
        BY <3>1 DEF Phase
      <3>6. ASSUME HostReads(n)
            PROVE  Head(toHost[n]).epoch = adapter[n].epoch
        <4>1. Finishing(n) = 0 /\ toHost[n] # <<>>
          BY <3>6 DEF HostReads, Finishing, One
        <4>2. Downward(toHost[n], adapter[n].epoch, 0)
          BY <3>1, <4>1 DEF Rings
        <4> QED
          BY <3>2, <3>3, <4>1, <4>2, DownwardHead
      <3>7. ASSUME toDevice[n] # <<>>
            PROVE  Head(toDevice[n]).epoch = device[n].epoch
        <4>1. Passed(n) + Finishing(n) = 0
          BY <3>1, <3>4, <3>7 DEF Rings
        <4>2. device[n].epoch = adapter[n].epoch
          BY <3>3, <3>4, <3>5, <4>1
        <4> QED
          BY <3>1, <3>2, <3>7, <4>2, UpwardReading DEF Rings
      <3>8. ASSUME ReadsNetwork(n)
            PROVE  Head(fromNetwork[n]).epoch = device[n].epoch
        <4>1. Committing(n) = 0 /\ fromNetwork[n] # <<>>
          BY <3>8 DEF ReadsNetwork, Committing, One
        <4>2. Downward(fromNetwork[n], device[n].epoch, 0)
          BY <3>1, <4>1 DEF Rings
        <4> QED
          BY <3>2, <3>3, <4>1, <4>2, DownwardHead
      <3>9. ASSUME toNetwork[n] # <<>>
            PROVE  Head(toNetwork[n]).epoch = network.epoch
        <4>1. Answered(n) + Committing(n) = 0
          BY <3>1, <3>4, <3>9 DEF Rings
        <4>2. network.epoch = device[n].epoch
          BY <3>3, <3>4, <3>5, <4>1
        <4> QED
          BY <3>1, <3>2, <3>9, <4>2, UpwardReading DEF Rings
      <3> QED
        BY <3>6, <3>7, <3>8, <3>9
    <2> QED
      BY <2>2 DEF EpochsAgree
  <1>2. IInv => EpochsAgree
    BY <1>1
  <1> QED
    BY <1>2, Invariance, PTL

\* When SaveDeviceState has accepted every device, the files it wrote hold all there is: no
\* operation is in a ring, in the network process or in a host's memory system.
THEOREM CheckpointComplete == Spec => []CheckpointHoldsAllWork
  <1>1. ASSUME IInv, \A n \in Nodes : device[n].state = "saved", NEW n \in Nodes
        PROVE  /\ device[n].op = None /\ network.tasks[n] = None /\ dma[n] = 0
               /\ \A ring \in {toDevice[n], toHost[n], toNetwork[n], fromNetwork[n]} :
                    \A i \in DOMAIN ring : ring[i].type = "sync"
    <2>1. TypeOK /\ FenceInv /\ WorkInv /\ GuestInv /\ StopInv
      BY <1>1 DEF IInv
    <2>2. \A m \in Nodes : device[m].op = None /\ loop[m] = "ended"
      BY <1>1, <2>1 DEF StopInv, Stopped, Quiescent
    <2>3. ~adapter[n].pending
      BY <2>1, <2>2 DEF GuestInv, Programs
    <2>4. Asked(n) = 0 /\ Forwarding(n) = 0 /\ Answered(n) = 0 /\ Passed(n) = 0
      BY <2>1, <2>3, NoFence DEF FenceInv
    <2>5. /\ network.tasks[n] = None /\ dma[n] = 0
          /\ Num(toHost[n], Of("dma")) = 0 /\ Num(toDevice[n], Of("reply")) = 0
          /\ \A i \in DOMAIN toNetwork[n] : toNetwork[n][i].type \notin {"request", "response"}
          /\ \A i \in DOMAIN fromNetwork[n] : fromNetwork[n][i].type \notin {"execute", "complete"}
      BY <2>1, <2>2, NoWork
    <2>6. /\ toDevice[n] \in Ring({"sync", "reply", "prepare"})
          /\ toHost[n] \in Ring({"sync", "dma", "commit"})
          /\ toNetwork[n] \in Ring({"sync", "request", "response", "prepare"})
          /\ fromNetwork[n] \in Ring({"sync", "execute", "complete", "commit"})
      BY <2>1 DEF TypeOK, RingType
    <2>7. ASSUME NEW types, NEW r \in Ring(types), NEW t, Num(r, Of(t)) = 0
          PROVE  \A i \in DOMAIN r : r[i].type # t
      <3>1. r \in Seq(Item)
        BY RingFacts
      <3>2. \A i \in DOMAIN r : r[i] \notin Of(t) /\ r[i] \in Item
        BY <2>7, <3>1, NumZero
      <3> QED
        BY <3>2, ItemFacts
    <2>8. \A i \in DOMAIN toDevice[n] : toDevice[n][i].type = "sync"
      <3>1. \A i \in DOMAIN toDevice[n] : toDevice[n][i].type \in {"sync", "reply", "prepare"}
        BY <2>6, RingFacts
      <3>2. \A i \in DOMAIN toDevice[n] : toDevice[n][i].type # "prepare"
        BY <2>4, <2>6, <2>7 DEF Asked
      <3>3. \A i \in DOMAIN toDevice[n] : toDevice[n][i].type # "reply"
        BY <2>5, <2>6, <2>7
      <3> QED
        BY <3>1, <3>2, <3>3
    <2>9. \A i \in DOMAIN toHost[n] : toHost[n][i].type = "sync"
      <3>1. \A i \in DOMAIN toHost[n] : toHost[n][i].type \in {"sync", "dma", "commit"}
        BY <2>6, RingFacts
      <3>2. \A i \in DOMAIN toHost[n] : toHost[n][i].type # "commit"
        BY <2>4, <2>6, <2>7 DEF Passed
      <3>3. \A i \in DOMAIN toHost[n] : toHost[n][i].type # "dma"
        BY <2>5, <2>6, <2>7
      <3> QED
        BY <3>1, <3>2, <3>3
    <2>10. \A i \in DOMAIN toNetwork[n] : toNetwork[n][i].type = "sync"
      <3>1. \A i \in DOMAIN toNetwork[n] : toNetwork[n][i].type \in {"sync", "request", "response", "prepare"}
        BY <2>6, RingFacts
      <3>2. \A i \in DOMAIN toNetwork[n] : toNetwork[n][i].type # "prepare"
        BY <2>4, <2>6, <2>7 DEF Forwarding
      <3> QED
        BY <3>1, <3>2, <2>5
    <2>11. \A i \in DOMAIN fromNetwork[n] : fromNetwork[n][i].type = "sync"
      <3>1. \A i \in DOMAIN fromNetwork[n] : fromNetwork[n][i].type \in {"sync", "execute", "complete", "commit"}
        BY <2>6, RingFacts
      <3>2. \A i \in DOMAIN fromNetwork[n] : fromNetwork[n][i].type # "commit"
        BY <2>4, <2>6, <2>7 DEF Answered
      <3> QED
        BY <3>1, <3>2, <2>5
    <2> QED
      BY <2>2, <2>5, <2>8, <2>9, <2>10, <2>11
  <1>2. IInv => CheckpointHoldsAllWork
    BY <1>1 DEF CheckpointHoldsAllWork
  <1> QED
    BY <1>2, Invariance, PTL

\* The sessions whose measured loop runs on O3: the loop of arm64_fs.py switches at the
\* fences (--auto-o3-lifecycle) or the guest's latency test does, and not both.
Measurable == session.auto <=> session.benchmark # "latency"

\* In such a session a guest in its measured loop is synchronised and on the O3 CPU, for any
\* number of nodes and of benchmarks one after the other.
THEOREM Measured == Spec => [](Measurable => MeasuredOnO3)
  <1>1. ASSUME IInv, Measurable, NEW n \in Nodes, At(n, "loop")
        PROVE  adapter[n].active /\ cpu[n] = "o3"
    <2>1. /\ TypeOK /\ Programs(n) /\ program[n] # <<>> /\ Head(program[n]) = "loop"
          /\ session.auto \in BOOLEAN /\ adapter[n].active \in BOOLEAN
      BY <1>1, AtStep
    <2>2. \/ session.benchmark = "bandwidth" /\ Len(program[n]) = 2 /\ Inside(session.benchmark) = 2
          \/ session.benchmark = "latency" /\ Len(program[n]) = 3 /\ Inside(session.benchmark) = 4
      BY <2>1, Where
    <2>3. adapter[n].active
      <3>1. adapter[n].active <=> Len(program[n]) <= Inside(session.benchmark)
        BY <2>1, Where
      <3>2. CASE Len(program[n]) = 2 /\ Inside(session.benchmark) = 2
        BY <3>1, <3>2
      <3>3. CASE Len(program[n]) = 3 /\ Inside(session.benchmark) = 4
        BY <3>1, <3>3
      <3> QED
        BY <2>2, <3>2, <3>3
    <2>4. InO3(n)
      BY <1>1, <2>1, <2>2, <2>3 DEF InO3, Measurable
    <2> QED
      BY <2>1, <2>3, <2>4 DEF Programs
  <1>2. IInv => (Measurable => MeasuredOnO3)
    BY <1>1 DEF MeasuredOnO3
  <1> QED
    BY <1>2, Invariance, PTL
=============================================================================
