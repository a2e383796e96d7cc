------------------------- MODULE RmaTransfer_proofs -------------------------
(***************************************************************************)
(* Proofs about one-sided transfers, for any number of requests, any       *)
(* lengths and any way the transport cuts, repeats and reorders segments.  *)
(***************************************************************************)
EXTENDS RmaTransfer, FiniteSetTheorems, WellFoundedInduction, TLAPS

(* Intervals of natural numbers *)

\* A nonempty set of natural numbers has a smallest element: the range that
\* lower_bound returns exists.
LEMMA SmallestOf ==
    ASSUME NEW T \in SUBSET Nat, T # {}
    PROVE  \E x \in T : \A y \in T : x <= y
  <1>1. PICK x \in T : \A y \in T : ~ (<<y, x>> \in OpToRel(<, Nat))
    BY NatLessThanWellFounded, WFMin, Zenon
  <1>2. \A y \in T : ~ (y < x)
    BY <1>1 DEF OpToRel
  <1> QED BY <1>2

\* A set of n numbers below n is all of them.
LEMMA BelowN ==
    ASSUME NEW n \in Nat
    PROVE  IsFiniteSet(0 .. (n - 1)) /\ Cardinality(0 .. (n - 1)) = n
  <1>1. 0 \in Int /\ n - 1 \in Int
    OBVIOUS
  <1>2. Cardinality(0 .. (n - 1)) = IF 0 > n - 1 THEN 0 ELSE n - 1 - 0 + 1
    BY <1>1, FS_Interval, Zenon
  <1>3. IsFiniteSet(0 .. (n - 1))
    BY <1>1, FS_Interval, Zenon
  <1>4. (IF 0 > n - 1 THEN 0 ELSE n - 1 - 0 + 1) = n
    OBVIOUS
  <1> QED BY <1>2, <1>3, <1>4

\* Reserved bytes as many as the request has are all of its bytes.
LEMMA CountsAll ==
    ASSUME NEW n \in Nat, NEW S \in SUBSET (0 .. (n - 1)), Cardinality(S) = n
    PROVE  S = 0 .. (n - 1)
  <1>1. IsFiniteSet(0 .. (n - 1)) /\ Cardinality(0 .. (n - 1)) = n
    BY BelowN
  <1> QED BY <1>1, FS_Subset, Zenon

\* No more bytes are reserved than the request has.
LEMMA CountBound ==
    ASSUME NEW n \in Nat, NEW S \in SUBSET (0 .. (n - 1))
    PROVE  IsFiniteSet(S) /\ Cardinality(S) \in Nat /\ Cardinality(S) <= n
  <1>1. IsFiniteSet(0 .. (n - 1)) /\ Cardinality(0 .. (n - 1)) = n
    BY BelowN
  <1> QED BY <1>1, FS_Subset, FS_CardinalityType

\* An interval outside a set adds its length to the count.
LEMMA CountAdds ==
    ASSUME NEW n \in Nat, NEW S \in SUBSET (0 .. (n - 1)),
           NEW b \in Nat, NEW e \in Nat, b < e, e <= n,
           \A i \in S : i < b \/ e <= i
    PROVE  Cardinality(S \cup (b .. (e - 1))) = Cardinality(S) + (e - b)
  <1> DEFINE I == b .. (e - 1)
  <1>1. IsFiniteSet(I) /\ Cardinality(I) = e - b
    BY FS_Interval
  <1>2. IsFiniteSet(S) /\ Cardinality(S) \in Nat
    BY CountBound
  <1>3. S \cap I = {}
    OBVIOUS
  <1>4. Cardinality(S \cap I) = 0
    BY <1>3, FS_EmptySet
  <1>5. Cardinality(S \cup I) = Cardinality(S) + Cardinality(I) - Cardinality(S \cap I)
    BY <1>1, <1>2, FS_Union, Zenon
  <1> QED BY <1>1, <1>2, <1>4, <1>5

(* The neighbour check *)

WellFormed(ranges, n) ==
    \A x \in ranges : x.begin < x.end /\ x.end <= n
Disjoint(ranges) ==
    \A x, y \in ranges : x = y \/ x.end <= y.begin \/ y.end <= x.begin

\* Among disjoint ranges, comparing a new range with its two neighbours is
\* enough to know that it overlaps none of them.
LEMMA NeighboursSuffice ==
    ASSUME NEW R \in SUBSET ByteRange, NEW n \in Nat, WellFormed(R, n), Disjoint(R),
           NEW b \in Nat, NEW e \in Nat, b < e, ~Overlaps(R, b, e)
    PROVE  \A x \in R : x.end <= b \/ e <= x.begin
  <1>0. \A z \in R : z.begin \in Nat /\ z.end \in Nat
    BY DEF ByteRange
  <1> SUFFICES ASSUME NEW x \in R, x.end > b, x.begin < e
               PROVE  FALSE
    BY <1>0
  <1>1. CASE x.begin >= b
    <2> DEFINE T == {y.begin : y \in {z \in R : z.begin >= b}}
    <2>1. T \in SUBSET Nat /\ x.begin \in T
      BY <1>0, <1>1
    <2>2. PICK k \in T : \A l \in T : k <= l
      BY <2>1, SmallestOf
    <2>3. PICK y \in R : y.begin >= b /\ y.begin = k
      BY <2>2
    <2>4. y \in Following(R, b)
      BY <2>2, <2>3 DEF Following
    <2>5. k <= x.begin
      BY <2>1, <2>2
    <2>6. y.begin < e
      BY <1>0, <2>3, <2>5
    <2> QED BY <2>4, <2>6 DEF Overlaps
  <1>2. CASE x.begin < b
    <2> DEFINE T == {b - y.begin : y \in {z \in R : z.begin < b}}
    <2>1. T \in SUBSET Nat /\ b - x.begin \in T
      BY <1>0, <1>2
    <2>2. PICK k \in T : \A l \in T : k <= l
      BY <2>1, SmallestOf
    <2>3. PICK y \in R : y.begin < b /\ b - y.begin = k
      BY <2>2
    <2>4. \A z \in R : z.begin < b => z.begin <= y.begin
      BY <1>0, <2>2, <2>3, SMTT(30)
    <2>5. y \in Preceding(R, b)
      BY <2>3, <2>4 DEF Preceding
    <2>6. y.end <= b
      BY <1>0, <2>5 DEF Overlaps
    <2>7. x.begin <= y.begin /\ x # y
      BY <1>0, <1>2, <2>4, <2>6
    <2> QED BY <1>0, <2>3, <2>6, <2>7 DEF Disjoint, WellFormed
  <1> QED BY <1>0, <1>1, <1>2

----------------------------------------------------------------------------
(* The inductive invariant *)

\* Bytes of a request whose range is reserved, and those among them that no
\* response DMA is still writing.
Covered(r) ==
    {i \in 0 .. (rma[r].byte_count - 1) :
        \E x \in rma[r].ranges : x.begin <= i /\ i < x.end}
Flying(r, i) ==
    \E d \in localDma : d.req = r /\ d.offset <= i /\ i < d.offset + d.length
Settled(r) == {i \in Covered(r) : ~Flying(r, i)}
DmasOf(r) == {d \in localDma : d.req = r}
DmasAt(j) == {d \in localDma : JettyOf[d.req] = j}

\* The life of a request: sending, on the wire, completed at most once.
LifeInv ==
    \A r \in Requests :
        /\ cqe[r] \in {<<>>, << 0 >>, << 1 >>, << 5 >>}
        /\ r \in pending => cqe[r] = <<>>
        /\ r \in outbox => r \in pending /\ r \notin wire
        /\ r \in wire => Issued(r)

RangeInv ==
    \A r \in Requests : /\ WellFormed(rma[r].ranges, rma[r].byte_count)
                       /\ Disjoint(rma[r].ranges)

\* Every DMA in flight belongs to a pending READ, has its range reserved and
\* shares it with no other, and is counted.
DmaInv ==
    /\ IsFiniteSet(localDma)
    /\ \A d \in localDma :
         /\ d.req \in pending /\ d.req \in wire /\ rma[d.req].op = "READ"
         /\ d.first = d.offset
         /\ [begin |-> d.offset, end |-> d.offset + d.length] \in rma[d.req].ranges
    /\ \A d, e \in localDma : d.req = e.req =>
         d = e \/ d.offset + d.length <= e.offset \/ e.offset + e.length <= d.offset
    /\ \A r \in Requests : rma[r].response_dma = Cardinality(DmasOf(r))
    /\ \A j \in Jettys : read_response_dma[j] = Cardinality(DmasAt(j))

\* The counters are the numbers of bytes they stand for.
CountInv ==
    \A r \in Requests :
        /\ rma[r].op = "WRITE" => rma[r].completed_bytes = Cardinality(Covered(r))
        /\ rma[r].op = "WRITE" => rma[r].accepted_bytes = 0
        /\ rma[r].op = "READ" =>
             /\ rma[r].accepted_bytes = Cardinality(Covered(r))
             /\ rma[r].completed_bytes <= Cardinality(Settled(r))
             /\ ~rma[r].failed => rma[r].completed_bytes = Cardinality(Settled(r))

\* What is counted is where it belongs.
PlaceInv ==
    \A r \in Requests :
        /\ rma[r].op = "WRITE" => \A i \in Covered(r) : target[r][i] = i
        /\ rma[r].op = "READ" /\ ~rma[r].failed => \A i \in Settled(r) : local[r][i] = i

\* A segment at the target, and a reply on the wire, are truthful.
ServiceInv ==
    \A v \in services :
        /\ v.req \in wire
        /\ v.seg.offset + v.seg.length <= rma[v.req].byte_count
        /\ v.stage = "ok" /\ rma[v.req].op = "WRITE" =>
             \A i \in Bytes(v.seg) : target[v.req][i] = i
ReplyInv ==
    \A m \in replies :
        /\ m.req \in wire
        /\ m.first = m.offset /\ m.offset + m.length <= rma[m.req].byte_count
        /\ m.kind = "WriteAck" => rma[m.req].op = "WRITE"
        /\ m.kind = "WriteAck" => \A i \in Bytes(m) : target[m.req][i] = i
        /\ m.kind = "ReadResponse" => rma[m.req].op = "READ"

IInv == /\ TypeOK /\ LifeInv /\ RangeInv /\ DmaInv /\ CountInv
        /\ PlaceInv /\ ServiceInv /\ ReplyInv /\ SuccessMeansTransferred

\* Before the first request nothing is reserved, in flight or reported.
LEMMA InitInv == Init => IInv
  <1> SUFFICES ASSUME Init PROVE IInv
    OBVIOUS
  <1> USE DEF Init, NewRequest
  <1>1. TypeOK
    <2>1. rma \in [Requests -> PendingRma]
      BY DEF PendingRma, Ops
    <2>2. target \in [Requests -> Memory] /\ local \in [Requests -> Memory]
      BY DEF Memory
    <2>3. cqe \in [Requests -> Seq({0, 1, 5})]
      OBVIOUS
    <2> QED BY <2>1, <2>2, <2>3 DEF TypeOK
  <1>2. LifeInv
    BY DEF LifeInv
  <1>3. RangeInv
    BY DEF RangeInv, WellFormed, Disjoint
  <1>4. DmaInv
    <2>1. \A r \in Requests : DmasOf(r) = {}
      BY DEF DmasOf
    <2>2. \A j \in Jettys : DmasAt(j) = {}
      BY DEF DmasAt
    <2> QED BY <2>1, <2>2, FS_EmptySet DEF DmaInv
  <1>5. \A r \in Requests : Covered(r) = {} /\ Settled(r) = {}
    BY DEF Covered, Settled
  <1>6. CountInv /\ PlaceInv
    <2>1. Cardinality({}) = 0
      BY FS_EmptySet
    <2>2. \A r \in Requests : /\ rma[r].op = "READ"
                             /\ rma[r].completed_bytes = 0 /\ rma[r].accepted_bytes = 0
      OBVIOUS
    <2>3. \A r \in Requests : Cardinality(Covered(r)) = 0 /\ Cardinality(Settled(r)) = 0
      BY <1>5, <2>1
    <2> HIDE DEF Init
    <2>4. CountInv
      BY <2>2, <2>3 DEF CountInv
    <2> QED BY <1>5, <2>2, <2>4 DEF PlaceInv
  <1>7. ServiceInv /\ ReplyInv /\ SuccessMeansTransferred
    BY DEF ServiceInv, ReplyInv, SuccessMeansTransferred
  <1> QED BY <1>1, <1>2, <1>3, <1>4, <1>6, <1>7 DEF IInv

\* Steps that touch neither the requests nor the response DMAs.
LEMMA ReservationsUnchanged ==
    ASSUME RangeInv, CountInv, UNCHANGED <<rma, localDma>>
    PROVE  RangeInv' /\ CountInv'
  <1>1. RangeInv'
    BY DEF RangeInv
  <1>2. \A r \in Requests : Covered(r)' = Covered(r) /\ Settled(r)' = Settled(r)
    BY DEF Covered, Settled, Flying
  <1> QED BY <1>1, <1>2 DEF CountInv

\* The callback of an accepted send moves the request to the wire only.
LEMMA SendDoneKeeps ==
    ASSUME IInv, NEW r \in Requests, SendDone(r)
    PROVE  IInv'
  <1> USE DEF SendDone
  <1>1. TypeOK'
    BY DEF IInv, TypeOK
  <1>2. LifeInv'
    BY DEF IInv, LifeInv, Issued
  <1>3. RangeInv' /\ CountInv'
    BY ReservationsUnchanged DEF IInv
  <1>4. DmaInv'
    BY DEF IInv, DmaInv, DmasOf, DmasAt
  <1>5. PlaceInv'
    BY DEF IInv, PlaceInv, Covered, Settled, Flying
  <1>6. ServiceInv' /\ ReplyInv'
    BY DEF IInv, ServiceInv, ReplyInv
  <1>7. SuccessMeansTransferred'
    BY DEF IInv, SuccessMeansTransferred
  <1> QED BY <1>1, <1>2, <1>3, <1>4, <1>5, <1>6, <1>7 DEF IInv

\* A refused send completes a request of which nothing has travelled.
LEMMA SendRefusedKeeps ==
    ASSUME IInv, NEW r \in Requests, SendRefused(r)
    PROVE  IInv'
  <1> USE DEF SendRefused, Finish
  <1>0. r \in pending /\ cqe[r] = <<>> /\ cqe \in [Requests -> Seq({0, 1, 5})]
    BY DEF IInv, LifeInv, TypeOK
  <1>1. cqe' = [cqe EXCEPT ![r] = << 1 >>]
    BY <1>0
  <1>2. cqe' \in [Requests -> Seq({0, 1, 5})] /\ << 1 >> # <<>> /\ << 1 >> # << 0 >>
    BY <1>0, <1>1
  <1>3. TypeOK'
    BY <1>2 DEF IInv, TypeOK
  <1>4. LifeInv'
    BY <1>0, <1>1, <1>2 DEF IInv, LifeInv, Issued
  <1>5. RangeInv' /\ CountInv'
    BY ReservationsUnchanged DEF IInv
  <1>6. \A d \in localDma : d.req # r
    BY DEF IInv, DmaInv, LifeInv
  <1>7. DmaInv'
    BY <1>6 DEF IInv, DmaInv, DmasOf, DmasAt
  <1>8. PlaceInv'
    BY DEF IInv, PlaceInv, Covered, Settled, Flying
  <1>9. ServiceInv' /\ ReplyInv'
    BY DEF IInv, ServiceInv, ReplyInv
  <1>10. SuccessMeansTransferred'
    BY <1>0, <1>1, <1>2 DEF IInv, SuccessMeansTransferred
  <1> QED BY <1>3, <1>4, <1>5, <1>7, <1>8, <1>9, <1>10 DEF IInv

\* The target starts serving a segment that lies within its request.
LEMMA ReceiveRequestKeeps ==
    ASSUME IInv, NEW r \in Requests, NEW s \in Segments, NEW c \in Copies,
           ReceiveRequest(r, s, c)
    PROVE  IInv'
  <1> USE DEF ReceiveRequest
  <1>1. TypeOK'
    BY DEF IInv, TypeOK, Service
  <1>2. LifeInv'
    BY DEF IInv, LifeInv, Issued
  <1>3. RangeInv' /\ CountInv'
    BY ReservationsUnchanged DEF IInv
  <1>4. DmaInv'
    BY DEF IInv, DmaInv, DmasOf, DmasAt
  <1>5. PlaceInv'
    BY DEF IInv, PlaceInv, Covered, Settled, Flying
  <1>6. ServiceInv' /\ ReplyInv'
    BY DEF IInv, ServiceInv, ReplyInv
  <1>7. SuccessMeansTransferred'
    BY DEF IInv, SuccessMeansTransferred
  <1> QED BY <1>1, <1>2, <1>3, <1>4, <1>5, <1>6, <1>7 DEF IInv

\* A reply is only sent for a segment whose DMA has ended, so it is truthful.
LEMMA ReplySentKeeps ==
    ASSUME IInv, NEW v \in services, ReplySent(v)
    PROVE  IInv'
  <1> USE DEF ReplySent
  <1>0. /\ v \in Service /\ v.seg \in Segment
        /\ rma[v.req] \in PendingRma
    BY ConstantsAssumption DEF IInv, TypeOK, Service
  <1>1. ReplyTo(v) \in Reply
    BY <1>0 DEF ReplyTo, Reply, Service, Segment
  <1>2. TypeOK'
    BY <1>1 DEF IInv, TypeOK
  <1>3. LifeInv'
    BY DEF IInv, LifeInv, Issued
  <1>4. RangeInv' /\ CountInv'
    BY ReservationsUnchanged DEF IInv
  <1>5. DmaInv'
    BY DEF IInv, DmaInv, DmasOf, DmasAt
  <1>6. PlaceInv'
    BY DEF IInv, PlaceInv, Covered, Settled, Flying
  <1>7. ServiceInv'
    BY DEF IInv, ServiceInv
  <1>8. ReplyInv'
    <2>1. Bytes(ReplyTo(v)) = Bytes(v.seg)
      BY DEF Bytes, ReplyTo
    <2> QED BY <1>0, <2>1 DEF IInv, ServiceInv, ReplyInv, ReplyTo, Service, PendingRma, Ops
  <1>9. SuccessMeansTransferred'
    BY DEF IInv, SuccessMeansTransferred
  <1> QED BY <1>2, <1>3, <1>4, <1>5, <1>6, <1>7, <1>8, <1>9 DEF IInv

\* A new request starts with no ranges, counters or DMAs: identifiers are not
\* reused, so nothing of an earlier request can be taken for its own.
LEMMA IssueKeeps ==
    ASSUME IInv, NEW r \in Requests, NEW op \in Ops, NEW n \in ByteCounts, Issue(r, op, n)
    PROVE  IInv'
  <1> USE DEF Issue
  <1>0. /\ cqe[r] = <<>> /\ r \notin wire /\ r \notin pending
        /\ n \in Nat /\ rma \in [Requests -> PendingRma]
    BY ConstantsAssumption DEF IInv, LifeInv, Issued, TypeOK
  <1>1. /\ rma'[r] = NewRequest(op, n)
        /\ \A q \in Requests : q # r => rma'[q] = rma[q]
    BY <1>0
  <1>2. /\ \A d \in localDma : d.req # r
        /\ \A v \in services : v.req # r
        /\ \A m \in replies : m.req # r
    BY <1>0 DEF IInv, DmaInv, ServiceInv, ReplyInv
  <1>3. NewRequest(op, n) \in PendingRma
    BY <1>0 DEF NewRequest, PendingRma
  <1>4. TypeOK'
    <2>1. rma' \in [Requests -> PendingRma]
      BY <1>0, <1>3
    <2>2. \A q \in Requests : /\ rma'[q].completed_bytes <= rma'[q].byte_count
                             /\ rma'[q].accepted_bytes <= rma'[q].byte_count
                             /\ rma'[q].byte_count \in ByteCounts \cup {0}
      BY <1>0, <1>1 DEF IInv, TypeOK, NewRequest
    <2> QED BY <2>1, <2>2 DEF IInv, TypeOK
  <1>5. LifeInv'
    BY <1>0 DEF IInv, LifeInv, Issued
  <1>6. RangeInv'
    <2>1. WellFormed({}, n) /\ Disjoint({})
      BY DEF WellFormed, Disjoint
    <2> QED BY <1>1, <2>1 DEF IInv, RangeInv, NewRequest
  <1>7. DmaInv'
    <2>1. /\ \A q \in Requests : DmasOf(q)' = DmasOf(q)
          /\ \A j \in Jettys : DmasAt(j)' = DmasAt(j)
      BY DEF DmasOf, DmasAt
    <2>2. DmasOf(r) = {}
      BY <1>2 DEF DmasOf
    <2>3. \A q \in Requests : rma'[q].response_dma = Cardinality(DmasOf(q)')
      <3>1. rma'[r].response_dma = 0 /\ Cardinality({}) = 0
        BY <1>1, FS_EmptySet DEF NewRequest
      <3>2. \A q \in Requests : rma[q].response_dma = Cardinality(DmasOf(q))
        BY DEF IInv, DmaInv
      <3> HIDE DEF Issue
      <3>3. \A q \in Requests : q # r => rma'[q].response_dma = Cardinality(DmasOf(q))
        BY <1>1, <3>2
      <3>4. rma'[r].response_dma = Cardinality(DmasOf(r))
        BY <2>2, <3>1
      <3> QED BY <2>1, <3>3, <3>4
    <2>4. \A d \in localDma : d.req \in Requests
      BY DEF IInv, TypeOK, LocalDma
    <2> QED BY <1>1, <1>2, <2>1, <2>3, <2>4 DEF IInv, DmaInv
  <1>8. /\ \A q \in Requests : q # r => Covered(q)' = Covered(q) /\ Settled(q)' = Settled(q)
        /\ Covered(r)' = {} /\ Settled(r)' = {}
    BY <1>1 DEF Covered, Settled, Flying, NewRequest
  <1>9. CountInv'
    BY <1>1, <1>8, FS_EmptySet DEF IInv, CountInv, NewRequest
  <1>10. PlaceInv'
    BY <1>1, <1>8 DEF IInv, PlaceInv
  <1>11. ServiceInv' /\ ReplyInv'
    <2>1. /\ \A v \in services : v.req \in Requests
          /\ \A m \in replies : m.req \in Requests
      BY DEF IInv, TypeOK, Service, Reply
    <2> QED BY <1>1, <1>2, <2>1 DEF IInv, ServiceInv, ReplyInv
  <1>12. SuccessMeansTransferred'
    <2>1. cqe' = cqe /\ target' = target /\ local' = local
      OBVIOUS
    <2> HIDE DEF Issue
    <2>2. SuccessMeansTransferred /\ cqe[r] # << 0 >>
      BY <1>0 DEF IInv
    <2> QED BY <1>1, <2>1, <2>2 DEF SuccessMeansTransferred
  <1> QED BY <1>4, <1>5, <1>6, <1>7, <1>9, <1>10, <1>11, <1>12 DEF IInv

\* The target's DMA stores the bytes of its own segment and no others.
LEMMA TargetDoneKeeps ==
    ASSUME IInv, NEW v \in services, NEW ok \in BOOLEAN, TargetDone(v, ok)
    PROVE  IInv'
  <1> USE DEF TargetDone
  <1>0. /\ v \in Service /\ v.req \in Requests /\ v.seg \in Segments
        /\ rma[v.req] \in PendingRma /\ target \in [Requests -> Memory]
    BY DEF IInv, TypeOK, Service
  <1> DEFINE w == [v EXCEPT !.stage = IF ok THEN "ok" ELSE "failed"]
  <1>1. w \in Service /\ w.req = v.req /\ w.seg = v.seg
    BY <1>0 DEF Service
  \* Target memory only ever gains bytes at their own places.
  <1>2. /\ target' \in [Requests -> Memory]
        /\ \A q \in Requests, i \in Offsets : target[q][i] = i => target'[q][i] = i
    <2>1. CASE rma[v.req].op = "READ"
      BY <1>0, <2>1
    <2>2. CASE rma[v.req].op # "READ"
      <3>1. PICK stored \in SUBSET Bytes(v.seg) :
                target' = [target EXCEPT ![v.req] = Store(@, stored, 0)]
        BY <2>2
      <3>2. target[v.req] \in Memory
        BY <1>0
      <3>3. Store(target[v.req], stored, 0) =
              [i \in Offsets |-> IF i \in stored THEN i + 0 ELSE target[v.req][i]]
        BY <3>2 DEF Store, Memory
      <3>4. \A i \in Offsets : i \in Nat
        BY ConstantsAssumption DEF Offsets
      <3>5. Store(target[v.req], stored, 0) \in Memory
        BY <3>2, <3>3, <3>4 DEF Memory
      <3> QED BY <1>0, <3>1, <3>3, <3>4, <3>5
    <2> QED BY <2>1, <2>2
  <1>3. ok /\ rma[v.req].op = "WRITE" => \A i \in Bytes(v.seg) : target'[v.req][i] = i
    <2> SUFFICES ASSUME ok, rma[v.req].op = "WRITE", NEW i \in Bytes(v.seg)
                 PROVE  target'[v.req][i] = i
      OBVIOUS
    <2>1. target' = [target EXCEPT ![v.req] = Store(@, Bytes(v.seg), 0)]
      OBVIOUS
    <2>2. i \in Offsets /\ i \in Nat
      <3>1. /\ v.seg \in Segment /\ rma[v.req].byte_count \in Nat
            /\ v.seg.offset + v.seg.length <= rma[v.req].byte_count
            /\ rma[v.req].byte_count \in ByteCounts \cup {0}
        BY <1>0, ConstantsAssumption DEF IInv, ServiceInv, TypeOK, PendingRma
      <3>2. i \in 0 .. (rma[v.req].byte_count - 1)
        BY <3>1, SMTT(30) DEF Bytes, Segment
      <3> QED BY <3>1, <3>2, ConstantsAssumption DEF Offsets
    <2>3. target[v.req] \in Memory /\ DOMAIN target[v.req] = Offsets
      BY <1>0 DEF Memory
    <2> QED BY <1>0, <2>1, <2>2, <2>3 DEF Store
  <1>4. TypeOK'
    BY <1>1, <1>2 DEF IInv, TypeOK
  <1>5. LifeInv'
    BY DEF IInv, LifeInv, Issued
  <1>6. RangeInv' /\ CountInv'
    BY ReservationsUnchanged DEF IInv
  <1>7. DmaInv'
    BY DEF IInv, DmaInv, DmasOf, DmasAt
  \* Every offset of a request is an offset of memory.
  <1>8. \A q \in Requests : 0 .. (rma[q].byte_count - 1) \subseteq Offsets
    BY ConstantsAssumption DEF IInv, TypeOK, Offsets
  <1>9. PlaceInv'
    <2>1. \A q \in Requests : /\ Covered(q)' = Covered(q) /\ Settled(q)' = Settled(q)
                             /\ Covered(q) \subseteq Offsets
      BY <1>8 DEF Covered, Settled, Flying
    <2> QED BY <1>2, <2>1 DEF IInv, PlaceInv
  <1>10. ServiceInv'
    <2>1. \A u \in services : u.req \in Requests /\ Bytes(u.seg) \subseteq Offsets
      <3> SUFFICES ASSUME NEW u \in services PROVE u.req \in Requests /\ Bytes(u.seg) \subseteq Offsets
        OBVIOUS
      <3>1. u.req \in Requests /\ u.seg \in Segment /\ rma[u.req].byte_count \in Nat
        BY ConstantsAssumption DEF IInv, TypeOK, Service, PendingRma
      <3>2. Bytes(u.seg) \subseteq 0 .. (rma[u.req].byte_count - 1)
        BY <3>1, SMTT(30) DEF IInv, ServiceInv, Bytes, Segment
      <3> QED BY <1>8, <3>1, <3>2
    <2>2. \A u \in services : u.stage = "ok" /\ rma[u.req].op = "WRITE" =>
                \A i \in Bytes(u.seg) : target'[u.req][i] = i
      BY <1>2, <2>1 DEF IInv, ServiceInv
    <2>3. w.stage = "ok" => ok
      BY <1>0 DEF Service
    <2>4. rma' = rma /\ wire' = wire /\ services' \subseteq services \cup {w}
      OBVIOUS
    <2>5. /\ w.req \in wire
          /\ w.seg.offset + w.seg.length <= rma[w.req].byte_count
          /\ w.stage = "ok" /\ rma[w.req].op = "WRITE" =>
               \A i \in Bytes(w.seg) : target'[w.req][i] = i
      <3> HIDE DEF w, TargetDone
      <3> QED BY <1>1, <1>3, <2>3 DEF IInv, ServiceInv
    <2>6. \A u \in services : /\ u.req \in wire
                             /\ u.seg.offset + u.seg.length <= rma[u.req].byte_count
      BY DEF IInv, ServiceInv
    <2> HIDE DEF w, TargetDone
    <2> QED BY <2>2, <2>4, <2>5, <2>6 DEF ServiceInv
  <1>11. ReplyInv'
    <2>1. \A m \in replies : m.req \in Requests /\ Bytes(m) \subseteq Offsets
      <3> SUFFICES ASSUME NEW m \in replies PROVE m.req \in Requests /\ Bytes(m) \subseteq Offsets
        OBVIOUS
      <3>1. m \in Reply /\ m.req \in Requests /\ rma[m.req].byte_count \in Nat
        BY DEF IInv, TypeOK, Reply, PendingRma
      <3>2. Bytes(m) \subseteq 0 .. (rma[m.req].byte_count - 1)
        BY <3>1 DEF IInv, ReplyInv, Bytes, Reply
      <3> QED BY <1>8, <3>1, <3>2
    <2> QED BY <1>2, <2>1 DEF IInv, ReplyInv
  <1>12. SuccessMeansTransferred'
    BY <1>2, <1>8 DEF IInv, SuccessMeansTransferred
  <1> QED BY <1>4, <1>5, <1>6, <1>7, <1>9, <1>10, <1>11, <1>12 DEF IInv

(* Reserving a range *)

\* A fresh segment overlaps no reserved range: the ranges stay disjoint and the
\* request covers exactly its bytes more.
LEMMA ReserveRange ==
    ASSUME IInv, NEW m \in replies, m.req \in Requests, NEW k \in Nat,
           Fresh(rma[m.req], m, k),
           rma'[m.req].byte_count = rma[m.req].byte_count,
           rma'[m.req].ranges = rma[m.req].ranges \cup
               {[begin |-> m.offset, end |-> m.offset + m.length]}
    PROVE  /\ m.offset \in Nat /\ m.length \in Nat /\ m.length > 0
           /\ m.offset + m.length <= rma[m.req].byte_count
           /\ WellFormed(rma'[m.req].ranges, rma[m.req].byte_count)
           /\ Disjoint(rma'[m.req].ranges)
           /\ \A x \in rma[m.req].ranges : x.end <= m.offset \/ m.offset + m.length <= x.begin
           /\ Covered(m.req)' = Covered(m.req) \cup Bytes(m)
           /\ \A i \in Covered(m.req) : i < m.offset \/ m.offset + m.length <= i
           /\ Cardinality(Covered(m.req)') = Cardinality(Covered(m.req)) + m.length
  <1> DEFINE R == rma[m.req].ranges
             n == rma[m.req].byte_count
             b == m.offset
             e == m.offset + m.length
             new == [begin |-> b, end |-> e]
  <1>1. /\ m \in Reply /\ rma[m.req] \in PendingRma
    BY DEF IInv, TypeOK
  <1>2. /\ b \in Nat /\ m.length \in Nat /\ m.length > 0 /\ e \in Nat /\ b < e
        /\ n \in Nat /\ R \in SUBSET ByteRange
    BY <1>1 DEF Reply, PendingRma
  <1>3. e <= n /\ ~Overlaps(R, b, e)
    BY <1>2 DEF Fresh
  <1>4. WellFormed(R, n) /\ Disjoint(R)
    BY DEF IInv, RangeInv
  <1> HIDE DEF R, n, b, e
  <1>5. \A x \in R : x.end <= b \/ e <= x.begin
    BY <1>2, <1>3, <1>4, NeighboursSuffice
  <1>6. \A x \in R : x.begin \in Nat /\ x.end \in Nat
    BY <1>2 DEF ByteRange
  <1>7. new.begin = b /\ new.end = e
    OBVIOUS
  <1> HIDE DEF new
  <1>8. WellFormed(R \cup {new}, n)
    BY <1>2, <1>3, <1>4, <1>7 DEF WellFormed
  <1>9. Disjoint(R \cup {new})
    BY <1>4, <1>5, <1>7 DEF Disjoint
  <1>10. rma'[m.req].ranges = R \cup {new} /\ rma'[m.req].byte_count = n
    BY DEF R, n, b, e, new
  <1>11. Covered(m.req) = {i \in 0 .. (n - 1) : \E x \in R : x.begin <= i /\ i < x.end}
    BY DEF Covered, R, n
  <1>12. Covered(m.req)' = {i \in 0 .. (n - 1) : \E x \in R \cup {new} : x.begin <= i /\ i < x.end}
    BY <1>10 DEF Covered
  <1>13. Covered(m.req)' = Covered(m.req) \cup (b .. (e - 1))
    BY <1>2, <1>3, <1>7, <1>11, <1>12
  <1>14. \A i \in Covered(m.req) : i < b \/ e <= i
    BY <1>2, <1>5, <1>6, <1>11
  <1>15. Cardinality(Covered(m.req)') = Cardinality(Covered(m.req)) + (e - b)
    <2>1. Covered(m.req) \in SUBSET (0 .. (n - 1))
      BY <1>11
    <2>2. Cardinality(Covered(m.req) \cup (b .. (e - 1))) = Cardinality(Covered(m.req)) + (e - b)
      <3> DEFINE C == Covered(m.req)
      <3>1. C \in SUBSET (0 .. (n - 1)) /\ \A i \in C : i < b \/ e <= i
        BY <1>14, <2>1
      <3> HIDE DEF C
      <3>2. Cardinality(C \cup (b .. (e - 1))) = Cardinality(C) + (e - b)
        BY <1>2, <1>3, <3>1, CountAdds, SMTT(30)
      <3> QED BY <3>2 DEF C
    <2> QED BY <1>13, <2>2
  <1>16. Bytes(m) = b .. (e - 1) /\ e - b = m.length
    BY <1>2 DEF Bytes, b, e
  <1> QED BY <1>2, <1>3, <1>5, <1>8, <1>9, <1>10, <1>13, <1>14, <1>15, <1>16 DEF R, n, b, e

\* Reserving a range keeps the type of the pending request.
LEMMA ReserveType ==
    ASSUME NEW q \in PendingRma, NEW m \in Reply
    PROVE  Reserve(q, m) \in PendingRma
  <1>1. /\ m.ta \in Nat /\ m.offset \in Nat /\ m.length \in Nat
        /\ q.ranges \in SUBSET ByteRange /\ q.tassns \in SUBSET Nat
    BY DEF Reply, PendingRma
  <1>2. [begin |-> m.offset, end |-> m.offset + m.length] \in ByteRange
    BY <1>1 DEF ByteRange
  <1>3. /\ q.ranges \cup {[begin |-> m.offset, end |-> m.offset + m.length]} \in SUBSET ByteRange
        /\ q.tassns \cup {m.ta} \in SUBSET Nat
    BY <1>1, <1>2
  <1> QED BY <1>3 DEF Reserve, PendingRma

\* An acknowledgement is counted only if its bytes were not counted before, and
\* the last one finds every byte stored at the target.
LEMMA ReceiveWriteAckKeeps ==
    ASSUME IInv, NEW m \in replies, ReceiveWriteAck(m)
    PROVE  IInv'
  <1> DEFINE r == m.req
             n == rma[r].byte_count
  <1>0. /\ m \in Reply /\ r \in Requests /\ rma \in [Requests -> PendingRma]
        /\ rma[r] \in PendingRma /\ n \in Nat /\ rma[r].completed_bytes \in Nat
        /\ cqe \in [Requests -> Seq({0, 1, 5})]
        /\ r \in pending /\ cqe[r] = <<>> /\ rma[r].op = "WRITE"
        /\ rma[r].completed_bytes = Cardinality(Covered(r)) /\ rma[r].accepted_bytes = 0
    BY DEF IInv, TypeOK, LifeInv, CountInv, Reply, PendingRma, ReceiveWriteAck
  <1>1. /\ rma' = [rma EXCEPT ![r] = [Reserve(rma[r], m) EXCEPT !.completed_bytes = @ + m.length]]
        /\ Fresh(rma[r], m, rma[r].completed_bytes)
        /\ UNCHANGED <<outbox, wire, services, replies, localDma, read_response_dma, target, local>>
    BY DEF ReceiveWriteAck
  <1>2. /\ rma'[r].byte_count = n /\ rma'[r].op = "WRITE"
        /\ rma'[r].completed_bytes = rma[r].completed_bytes + m.length
        /\ rma'[r].accepted_bytes = 0 /\ rma'[r].response_dma = rma[r].response_dma
        /\ rma'[r].ranges = rma[r].ranges \cup {[begin |-> m.offset, end |-> m.offset + m.length]}
        /\ rma'[r].tassns = rma[r].tassns \cup {m.ta} /\ rma'[r].failed = rma[r].failed
        /\ \A q \in Requests : q # r => rma'[q] = rma[q]
    BY <1>0, <1>1 DEF Reserve, PendingRma
  <1>3. /\ m.offset \in Nat /\ m.length \in Nat /\ m.length > 0 /\ m.offset + m.length <= n
        /\ WellFormed(rma'[r].ranges, n) /\ Disjoint(rma'[r].ranges)
        /\ Covered(r)' = Covered(r) \cup Bytes(m)
        /\ Cardinality(Covered(r)') = Cardinality(Covered(r)) + m.length
    BY <1>0, <1>1, <1>2, ReserveRange
  <1>4. Covered(r)' \in SUBSET (0 .. (n - 1)) /\ Cardinality(Covered(r)') <= n
    <2>1. Covered(r)' \in SUBSET (0 .. (n - 1))
      BY <1>2 DEF Covered
    <2> QED BY <1>0, <2>1, CountBound
  \* The request completes exactly when its last byte is acknowledged.
  <1>5. \/ UNCHANGED <<pending, cqe>>
        \/ /\ rma'[r].completed_bytes = n /\ pending' = pending \ {r}
           /\ cqe' = [cqe EXCEPT ![r] = << 0 >>]
    <2> DEFINE q == [Reserve(rma[r], m) EXCEPT !.completed_bytes = @ + m.length]
    <2>1. q = rma'[r]
      BY <1>0, <1>1
    <2>2. IF q.completed_bytes = q.byte_count THEN Finish(r, 0) ELSE UNCHANGED <<pending, cqe>>
      BY DEF ReceiveWriteAck
    <2> HIDE DEF q
    <2>3. q.completed_bytes = rma'[r].completed_bytes /\ q.byte_count = n
      BY <1>2, <2>1
    <2> QED BY <1>0, <2>2, <2>3 DEF Finish
  <1>6. TypeOK'
    <2>1. rma'[r] \in PendingRma
      <3>1. Reserve(rma[r], m) \in PendingRma
        BY <1>0, ReserveType
      <3>2. Reserve(rma[r], m).completed_bytes + m.length \in Nat
        BY <1>3, <3>1 DEF PendingRma
      <3>3. [Reserve(rma[r], m) EXCEPT !.completed_bytes = @ + m.length] \in PendingRma
        BY <3>1, <3>2 DEF PendingRma
      <3> QED BY <1>0, <1>1, <3>3
    <2>2. rma' \in [Requests -> PendingRma]
      BY <1>0, <1>1, <2>1
    <2>3. \A q \in Requests : /\ rma'[q].completed_bytes <= rma'[q].byte_count
                             /\ rma'[q].accepted_bytes <= rma'[q].byte_count
                             /\ rma'[q].byte_count \in ByteCounts \cup {0}
      <3> SUFFICES ASSUME NEW q \in Requests
                   PROVE  /\ rma'[q].completed_bytes <= rma'[q].byte_count
                          /\ rma'[q].accepted_bytes <= rma'[q].byte_count
                          /\ rma'[q].byte_count \in ByteCounts \cup {0}
        OBVIOUS
      <3>1. rma[q].byte_count \in ByteCounts \cup {0}
        BY DEF IInv, TypeOK
      <3>2. CASE q = r
        BY <1>0, <1>2, <1>3, <1>4, <3>1, <3>2
      <3>3. CASE q # r
        BY <1>2, <3>1, <3>3 DEF IInv, TypeOK
      <3> QED BY <3>2, <3>3
    <2>4. cqe' \in [Requests -> Seq({0, 1, 5})] /\ pending' \subseteq Requests
      <3>1. << 0 >> \in Seq({0, 1, 5})
        OBVIOUS
      <3>2. pending \subseteq Requests
        BY DEF IInv, TypeOK
      <3> QED BY <1>0, <1>5, <3>1, <3>2, ZenonT(30)
    <2> QED BY <1>1, <2>2, <2>3, <2>4 DEF IInv, TypeOK
  <1>7. LifeInv'
    <2>1. r \in wire /\ r \notin outbox
      BY <1>0 DEF IInv, ReplyInv, LifeInv
    <2>2. << 0 >> # <<>>
      OBVIOUS
    <2> QED BY <1>0, <1>1, <1>5, <2>1, <2>2, ZenonT(30) DEF IInv, LifeInv, Issued
  <1>8. RangeInv'
    BY <1>2, <1>3 DEF IInv, RangeInv
  <1>9. \A d \in localDma : d.req # r /\ d.req \in Requests
    BY <1>0 DEF IInv, DmaInv, TypeOK, LocalDma
  <1>10. DmaInv'
    <2>1. /\ \A q \in Requests : DmasOf(q)' = DmasOf(q)
          /\ \A j \in Jettys : DmasAt(j)' = DmasAt(j)
      BY <1>1 DEF DmasOf, DmasAt
    <2>2. \A q \in Requests : rma'[q].response_dma = rma[q].response_dma
      BY <1>2
    <2>3. \A d \in localDma : rma'[d.req] = rma[d.req] /\ d.req \in pending'
      BY <1>2, <1>5, <1>9 DEF IInv, DmaInv
    <2> QED BY <1>1, <2>1, <2>2, <2>3 DEF IInv, DmaInv
  <1>11. \A q \in Requests : q # r => Covered(q)' = Covered(q) /\ Settled(q)' = Settled(q)
    BY <1>1, <1>2 DEF Covered, Settled, Flying
  <1>12. CountInv'
    BY <1>0, <1>2, <1>3, <1>11, ZenonT(30) DEF IInv, CountInv
  <1>13. PlaceInv'
    <2>1. \A i \in Bytes(m) : target[r][i] = i
      BY DEF IInv, ReplyInv, ReceiveWriteAck
    <2>2. \A i \in Covered(r)' : target'[r][i] = i
      BY <1>0, <1>1, <1>3, <2>1 DEF IInv, PlaceInv
    <2> QED BY <1>1, <1>2, <1>11, <2>2 DEF IInv, PlaceInv
  <1>14. ServiceInv' /\ ReplyInv'
    <2>1. \A q \in Requests : rma'[q].byte_count = rma[q].byte_count /\ rma'[q].op = rma[q].op
      BY <1>0, <1>2
    <2>2. /\ \A v \in services : v.req \in Requests
          /\ \A k \in replies : k.req \in Requests
      BY DEF IInv, TypeOK, Service, Reply
    <2> QED BY <1>1, <2>1, <2>2 DEF IInv, ServiceInv, ReplyInv
  <1>15. SuccessMeansTransferred'
    <2>1. ASSUME NEW q \in Requests, q # r, cqe'[q] = << 0 >>
          PROVE  \A i \in 0 .. (rma'[q].byte_count - 1) :
                    (IF rma'[q].op = "WRITE" THEN target'[q][i] ELSE local'[q][i]) = i
      BY <1>0, <1>1, <1>2, <1>5, <2>1 DEF IInv, SuccessMeansTransferred
    <2>2. ASSUME cqe'[r] = << 0 >>
          PROVE  \A i \in 0 .. (rma'[r].byte_count - 1) : target'[r][i] = i
      <3>0. << 0 >> # <<>>
        OBVIOUS
      <3>1. rma'[r].completed_bytes = n
        BY <1>0, <1>5, <2>2, <3>0
      <3>2. Cardinality(Covered(r)') = n
        BY <1>0, <1>2, <1>3, <3>1
      <3>3. Covered(r)' = 0 .. (n - 1)
        BY <1>0, <1>4, <3>2, CountsAll
      <3> QED BY <1>0, <1>2, <1>13, <3>3 DEF PlaceInv
    <2> QED BY <1>2, <2>1, <2>2 DEF SuccessMeansTransferred
  <1> QED BY <1>6, <1>7, <1>8, <1>10, <1>12, <1>13, <1>14, <1>15 DEF IInv

\* An error completes the request only when none of its DMAs is in flight.
LEMMA ReceiveRmaErrorKeeps ==
    ASSUME IInv, NEW m \in replies, ReceiveRmaError(m)
    PROVE  IInv'
  <1> DEFINE r == m.req
  <1>0. /\ r \in Requests /\ rma \in [Requests -> PendingRma] /\ rma[r] \in PendingRma
        /\ cqe \in [Requests -> Seq({0, 1, 5})]
        /\ r \in pending /\ cqe[r] = <<>> /\ r \in wire /\ r \notin outbox
    BY DEF IInv, TypeOK, LifeInv, ReplyInv, Reply, ReceiveRmaError
  <1>1. /\ rma' = [rma EXCEPT ![r].failed = TRUE]
        /\ UNCHANGED <<outbox, wire, services, replies, localDma, read_response_dma, target, local>>
    BY DEF ReceiveRmaError
  <1>2. /\ rma' \in [Requests -> PendingRma] /\ rma'[r].failed
        /\ \A q \in Requests :
             /\ rma'[q].byte_count = rma[q].byte_count /\ rma'[q].op = rma[q].op
             /\ rma'[q].completed_bytes = rma[q].completed_bytes
             /\ rma'[q].accepted_bytes = rma[q].accepted_bytes
             /\ rma'[q].response_dma = rma[q].response_dma
             /\ rma'[q].ranges = rma[q].ranges
             /\ q # r => rma'[q] = rma[q]
    BY <1>0, <1>1 DEF PendingRma
  <1>3. \/ UNCHANGED <<pending, cqe>>
        \/ /\ rma[r].response_dma = 0 /\ pending' = pending \ {r}
           /\ cqe' = [cqe EXCEPT ![r] = << 5 >>]
    BY <1>0 DEF ReceiveRmaError, Drained, Finish
  <1>4. << 5 >> # <<>> /\ << 5 >> # << 0 >> /\ << 5 >> \in Seq({0, 1, 5})
    OBVIOUS
  <1>5. TypeOK'
    <2>1. cqe' \in [Requests -> Seq({0, 1, 5})] /\ pending' \subseteq Requests
      <3>1. pending \subseteq Requests
        BY DEF IInv, TypeOK
      <3> QED BY <1>0, <1>3, <1>4, <3>1
    <2>2. \A q \in Requests : /\ rma'[q].completed_bytes <= rma'[q].byte_count
                             /\ rma'[q].accepted_bytes <= rma'[q].byte_count
                             /\ rma'[q].byte_count \in ByteCounts \cup {0}
      BY <1>2 DEF IInv, TypeOK
    <2> QED BY <1>1, <1>2, <2>1, <2>2 DEF IInv, TypeOK
  <1>6. LifeInv'
    BY <1>0, <1>1, <1>3, <1>4 DEF IInv, LifeInv, Issued
  <1>7. RangeInv'
    BY <1>2 DEF IInv, RangeInv
  <1>8. DmaInv'
    <2>1. /\ \A q \in Requests : DmasOf(q)' = DmasOf(q)
          /\ \A j \in Jettys : DmasAt(j)' = DmasAt(j)
      BY <1>1 DEF DmasOf, DmasAt
    <2>2. \A d \in localDma : d.req \in Requests /\ d.req \in pending'
      <3> SUFFICES ASSUME NEW d \in localDma, d.req = r, rma[r].response_dma = 0
                   PROVE  FALSE
        BY <1>3 DEF IInv, DmaInv, TypeOK, LocalDma
      <3>1. IsFiniteSet(DmasOf(r)) /\ Cardinality(DmasOf(r)) = 0
        <4>1. DmasOf(r) \in SUBSET localDma
          BY DEF DmasOf
        <4> QED BY <1>0, <4>1, FS_Subset DEF IInv, DmaInv
      <3>2. DmasOf(r) = {}
        BY <3>1, FS_EmptySet
      <3> QED BY <3>2 DEF DmasOf
    <2> QED BY <1>1, <1>2, <2>1, <2>2 DEF IInv, DmaInv
  <1>9. \A q \in Requests : Covered(q)' = Covered(q) /\ Settled(q)' = Settled(q)
    BY <1>1, <1>2 DEF Covered, Settled, Flying
  <1>10. CountInv'
    BY <1>2, <1>9 DEF IInv, CountInv
  <1>11. PlaceInv'
    BY <1>1, <1>2, <1>9 DEF IInv, PlaceInv
  <1>12. ServiceInv' /\ ReplyInv'
    <2>1. /\ \A v \in services : v.req \in Requests
          /\ \A k \in replies : k.req \in Requests
      BY DEF IInv, TypeOK, Service, Reply
    <2> QED BY <1>1, <1>2, <2>1, SMTT(30) DEF IInv, ServiceInv, ReplyInv
  <1>13. SuccessMeansTransferred'
    <2>1. \A q \in Requests : cqe'[q] = << 0 >> => cqe[q] = << 0 >>
      BY <1>0, <1>3, <1>4
    <2> QED BY <1>1, <1>2, <2>1 DEF IInv, SuccessMeansTransferred
  <1> QED BY <1>5, <1>6, <1>7, <1>8, <1>10, <1>11, <1>12, <1>13 DEF IInv

\* A response gets a DMA only for bytes that no other response was given.
LEMMA ReceiveReadResponseKeeps ==
    ASSUME IInv, NEW m \in replies, ReceiveReadResponse(m)
    PROVE  IInv'
  <1> DEFINE r == m.req
             n == rma[r].byte_count
             d == [req |-> m.req, ta |-> m.ta, offset |-> m.offset, length |-> m.length,
                   first |-> m.first]
             new == [begin |-> m.offset, end |-> m.offset + m.length]
  <1>0. /\ m \in Reply /\ r \in Requests /\ rma \in [Requests -> PendingRma]
        /\ rma[r] \in PendingRma /\ n \in Nat /\ rma[r].accepted_bytes \in Nat
        /\ rma[r].response_dma \in Nat /\ rma[r].completed_bytes \in Nat
        /\ r \in pending /\ r \in wire /\ rma[r].op = "READ" /\ ~rma[r].failed
        /\ m.first = m.offset /\ JettyOf[r] \in Jettys
        /\ read_response_dma \in [Jettys -> Nat]
        /\ rma[r].accepted_bytes = Cardinality(Covered(r))
    BY ConstantsAssumption DEF IInv, TypeOK, ReplyInv, CountInv, Reply, PendingRma, ReceiveReadResponse
  <1>1. /\ rma' = [rma EXCEPT ![r] = [Reserve(rma[r], m) EXCEPT
                                        !.accepted_bytes = @ + m.length, !.response_dma = @ + 1]]
        /\ Fresh(rma[r], m, rma[r].accepted_bytes)
        /\ read_response_dma' = [read_response_dma EXCEPT ![JettyOf[r]] = @ + 1]
        /\ localDma' = localDma \cup {d}
        /\ UNCHANGED <<pending, outbox, wire, services, replies, target, local, cqe>>
    BY DEF ReceiveReadResponse
  <1>2. /\ rma'[r].byte_count = n /\ rma'[r].op = "READ" /\ ~rma'[r].failed
        /\ rma'[r].completed_bytes = rma[r].completed_bytes
        /\ rma'[r].accepted_bytes = rma[r].accepted_bytes + m.length
        /\ rma'[r].response_dma = rma[r].response_dma + 1
        /\ rma'[r].ranges = rma[r].ranges \cup {new}
        /\ \A q \in Requests : q # r => rma'[q] = rma[q]
    BY <1>0, <1>1 DEF Reserve, PendingRma
  <1>3. /\ m.offset \in Nat /\ m.length \in Nat /\ m.length > 0 /\ m.offset + m.length <= n
        /\ WellFormed(rma'[r].ranges, n) /\ Disjoint(rma'[r].ranges)
        /\ \A x \in rma[r].ranges : x.end <= m.offset \/ m.offset + m.length <= x.begin
        /\ Covered(r)' = Covered(r) \cup Bytes(m)
        /\ \A i \in Covered(r) : i < m.offset \/ m.offset + m.length <= i
        /\ Cardinality(Covered(r)') = Cardinality(Covered(r)) + m.length
    BY <1>0, <1>1, <1>2, ReserveRange
  <1>4. Covered(r)' \in SUBSET (0 .. (n - 1)) /\ Cardinality(Covered(r)') <= n
    <2>1. Covered(r)' \in SUBSET (0 .. (n - 1))
      BY <1>2 DEF Covered
    <2> QED BY <1>0, <2>1, CountBound
  <1>5. /\ d \in LocalDma /\ d.req = r /\ d.offset = m.offset /\ d.length = m.length
        /\ d.first = m.offset
    BY <1>0 DEF Reply, LocalDma
  <1> HIDE DEF d
  \* The new DMA shares no byte with those in flight.
  <1>6. \A e \in localDma :
           /\ e.offset \in Nat /\ e.length \in Nat /\ e.length > 0 /\ e.req \in Requests
           /\ e.req = r => e.offset + e.length <= d.offset \/ d.offset + d.length <= e.offset
    <2> SUFFICES ASSUME NEW e \in localDma
                 PROVE  /\ e.offset \in Nat /\ e.length \in Nat /\ e.length > 0 /\ e.req \in Requests
                        /\ e.req = r => \/ e.offset + e.length <= d.offset
                                        \/ d.offset + d.length <= e.offset
      OBVIOUS
    <2>1. e.offset \in Nat /\ e.length \in Nat /\ e.length > 0 /\ e.req \in Requests
      BY DEF IInv, TypeOK, LocalDma
    <2>2. e.req = r => [begin |-> e.offset, end |-> e.offset + e.length] \in rma[r].ranges
      BY DEF IInv, DmaInv
    <2> QED BY <1>3, <1>5, <2>1, <2>2
  <1>7. d \notin localDma
    BY <1>3, <1>5, <1>6
  <1>8. TypeOK'
    <2>1. rma' \in [Requests -> PendingRma]
      <3>1. Reserve(rma[r], m) \in PendingRma
        BY <1>0, ReserveType
      <3>2. /\ Reserve(rma[r], m).accepted_bytes + m.length \in Nat
            /\ Reserve(rma[r], m).response_dma + 1 \in Nat
        BY <1>3, <3>1 DEF PendingRma
      <3>3. [Reserve(rma[r], m) EXCEPT !.accepted_bytes = @ + m.length,
                                       !.response_dma = @ + 1] \in PendingRma
        BY <3>1, <3>2 DEF PendingRma
      <3> QED BY <1>0, <1>1, <3>3
    <2>2. \A q \in Requests : /\ rma'[q].completed_bytes <= rma'[q].byte_count
                             /\ rma'[q].accepted_bytes <= rma'[q].byte_count
                             /\ rma'[q].byte_count \in ByteCounts \cup {0}
      <3> SUFFICES ASSUME NEW q \in Requests
                   PROVE  /\ rma'[q].completed_bytes <= rma'[q].byte_count
                          /\ rma'[q].accepted_bytes <= rma'[q].byte_count
                          /\ rma'[q].byte_count \in ByteCounts \cup {0}
        OBVIOUS
      <3>1. /\ rma[q].byte_count \in ByteCounts \cup {0}
            /\ rma[q].completed_bytes <= rma[q].byte_count
            /\ rma[q].accepted_bytes <= rma[q].byte_count
        BY DEF IInv, TypeOK
      <3>2. CASE q = r
        BY <1>0, <1>2, <1>3, <1>4, <3>1, <3>2
      <3>3. CASE q # r
        BY <1>2, <3>1, <3>3
      <3> QED BY <3>2, <3>3
    <2>3. read_response_dma' \in [Jettys -> Nat]
      BY <1>0, <1>1
    <2>4. localDma' \subseteq LocalDma
      BY <1>1, <1>5 DEF IInv, TypeOK
    <2> QED BY <1>1, <2>1, <2>2, <2>3, <2>4 DEF IInv, TypeOK
  <1>9. LifeInv'
    BY <1>1 DEF IInv, LifeInv, Issued
  <1>10. RangeInv'
    BY <1>2, <1>3 DEF IInv, RangeInv
  <1>11. DmaInv'
    <2>1. IsFiniteSet(localDma')
      BY <1>1, FS_AddElement DEF IInv, DmaInv
    <2>2. \A e \in localDma' :
             /\ e.req \in pending' /\ e.req \in wire' /\ rma'[e.req].op = "READ"
             /\ e.first = e.offset
             /\ [begin |-> e.offset, end |-> e.offset + e.length] \in rma'[e.req].ranges
      <3>1. [begin |-> d.offset, end |-> d.offset + d.length] = new
        BY <1>5
      <3> HIDE DEF new
      <3>2. \A e \in localDma :
               /\ e.req \in pending' /\ e.req \in wire' /\ rma'[e.req].op = "READ"
               /\ e.first = e.offset
               /\ [begin |-> e.offset, end |-> e.offset + e.length] \in rma'[e.req].ranges
        BY <1>1, <1>2, <1>6 DEF IInv, DmaInv
      <3> QED BY <1>0, <1>1, <1>2, <1>5, <3>1, <3>2
    <2>3. \A e, f \in localDma' : e.req = f.req =>
             e = f \/ e.offset + e.length <= f.offset \/ f.offset + f.length <= e.offset
      BY <1>1, <1>5, <1>6 DEF IInv, DmaInv
    <2>4. \A q \in Requests : rma'[q].response_dma = Cardinality(DmasOf(q)')
      <3>1. DmasOf(r)' = DmasOf(r) \cup {d} /\ d \notin DmasOf(r)
        BY <1>1, <1>5, <1>7 DEF DmasOf
      <3>2. IsFiniteSet(DmasOf(r))
        BY FS_Subset DEF IInv, DmaInv, DmasOf
      <3>3. Cardinality(DmasOf(r)') = Cardinality(DmasOf(r)) + 1
        BY <3>1, <3>2, FS_AddElement
      <3>4. \A q \in Requests : q # r => DmasOf(q)' = DmasOf(q)
        BY <1>1, <1>5 DEF DmasOf
      <3> QED BY <1>0, <1>2, <3>3, <3>4 DEF IInv, DmaInv
    <2>5. \A j \in Jettys : read_response_dma'[j] = Cardinality(DmasAt(j)')
      <3>1. DmasAt(JettyOf[r])' = DmasAt(JettyOf[r]) \cup {d} /\ d \notin DmasAt(JettyOf[r])
        BY <1>1, <1>5, <1>7 DEF DmasAt
      <3>2. IsFiniteSet(DmasAt(JettyOf[r]))
        BY FS_Subset DEF IInv, DmaInv, DmasAt
      <3>3. Cardinality(DmasAt(JettyOf[r])') = Cardinality(DmasAt(JettyOf[r])) + 1
        BY <3>1, <3>2, FS_AddElement
      <3>4. \A j \in Jettys : j # JettyOf[r] => DmasAt(j)' = DmasAt(j)
        BY <1>1, <1>5 DEF DmasAt
      <3> QED BY <1>0, <1>1, <3>3, <3>4 DEF IInv, DmaInv
    <2> QED BY <2>1, <2>2, <2>3, <2>4, <2>5 DEF DmaInv
  <1>12. \A q \in Requests : q # r => Covered(q)' = Covered(q) /\ Settled(q)' = Settled(q)
    BY <1>1, <1>2, <1>5 DEF Covered, Settled, Flying
  \* What is reserved is in flight, so nothing new is settled.
  <1>13. Settled(r)' = Settled(r)
    <2>1. \A i \in Bytes(m) : Flying(r, i)'
      BY <1>1, <1>3, <1>5 DEF Flying, Bytes
    <2>2. \A i \in Covered(r) : Flying(r, i)' <=> Flying(r, i)
      <3>1. \A i \in Covered(r) : i \in Int
        BY <1>0 DEF Covered
      <3> QED BY <1>1, <1>3, <1>5, <3>1 DEF Flying
    <2> QED BY <1>3, <2>1, <2>2 DEF Settled
  <1>14. CountInv'
    <2>1. ASSUME NEW q \in Requests, q # r
          PROVE  /\ rma'[q] = rma[q] /\ Covered(q)' = Covered(q) /\ Settled(q)' = Settled(q)
      BY <1>2, <1>12, <2>1
    <2>2. /\ rma'[r].accepted_bytes = Cardinality(Covered(r)')
          /\ rma'[r].completed_bytes = Cardinality(Settled(r)')
      BY <1>0, <1>2, <1>3, <1>13 DEF IInv, CountInv
    <2>3. rma'[r].completed_bytes <= Cardinality(Settled(r)')
      BY <1>0, <1>2, <2>2
    <2> QED BY <1>2, <2>1, <2>2, <2>3 DEF IInv, CountInv
  <1>15. PlaceInv'
    BY <1>0, <1>1, <1>2, <1>12, <1>13 DEF IInv, PlaceInv
  <1>16. ServiceInv' /\ ReplyInv'
    <2>1. \A q \in Requests : rma'[q].byte_count = rma[q].byte_count /\ rma'[q].op = rma[q].op
      BY <1>0, <1>2
    <2>2. /\ \A v \in services : v.req \in Requests
          /\ \A k \in replies : k.req \in Requests
      BY DEF IInv, TypeOK, Service, Reply
    <2> QED BY <1>1, <2>1, <2>2, SMTT(30) DEF IInv, ServiceInv, ReplyInv
  <1>17. SuccessMeansTransferred'
    <2>1. \A q \in Requests : rma'[q].byte_count = rma[q].byte_count /\ rma'[q].op = rma[q].op
      BY <1>0, <1>2
    <2> QED BY <1>1, <2>1 DEF IInv, SuccessMeansTransferred
  <1> QED BY <1>8, <1>9, <1>10, <1>11, <1>14, <1>15, <1>16, <1>17 DEF IInv

\* The end of a response DMA settles its bytes; the last one completes the READ.
LEMMA ResponseWrittenKeeps ==
    ASSUME IInv, NEW d \in localDma, NEW ok \in BOOLEAN, ResponseWritten(d, ok)
    PROVE  IInv'
  <1> DEFINE r == d.req
             n == rma[r].byte_count
             q == Landed(rma[r], d.length, ok)
             b == d.offset
             e == d.offset + d.length
  <1>0. /\ d \in LocalDma /\ r \in Requests /\ rma \in [Requests -> PendingRma]
        /\ rma[r] \in PendingRma /\ n \in Nat /\ n \in ByteCounts \cup {0}
        /\ rma[r].completed_bytes \in Nat /\ rma[r].response_dma \in Nat
        /\ b \in Nat /\ d.length \in Nat /\ d.length > 0 /\ e \in Nat /\ b < e
        /\ cqe \in [Requests -> Seq({0, 1, 5})] /\ local \in [Requests -> Memory]
        /\ read_response_dma \in [Jettys -> Nat] /\ JettyOf[r] \in Jettys
    <2>1. d \in LocalDma /\ rma \in [Requests -> PendingRma]
      BY DEF IInv, TypeOK
    <2>2. /\ r \in Requests /\ b \in Nat /\ d.length \in Nat /\ d.length > 0
          /\ e \in Nat /\ b < e
      BY <2>1 DEF LocalDma
    <2>3. rma[r] \in PendingRma
      BY <2>1, <2>2
    <2>4. n \in Nat /\ rma[r].completed_bytes \in Nat /\ rma[r].response_dma \in Nat
      BY <2>3 DEF PendingRma
    <2>5. /\ n \in ByteCounts \cup {0} /\ cqe \in [Requests -> Seq({0, 1, 5})]
          /\ local \in [Requests -> Memory] /\ read_response_dma \in [Jettys -> Nat]
      BY <2>2 DEF IInv, TypeOK
    <2>6. JettyOf[r] \in Jettys
      BY <2>2, ConstantsAssumption
    <2> QED BY <2>1, <2>2, <2>3, <2>4, <2>5, <2>6
  <1>1. /\ r \in pending /\ r \in wire /\ r \notin outbox /\ cqe[r] = <<>>
        /\ rma[r].op = "READ" /\ d.first = b
        /\ [begin |-> b, end |-> e] \in rma[r].ranges
    BY <1>0 DEF IInv, DmaInv, LifeInv
  <1>2. /\ localDma' = localDma \ {d}
        /\ read_response_dma' = [read_response_dma EXCEPT ![JettyOf[r]] = @ - 1]
        /\ rma' = [rma EXCEPT ![r] = q]
        /\ IF ReadFinished(q) THEN Finish(r, IF q.failed THEN 5 ELSE 0)
           ELSE UNCHANGED <<pending, cqe>>
        /\ UNCHANGED <<outbox, wire, services, replies, target>>
    BY <1>1 DEF ResponseWritten
  <1>3. PICK stored \in SUBSET Bytes(d) :
            /\ ok => stored = Bytes(d)
            /\ local' = [local EXCEPT ![r] = Store(@, stored, d.first - d.offset)]
    BY DEF ResponseWritten
  \* The DMA was counted, for its request and for its jetty.
  <1>4. /\ DmasOf(r)' = DmasOf(r) \ {d} /\ d \in DmasOf(r) /\ IsFiniteSet(DmasOf(r))
        /\ DmasAt(JettyOf[r])' = DmasAt(JettyOf[r]) \ {d} /\ d \in DmasAt(JettyOf[r])
        /\ IsFiniteSet(DmasAt(JettyOf[r]))
    <2>1. DmasOf(r) \in SUBSET localDma /\ DmasAt(JettyOf[r]) \in SUBSET localDma
      BY DEF DmasOf, DmasAt
    <2>2. IsFiniteSet(DmasOf(r)) /\ IsFiniteSet(DmasAt(JettyOf[r]))
      BY <2>1, FS_Subset DEF IInv, DmaInv
    <2> QED BY <1>2, <2>2 DEF DmasOf, DmasAt
  <1>5. /\ Cardinality(DmasOf(r)') = rma[r].response_dma - 1
        /\ Cardinality(DmasOf(r)') \in Nat /\ IsFiniteSet(DmasOf(r)')
        /\ Cardinality(DmasAt(JettyOf[r])') = read_response_dma[JettyOf[r]] - 1
        /\ Cardinality(DmasAt(JettyOf[r])') \in Nat
    <2>1. /\ Cardinality(DmasOf(r)') = Cardinality(DmasOf(r)) - 1
          /\ IsFiniteSet(DmasOf(r)')
          /\ Cardinality(DmasAt(JettyOf[r])') = Cardinality(DmasAt(JettyOf[r])) - 1
          /\ IsFiniteSet(DmasAt(JettyOf[r])')
      BY <1>4, FS_RemoveElement
    <2>2. /\ Cardinality(DmasOf(r)') \in Nat
          /\ Cardinality(DmasAt(JettyOf[r])') \in Nat
      BY <2>1, FS_CardinalityType
    <2>3. /\ rma[r].response_dma = Cardinality(DmasOf(r))
          /\ read_response_dma[JettyOf[r]] = Cardinality(DmasAt(JettyOf[r]))
      BY <1>0 DEF IInv, DmaInv
    <2> QED BY <2>1, <2>2, <2>3
  <1>6. /\ q.byte_count = n /\ q.op = "READ" /\ q.ranges = rma[r].ranges
        /\ q.accepted_bytes = rma[r].accepted_bytes
        /\ q.response_dma = rma[r].response_dma - 1
        /\ q.failed <=> rma[r].failed \/ ~ok
        /\ q.completed_bytes = IF ok THEN rma[r].completed_bytes + d.length
                               ELSE rma[r].completed_bytes
        /\ q.completed_bytes \in Nat /\ q.response_dma \in Nat /\ q \in PendingRma
    <2> DEFINE done == IF ok THEN rma[r].completed_bytes + d.length ELSE rma[r].completed_bytes
               bad == rma[r].failed \/ ~ok
    <2>1. q = [rma[r] EXCEPT !.response_dma = rma[r].response_dma - 1, !.failed = bad,
                             !.completed_bytes = done]
      BY DEF Landed
    <2>2. rma[r].response_dma - 1 \in Nat /\ done \in Nat /\ bad \in BOOLEAN
      BY <1>0, <1>5, SMTT(30) DEF PendingRma
    <2> HIDE DEF q, done, bad
    <2>3. /\ q.byte_count = n /\ q.op = "READ" /\ q.ranges = rma[r].ranges
          /\ q.accepted_bytes = rma[r].accepted_bytes
          /\ q.response_dma = rma[r].response_dma - 1
          /\ q.failed = bad /\ q.completed_bytes = done /\ q \in PendingRma
      BY <1>0, <1>1, <2>1, <2>2 DEF PendingRma
    <2> QED BY <2>2, <2>3 DEF done, bad
  <1> HIDE DEF q
  <1>7. rma'[r] = q /\ \A p \in Requests : p # r => rma'[p] = rma[p]
    BY <1>0, <1>2
  \* The request completes exactly when its last DMA ends.
  <1>8. \/ UNCHANGED <<pending, cqe>>
        \/ /\ q.response_dma = 0 /\ pending' = pending \ {r}
           /\ \/ cqe' = [cqe EXCEPT ![r] = << 5 >>]
              \/ ~q.failed /\ q.completed_bytes = n /\ cqe' = [cqe EXCEPT ![r] = << 0 >>]
    <2>1. cqe[r] = <<>> /\ Append(<<>>, 5) = << 5 >> /\ Append(<<>>, 0) = << 0 >>
      BY <1>0, <1>1 DEF IInv, LifeInv
    <2>2. CASE ~ReadFinished(q)
      BY <1>2, <2>2
    <2>3. CASE ReadFinished(q) /\ q.failed
      <3>1. q.response_dma = 0
        BY <2>3 DEF ReadFinished
      <3>2. Finish(r, 5)
        BY <1>2, <2>3
      <3>3. pending' = pending \ {r} /\ cqe' = [cqe EXCEPT ![r] = << 5 >>]
        BY <2>1, <3>2 DEF Finish
      <3> QED BY <3>1, <3>3
    <2>4. CASE ReadFinished(q) /\ ~q.failed
      <3>1. q.response_dma = 0 /\ q.completed_bytes = n
        BY <1>6, <2>4 DEF ReadFinished
      <3>2. Finish(r, 0)
        BY <1>2, <2>4
      <3>3. pending' = pending \ {r} /\ cqe' = [cqe EXCEPT ![r] = << 0 >>]
        BY <2>1, <3>2 DEF Finish
      <3> QED BY <2>4, <3>1, <3>3
    <2> QED BY <2>2, <2>3, <2>4
  <1>9. << 5 >> # <<>> /\ << 0 >> # <<>> /\ << 5 >> # << 0 >>
        /\ << 5 >> \in Seq({0, 1, 5}) /\ << 0 >> \in Seq({0, 1, 5})
    OBVIOUS
  \* The bytes of the DMA were reserved by nobody else, and are now settled.
  <1>10. Bytes(d) = b .. (e - 1) /\ e <= n /\ Bytes(d) \subseteq Covered(r)
    <2>1. e <= n
      BY <1>0, <1>1 DEF IInv, RangeInv, WellFormed
    <2>2. Bytes(d) = b .. (e - 1)
      BY <1>0 DEF Bytes
    <2>3. Bytes(d) \subseteq Covered(r)
      <3> SUFFICES ASSUME NEW i \in b .. (e - 1) PROVE i \in Covered(r)
        BY <2>2
      <3>1. i \in 0 .. (n - 1) /\ b <= i /\ i < e
        BY <1>0, <2>1, SMTT(30)
      <3>2. \E x \in rma[r].ranges : x.begin <= i /\ i < x.end
        BY <1>1, <3>1
      <3> QED BY <3>1, <3>2 DEF Covered
    <2> QED BY <2>1, <2>2, <2>3
  <1>11. \A p \in Requests : Covered(p)' = Covered(p)
    BY <1>6, <1>7 DEF Covered
  <1>12. \A p \in Requests : p # r => Settled(p)' = Settled(p)
    BY <1>2, <1>11 DEF Settled, Flying
  <1>13. /\ \A i \in Settled(r) : i < b \/ e <= i
         /\ Settled(r)' = Settled(r) \cup (b .. (e - 1))
    <2>1. \A i \in Covered(r) : i \in Int
      BY <1>0 DEF Covered
    <2>2. \A i \in b .. (e - 1) : Flying(r, i) /\ ~Flying(r, i)'
      <3> SUFFICES ASSUME NEW i \in b .. (e - 1) PROVE Flying(r, i) /\ ~Flying(r, i)'
        OBVIOUS
      <3>1. Flying(r, i)
        BY <1>0 DEF Flying
      <3>2. ASSUME NEW f \in localDma', f.req = r, f.offset <= i, i < f.offset + f.length
            PROVE  FALSE
        <4>1. f \in localDma /\ f # d /\ f.offset \in Nat /\ f.length \in Nat
          BY <1>2 DEF IInv, TypeOK, LocalDma
        <4>2. e <= f.offset \/ f.offset + f.length <= b
          BY <3>2, <4>1 DEF IInv, DmaInv
        <4> QED BY <1>0, <3>2, <4>1, <4>2
      <3> QED BY <3>1, <3>2 DEF Flying
    <2>3. \A i \in Covered(r) : i < b \/ e <= i => (Flying(r, i)' <=> Flying(r, i))
      BY <1>0, <1>2, <2>1 DEF Flying
    <2>4. \A i \in Covered(r) : i \in b .. (e - 1) \/ i < b \/ e <= i
      BY <1>0, <2>1
    <2>5. \A i \in Settled(r) : i < b \/ e <= i
      BY <2>2, <2>4 DEF Settled
    <2>6. Settled(r)' = {i \in Covered(r) : ~Flying(r, i)'}
      BY <1>0, <1>11 DEF Settled
    <2> QED BY <1>10, <2>2, <2>3, <2>4, <2>5, <2>6 DEF Settled
  <1>14. /\ Settled(r) \in SUBSET (0 .. (n - 1)) /\ Settled(r)' \in SUBSET (0 .. (n - 1))
         /\ Cardinality(Settled(r)) \in Nat
         /\ Cardinality(Settled(r)') = Cardinality(Settled(r)) + d.length
         /\ Cardinality(Settled(r)') <= n
    <2>1. Settled(r) \in SUBSET (0 .. (n - 1)) /\ Settled(r)' \in SUBSET (0 .. (n - 1))
      BY <1>0, <1>11 DEF Settled, Covered
    <2> DEFINE C == Settled(r)
               D == Settled(r)'
    <2>2. /\ C \in SUBSET (0 .. (n - 1)) /\ D \in SUBSET (0 .. (n - 1))
          /\ D = C \cup (b .. (e - 1)) /\ \A i \in C : i < b \/ e <= i
      BY <1>13, <2>1
    <2> HIDE DEF C, D, n, b, e
    <2>3. Cardinality(C) \in Nat /\ Cardinality(D) <= n
      BY <1>0, <2>2, CountBound
    <2>4. Cardinality(C \cup (b .. (e - 1))) = Cardinality(C) + (e - b)
      <3>1. n \in Nat /\ b \in Nat /\ e \in Nat /\ b < e /\ e <= n
        BY <1>0, <1>10
      <3> QED BY <2>2, <3>1, CountAdds
    <2>5. e - b = d.length
      BY <1>0 DEF b, e
    <2> QED BY <2>1, <2>2, <2>3, <2>4, <2>5 DEF C, D
  <1>15. /\ q.completed_bytes <= Cardinality(Settled(r)')
         /\ ~q.failed => q.completed_bytes = Cardinality(Settled(r)')
    <2>1. /\ rma[r].completed_bytes <= Cardinality(Settled(r))
          /\ ~rma[r].failed => rma[r].completed_bytes = Cardinality(Settled(r))
      BY <1>0, <1>1 DEF IInv, CountInv
    <2> DEFINE old == Cardinality(Settled(r))
               now == Cardinality(Settled(r)')
    <2>2. old \in Nat /\ now = old + d.length
      BY <1>14
    <2>3. /\ rma[r].completed_bytes <= old
          /\ ~rma[r].failed => rma[r].completed_bytes = old
      BY <2>1
    <2> HIDE DEF old, now
    <2>4. q.completed_bytes <= now /\ (~q.failed => q.completed_bytes = now)
      <3>1. rma[r].completed_bytes \in Nat /\ d.length \in Nat
        BY <1>0 DEF PendingRma
      <3>2. CASE ok
        <4>1. q.completed_bytes = rma[r].completed_bytes + d.length /\ (q.failed <=> rma[r].failed)
          BY <1>6, <3>2
        <4> QED BY <2>2, <2>3, <3>1, <4>1
      <3>3. CASE ~ok
        <4>1. q.completed_bytes = rma[r].completed_bytes /\ q.failed
          BY <1>6, <3>3
        <4> QED BY <2>2, <2>3, <3>1, <4>1
      <3> QED BY <3>2, <3>3
    <2> QED BY <2>4 DEF now
  \* The payload lands at its own place and nowhere else.
  <1>16. /\ local' \in [Requests -> Memory]
         /\ \A p \in Requests : p # r => local'[p] = local[p]
         /\ \A i \in 0 .. (n - 1) : (i < b \/ e <= i) => local'[r][i] = local[r][i]
         /\ ok => \A i \in b .. (e - 1) : local'[r][i] = i
    <2>1. local[r] \in Memory /\ DOMAIN local[r] = Offsets
      BY <1>0 DEF Memory
    <2>2. \A i \in Offsets : i \in Nat
      BY ConstantsAssumption DEF Offsets
    <2>3. Store(local[r], stored, d.first - d.offset) =
            [i \in Offsets |-> IF i \in stored THEN i + (d.first - d.offset) ELSE local[r][i]]
      BY <2>1 DEF Store
    <2>4. \A i \in Offsets : i + (d.first - d.offset) = i
      BY <1>0, <1>1, <2>2
    <2>5. Store(local[r], stored, d.first - d.offset) =
            [i \in Offsets |-> IF i \in stored THEN i ELSE local[r][i]]
      BY <2>3, <2>4
    <2>6. Store(local[r], stored, d.first - d.offset) \in Memory
      BY <2>1, <2>5 DEF Memory
    <2>7. local' = [local EXCEPT ![r] = Store(local[r], stored, d.first - d.offset)]
      BY <1>3
    <2>8. 0 .. (n - 1) \subseteq Offsets
      BY <1>0, ConstantsAssumption DEF Offsets
    <2>9. local'[r] = [i \in Offsets |-> IF i \in stored THEN i ELSE local[r][i]]
      BY <1>0, <2>5, <2>7
    <2>10. local' \in [Requests -> Memory] /\ \A p \in Requests : p # r => local'[p] = local[p]
      BY <1>0, <2>6, <2>7
    <2>11. \A i \in 0 .. (n - 1) : (i < b \/ e <= i) => i \notin stored
      BY <1>0, <1>3, <1>10
    <2>12. \A i \in b .. (e - 1) : i \in 0 .. (n - 1)
      BY <1>0, <1>10
    <2>13. ok => \A i \in b .. (e - 1) : i \in stored
      BY <1>3, <1>10
    <2> QED BY <2>8, <2>9, <2>10, <2>11, <2>12, <2>13
  <1>17. TypeOK'
    <2>1. rma' \in [Requests -> PendingRma]
      BY <1>0, <1>2, <1>6
    <2>2. \A p \in Requests : /\ rma'[p].completed_bytes <= rma'[p].byte_count
                             /\ rma'[p].accepted_bytes <= rma'[p].byte_count
                             /\ rma'[p].byte_count \in ByteCounts \cup {0}
      <3>1. ASSUME NEW p \in Requests
            PROVE  /\ rma[p].completed_bytes <= rma[p].byte_count
                   /\ rma[p].accepted_bytes <= rma[p].byte_count
                   /\ rma[p].byte_count \in ByteCounts \cup {0}
        BY DEF IInv, TypeOK
      <3>2. q.completed_bytes <= n
        BY <1>0, <1>6, <1>14, <1>15, SMTT(30)
      <3> QED BY <1>0, <1>6, <1>7, <3>1, <3>2
    <2>3. cqe' \in [Requests -> Seq({0, 1, 5})] /\ pending' \subseteq Requests
      <3>1. pending \subseteq Requests
        BY DEF IInv, TypeOK
      <3> QED BY <1>0, <1>8, <1>9, <3>1, ZenonT(30)
    <2>4. read_response_dma' \in [Jettys -> Nat]
      BY <1>0, <1>2, <1>5
    <2>5. localDma' \subseteq LocalDma
      BY <1>2 DEF IInv, TypeOK
    <2> QED BY <1>2, <1>16, <2>1, <2>2, <2>3, <2>4, <2>5 DEF IInv, TypeOK
  <1>18. LifeInv'
    BY <1>0, <1>1, <1>2, <1>8, <1>9, ZenonT(30) DEF IInv, LifeInv, Issued
  <1>19. RangeInv'
    BY <1>6, <1>7 DEF IInv, RangeInv
  <1>20. DmaInv'
    <2>1. IsFiniteSet(localDma')
      BY <1>2, FS_RemoveElement DEF IInv, DmaInv
    <2>2. \A f \in localDma' : f.req \in pending'
      <3> SUFFICES ASSUME NEW f \in localDma', f.req = r, q.response_dma = 0
                   PROVE  FALSE
        BY <1>2, <1>8 DEF IInv, DmaInv
      <3>1. DmasOf(r)' = {}
        BY <1>5, <1>6, FS_EmptySet
      <3> QED BY <3>1 DEF DmasOf
    <2>3. \A f \in localDma' :
             /\ f.req \in wire' /\ rma'[f.req].op = "READ" /\ f.first = f.offset
             /\ [begin |-> f.offset, end |-> f.offset + f.length] \in rma'[f.req].ranges
      <3>1. \A f \in localDma' : f \in localDma /\ f.req \in Requests
        BY <1>2 DEF IInv, TypeOK, LocalDma
      <3>2. \A p \in Requests : rma'[p].op = rma[p].op /\ rma'[p].ranges = rma[p].ranges
        BY <1>1, <1>6, <1>7
      <3> QED BY <1>2, <3>1, <3>2 DEF IInv, DmaInv
    <2>4. \A f, g \in localDma' : f.req = g.req =>
             f = g \/ f.offset + f.length <= g.offset \/ g.offset + g.length <= f.offset
      BY <1>2 DEF IInv, DmaInv
    <2>5. \A p \in Requests : rma'[p].response_dma = Cardinality(DmasOf(p)')
      <3>1. \A p \in Requests : p # r => DmasOf(p)' = DmasOf(p)
        BY <1>2 DEF DmasOf
      <3> QED BY <1>5, <1>6, <1>7, <3>1 DEF IInv, DmaInv
    <2>6. \A j \in Jettys : read_response_dma'[j] = Cardinality(DmasAt(j)')
      <3>1. \A j \in Jettys : j # JettyOf[r] => DmasAt(j)' = DmasAt(j)
        BY <1>2 DEF DmasAt
      <3> QED BY <1>0, <1>2, <1>5, <3>1 DEF IInv, DmaInv
    <2> QED BY <2>1, <2>2, <2>3, <2>4, <2>5, <2>6 DEF DmaInv
  <1>21. CountInv'
    <2>1. ASSUME NEW p \in Requests, p # r
          PROVE  rma'[p] = rma[p] /\ Covered(p)' = Covered(p) /\ Settled(p)' = Settled(p)
      BY <1>7, <1>11, <1>12, <2>1
    <2>2. rma'[r].accepted_bytes = Cardinality(Covered(r)')
      BY <1>0, <1>1, <1>6, <1>7, <1>11 DEF IInv, CountInv
    <2> QED BY <1>6, <1>7, <1>15, <2>1, <2>2 DEF IInv, CountInv
  <1>22. PlaceInv'
    <2>1. ~q.failed => \A i \in Settled(r)' : local'[r][i] = i
      <3> SUFFICES ASSUME ~q.failed, NEW i \in Settled(r)' PROVE local'[r][i] = i
        OBVIOUS
      <3>1. ok /\ ~rma[r].failed
        BY <1>6
      <3>2. CASE i \in b .. (e - 1)
        BY <1>16, <3>1, <3>2
      <3>3. CASE i \in Settled(r)
        <4>1. local[r][i] = i
          BY <1>0, <1>1, <3>1, <3>3 DEF IInv, PlaceInv
        <4>2. i \in 0 .. (n - 1) /\ (i < b \/ e <= i)
          BY <1>13, <1>14, <3>3
        <4> QED BY <1>16, <4>1, <4>2
      <3> QED BY <1>13, <3>2, <3>3
    <2>2. ASSUME NEW p \in Requests, p # r
          PROVE  /\ rma'[p] = rma[p] /\ Covered(p)' = Covered(p) /\ Settled(p)' = Settled(p)
                 /\ local'[p] = local[p] /\ target'[p] = target[p]
      BY <1>2, <1>7, <1>11, <1>12, <1>16, <2>2
    <2> QED BY <1>6, <1>7, <2>1, <2>2 DEF IInv, PlaceInv
  <1>23. ServiceInv' /\ ReplyInv'
    <2>1. \A p \in Requests : rma'[p].byte_count = rma[p].byte_count /\ rma'[p].op = rma[p].op
      BY <1>1, <1>6, <1>7
    <2>2. /\ \A v \in services : v.req \in Requests
          /\ \A k \in replies : k.req \in Requests
      BY DEF IInv, TypeOK, Service, Reply
    <2> QED BY <1>2, <2>1, <2>2, ZenonT(30) DEF IInv, ServiceInv, ReplyInv
  <1>24. SuccessMeansTransferred'
    <2>1. ASSUME NEW p \in Requests, p # r, cqe'[p] = << 0 >>
          PROVE  \A i \in 0 .. (rma'[p].byte_count - 1) :
                    (IF rma'[p].op = "WRITE" THEN target'[p][i] ELSE local'[p][i]) = i
      <3>1. cqe[p] = << 0 >> /\ rma'[p] = rma[p] /\ local'[p] = local[p] /\ target' = target
        BY <1>0, <1>2, <1>7, <1>8, <1>16, <2>1
      <3> QED BY <3>1 DEF IInv, SuccessMeansTransferred
    <2>2. ASSUME cqe'[r] = << 0 >>
          PROVE  \A i \in 0 .. (n - 1) : local'[r][i] = i
      <3>1. ~q.failed /\ q.completed_bytes = n
        BY <1>0, <1>1, <1>8, <1>9, <2>2
      <3>2. Cardinality(Settled(r)') = n
        BY <1>15, <3>1
      <3>3. Settled(r)' = 0 .. (n - 1)
        BY <1>0, <1>14, <3>2, CountsAll
      <3> QED BY <1>0, <1>6, <1>7, <1>22, <3>1, <3>3 DEF PlaceInv
    <2> QED BY <1>6, <1>7, <2>1, <2>2 DEF SuccessMeansTransferred
  <1> QED BY <1>17, <1>18, <1>19, <1>20, <1>21, <1>22, <1>23, <1>24 DEF IInv

----------------------------------------------------------------------------
(* Theorems *)

\* Every step of the initiator, the target and the transport keeps the invariant.
LEMMA NextInv ==
    ASSUME IInv, [Next]_vars
    PROVE  IInv'
  <1>1. CASE UNCHANGED vars
    <2> USE <1>1 DEF vars
    <2>1. TypeOK' /\ LifeInv' /\ SuccessMeansTransferred'
      BY DEF IInv, TypeOK, LifeInv, Issued, SuccessMeansTransferred
    <2>2. RangeInv' /\ CountInv'
      BY ReservationsUnchanged DEF IInv
    <2>3. DmaInv' /\ ServiceInv' /\ ReplyInv'
      BY DEF IInv, DmaInv, DmasOf, DmasAt, ServiceInv, ReplyInv
    <2>4. PlaceInv'
      BY DEF IInv, PlaceInv, Covered, Settled, Flying
    <2> QED BY <2>1, <2>2, <2>3, <2>4 DEF IInv
  <1>2. ASSUME NEW r \in Requests, NEW op \in Ops, NEW n \in ByteCounts, Issue(r, op, n)
        PROVE  IInv'
    BY <1>2, IssueKeeps
  <1>3. ASSUME NEW r \in Requests, SendDone(r) \/ SendRefused(r)
        PROVE  IInv'
    BY <1>3, SendDoneKeeps, SendRefusedKeeps
  <1>4. ASSUME NEW m \in replies,
               ReceiveWriteAck(m) \/ ReceiveReadResponse(m) \/ ReceiveRmaError(m)
        PROVE  IInv'
    BY <1>4, ReceiveWriteAckKeeps, ReceiveReadResponseKeeps, ReceiveRmaErrorKeeps
  <1>5. ASSUME NEW d \in localDma, NEW ok \in BOOLEAN, ResponseWritten(d, ok)
        PROVE  IInv'
    BY <1>5, ResponseWrittenKeeps
  <1>6. ASSUME NEW r \in Requests, NEW s \in Segments, NEW c \in Copies, ReceiveRequest(r, s, c)
        PROVE  IInv'
    BY <1>6, ReceiveRequestKeeps
  <1>7. ASSUME NEW v \in services, NEW ok \in BOOLEAN, TargetDone(v, ok)
        PROVE  IInv'
    BY <1>7, TargetDoneKeeps
  <1>8. ASSUME NEW v \in services, ReplySent(v)
        PROVE  IInv'
    BY <1>8, ReplySentKeeps
  <1> QED BY <1>1, <1>2, <1>3, <1>4, <1>5, <1>6, <1>7, <1>8 DEF Next, InitiatorStep, TargetStep

\* The inductive invariant holds in every reachable state.
THEOREM Invariance == Spec => []IInv
  BY InitInv, NextInv, PTL DEF Spec

\* The byte counters of PendingRma never pass the length of the request, so the
\* unsigned subtractions of the receive handlers do not wrap.
THEOREM TypeCorrect == Spec => []TypeOK
  <1>1. IInv => TypeOK
    BY DEF IInv
  <1> QED BY <1>1, Invariance, PTL

\* A WRITE or READ reported successful has transferred every byte to its own
\* place, for any length, any segmentation and any repetition or reordering.
THEOREM TransferCorrect == Spec => []SuccessMeansTransferred
  <1>1. IInv => SuccessMeansTransferred
    BY DEF IInv
  <1> QED BY <1>1, Invariance, PTL

\* CompleteSq is called at most once for a request, and only while it is pending.
THEOREM CompletedOnce == Spec => []CompletesOnce
  <1>1. IInv => CompletesOnce
    <2>1. Len(<<>>) = 0 /\ Len(<< 0 >>) = 1 /\ Len(<< 1 >>) = 1 /\ Len(<< 5 >>) = 1
      OBVIOUS
    <2> SUFFICES ASSUME IInv, NEW r \in Requests
                 PROVE  Len(cqe[r]) <= 1 /\ ~(r \in pending /\ cqe[r] # <<>>)
      BY DEF CompletesOnce
    <2>2. cqe[r] \in {<<>>, << 0 >>, << 1 >>, << 5 >>} /\ (r \in pending => cqe[r] = <<>>)
      BY DEF IInv, LifeInv
    <2>3. CASE cqe[r] = <<>>
      BY <2>1, <2>3
    <2>4. CASE cqe[r] = << 0 >>
      <3>1. cqe[r] # <<>>
        BY <2>4
      <3> QED BY <2>1, <2>2, <2>4, <3>1
    <2>5. CASE cqe[r] = << 1 >>
      <3>1. cqe[r] # <<>>
        BY <2>5
      <3> QED BY <2>1, <2>2, <2>5, <3>1
    <2>6. CASE cqe[r] = << 5 >>
      <3>1. cqe[r] # <<>>
        BY <2>6
      <3> QED BY <2>1, <2>2, <2>6, <3>1
    <2> QED BY <2>2, <2>3, <2>4, <2>5, <2>6
  <1> QED BY <1>1, Invariance, PTL

\* A completion, successful or not, is reported only after the last response DMA
\* into the guest's buffer has ended.
THEOREM BufferReleased == Spec => []NoDmaAfterCompletion
  <1>1. IInv => NoDmaAfterCompletion
    BY DEF IInv, TypeOK, DmaInv, LifeInv, NoDmaAfterCompletion, LocalDma
  <1> QED BY <1>1, Invariance, PTL

\* Response DMAs in flight never share a byte, and the counters that keep the
\* request and its jetty alive are exact.
THEOREM DmaOwned == Spec => []ResponseDmaOwned
  <1>1. IInv => ResponseDmaOwned
    <2> SUFFICES ASSUME IInv PROVE ResponseDmaOwned
      OBVIOUS
    <2>1. ASSUME NEW d \in localDma, NEW e \in localDma, d # e, d.req = e.req
          PROVE  Bytes(d) \cap Bytes(e) = {}
      <3>1. /\ d.offset \in Nat /\ d.length \in Nat /\ e.offset \in Nat /\ e.length \in Nat
            /\ d.offset + d.length <= e.offset \/ e.offset + e.length <= d.offset
        BY <2>1 DEF IInv, TypeOK, DmaInv, LocalDma
      <3> QED BY <3>1 DEF Bytes
    <2>2. \A r \in pending : rma[r].response_dma = Cardinality({d \in localDma : d.req = r})
      BY DEF IInv, TypeOK, DmaInv, DmasOf
    <2>3. \A j \in Jettys : read_response_dma[j] = Cardinality({d \in localDma : JettyOf[d.req] = j})
      BY DEF IInv, DmaInv, DmasAt
    <2> QED BY <2>1, <2>2, <2>3 DEF ResponseDmaOwned
  <1> QED BY <1>1, Invariance, PTL
=============================================================================
