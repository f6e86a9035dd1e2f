--------------------------- MODULE TransportProofs ---------------------------
(***************************************************************************)
(* Proofs about what carries the data: the scheduler of priority-mux keeps *)
(* the bound on starvation that it promises; the mux implements its        *)
(* scheduler and delivers every message whole, once and in the order of    *)
(* its tier, for any number of tiers, messages and chunks; two pods that   *)
(* connect to each other end up with one session; and, for any number of   *)
(* sockets, connections, payloads, streams, appearances and calls, the     *)
(* state that the transports, the mesh manager, the keep-alive and the     *)
(* failover report is the truth, and what is closed stays closed.          *)
(***************************************************************************)
EXTENDS MCTransport, FiniteSetTheorems, SequenceTheorems, WellFoundedInduction, TLAPS

-----------------------------------------------------------------------------
(* The scheduler alone *)

(* The slot stays below the interval, and either wraps to 0 or advances.   *)
LEMMA SlotStep ==
  ASSUME NEW n \in 0..(GuardInterval - 1)
  PROVE  /\ NextSlot(n) \in 0..(GuardInterval - 1)
         /\ NextSlot(n) = 0 \/ NextSlot(n) = n + 1
<1>1. GuardInterval \in Nat /\ GuardInterval > 0
  BY SchedulerAssumption
<1>2. CASE n + 1 < GuardInterval
  <2>1. (n + 1) % GuardInterval = n + 1
    BY <1>1, <1>2
  <2> QED BY <1>1, <1>2, <2>1 DEF NextSlot
<1>3. CASE n + 1 = GuardInterval
  <2>1. GuardInterval % GuardInterval = 0
    BY <1>1
  <2> QED BY <1>1, <1>3, <2>1 DEF NextSlot
<1> QED BY <1>1, <1>2, <1>3

(* A guard slot serves the lowest tier whenever it has items. *)
LEMMA GuardServesLowest ==
  ASSUME LastTier \in Waiting
  PROVE  Pick(Waiting, TRUE) = LastTier
<1>1. \A u \in Waiting : u \in Nat /\ LastTier >= u
  BY SchedulerAssumption DEF Waiting, Tier
<1>2. \A t \in Waiting : (\A u \in Waiting : t >= u) => t = LastTier
  BY <1>1
<1>3. \E t \in Waiting : \A u \in Waiting : t >= u
  BY <1>1
<1>4. Pick(Waiting, TRUE) = CHOOSE t \in Waiting : \A u \in Waiting : t >= u
  BY DEF Pick
<1> QED BY <1>2, <1>3, <1>4

(* The inductive invariant: the wait is bounded by the slots since the     *)
(* last guard slot, and only a tier that has items waits.  Which tier a    *)
(* slot below the guard serves does not matter to it.                      *)
SchedulerInv ==
  /\ qlen \in [Tier -> Int]
  /\ slot \in 0..(GuardInterval - 1)
  /\ waited \in Nat
  /\ waited > 0 => qlen[LastTier] > 0
  /\ WaitWithinPeriod

(* It holds initially and after every enqueue() and dequeue(). *)
LEMMA SchedulerHolds == Spec => []SchedulerInv
<1> USE SchedulerAssumption
<1>t. LastTier \in Tier
  BY DEF Tier
<1>1. Init => SchedulerInv
  BY <1>t DEF Init, SchedulerInv, WaitWithinPeriod
<1>2. SchedulerInv /\ [Next]_vars => SchedulerInv'
  <2>1. SUFFICES ASSUME SchedulerInv, [Next]_vars PROVE SchedulerInv'
    OBVIOUS
  <2>2. ASSUME NEW t \in Tier, NEW k \in 1..MaxBatch, Enqueue(t, k) PROVE SchedulerInv'
    BY <1>t, <2>1, <2>2 DEF Enqueue, SchedulerInv, WaitWithinPeriod
  <2>3. CASE Dequeue
    <3>1. /\ slot' \in 0..(GuardInterval - 1)
          /\ slot' = 0 \/ slot' = slot + 1
      BY <2>1, <2>3, SlotStep DEF Dequeue, SchedulerInv
    <3>2. CASE Waiting = {}
      <4>1. UNCHANGED <<qlen, waited>>
        BY <2>3, <3>2 DEF Dequeue
      <4>2. ~ (qlen[LastTier] > 0)
        BY <1>t, <3>2 DEF Waiting
      <4> QED BY <1>t, <2>1, <3>1, <4>1, <4>2 DEF SchedulerInv, WaitWithinPeriod
    <3>3. CASE Waiting # {}
      <4>1. /\ served' = Pick(Waiting, slot' = 0)
            /\ qlen' = [qlen EXCEPT ![served'] = qlen[served'] - 1]
            /\ waited' = IF LastTier \in Waiting /\ served' # LastTier THEN waited + 1 ELSE 0
        BY <2>3, <3>3 DEF Dequeue
      <4>2. qlen' \in [Tier -> Int]
        <5>1. qlen \in [Tier -> Int]
          BY <2>1 DEF SchedulerInv
        <5>2. CASE served' \in Tier
          BY <4>1, <5>1, <5>2
        <5>3. CASE served' \notin Tier
          BY <4>1, <5>1, <5>3
        <5> QED BY <5>2, <5>3
      <4>3. waited' \in Nat /\ (waited' > 0 => qlen'[LastTier] > 0)
        BY <1>t, <2>1, <4>1 DEF SchedulerInv, Waiting
      <4>4. waited' <= slot'
        <5>1. CASE slot' = 0
          <6>1. LastTier \in Waiting => served' = LastTier
            BY <4>1, <5>1, GuardServesLowest
          <6> QED BY <4>1, <5>1, <6>1
        <5>2. CASE slot' = slot + 1
          BY <2>1, <3>1, <4>1, <5>2 DEF SchedulerInv, WaitWithinPeriod
        <5> QED BY <3>1, <5>1, <5>2
      <4> QED BY <3>1, <4>2, <4>3, <4>4 DEF SchedulerInv, WaitWithinPeriod
    <3> QED BY <3>2, <3>3
  <2>4. CASE UNCHANGED vars
    BY <2>1, <2>4 DEF vars, SchedulerInv, WaitWithinPeriod
  <2> QED BY <2>1, <2>2, <2>3, <2>4 DEF Next
<1> QED BY <1>1, <1>2, PTL DEF Spec

(* The bound the header of scheduler.mjs promises for the lowest tier: the *)
(* head of its queue is served within GuardInterval calls of dequeue().    *)
THEOREM StarvationBoundHolds == Spec => []StarvationBound
<1>1. SchedulerInv => StarvationBound
  BY SchedulerAssumption DEF SchedulerInv, WaitWithinPeriod, StarvationBound
<1> QED BY <1>1, SchedulerHolds, PTL

-----------------------------------------------------------------------------
(* The mux *)

MuxTier == 1..MuxTiers

(* The chunks in queues q and on wire f. *)
FlyingIn(q, f) ==
  {x \in Mux!Chunk : \/ \E i \in 1..Len(f) : f[i] = x
                     \/ \E t \in MuxTier : \E i \in 1..Len(q[t]) : q[t][i] = x}

Flying == FlyingIn(queues, frames)

Before(x, y) == x.m < y.m \/ (x.m = y.m /\ x.seq < y.seq)

MuxTypeOK ==
  /\ queues \in [MuxTier -> Seq(Mux!Chunk)]
  /\ frames \in Seq(Mux!Chunk)
  /\ sent \in Seq([tier : MuxTier, total : 1..MuxBatch]) /\ Len(sent) =< MaxMessages
  /\ pending \in [1..MaxMessages -> SUBSET (1..MuxBatch)]
  /\ delivered \in Seq(1..MaxMessages)
  /\ arrivals \in [1..MaxMessages -> [1..MuxBatch -> Nat]]
  /\ \A t \in MuxTier : Len(queues[t]) =< Len(sent) * MuxBatch

(* Queues q and wire f keep the chunks of a tier in the order in which they *)
(* were made from the messages s, those under way before those that wait.   *)
InOrder(q, f, s) ==
  /\ \A t \in MuxTier : \A i \in 1..Len(q[t]) : s[q[t][i].m].tier = t
  /\ \A t \in MuxTier : \A i, j \in 1..Len(q[t]) : i < j => Before(q[t][i], q[t][j])
  /\ \A i, j \in 1..Len(f) : i < j /\ s[f[i].m].tier = s[f[j].m].tier => Before(f[i], f[j])
  /\ \A i \in 1..Len(f) : \A t \in MuxTier : \A j \in 1..Len(q[t]) :
       s[f[i].m].tier = t => Before(f[i], q[t][j])

(* Of the messages s, with those in l damaged, with the chunks in fl to     *)
(* come for the first time, and with a[m][k] arrivals of chunk k of message *)
(* m so far: what came of a tier precedes what is to come of it, and one    *)
(* chunk of a damaged message never comes.                                  *)
Coming(fl, s, a, l) ==
  /\ \A x \in fl : x.m =< Len(s) /\ x.total = s[x.m].total /\ x.seq =< x.total
  /\ \A m \in 1..MaxMessages : \A k \in 1..MuxBatch : a[m][k] > 0 => m =< Len(s) /\ k =< s[m].total
  /\ \A x \in fl : \A m \in 1..MaxMessages : \A k \in 1..MuxBatch :
       a[m][k] > 0 /\ s[m].tier = s[x.m].tier => m < x.m \/ (m = x.m /\ k < x.seq)
  /\ \A m \in l : /\ m \in 1..Len(s)
                  /\ \E k \in 1..s[m].total : ~ (a[m][k] > 0) /\ \A x \in fl : x.m = m => x.seq # k

TimesIn(d, m) == Cardinality({i \in 1..Len(d) : d[i] = m})

(* With the deliveries d, and parts p pending: each delivery of a message,  *)
(* and what is pending of it, has used up an arrival of each of its chunks. *)
Counted(s, a, p, d) ==
  /\ \A m \in 1..MaxMessages : m > Len(s) => p[m] = {}
  /\ \A i \in 1..Len(d) : d[i] =< Len(s)
  /\ \A m \in 1..Len(s) : \A k \in 1..s[m].total :
       TimesIn(d, m) + (IF k \in p[m] THEN 1 ELSE 0) =< a[m][k]
  /\ \A i, j \in 1..Len(d) :
       i < j /\ s[d[i]].tier = s[d[j]].tier => d[i] < d[j] \/ \E k \in 1..MuxBatch : a[d[j]][k] > 1

MuxInv ==
  /\ MuxTypeOK
  /\ InOrder(queues, frames, sent)
  /\ Coming(Flying, sent, arrivals, lost)
  /\ Counted(sent, arrivals, pending, delivered)
  /\ peer = "closed" => \A m \in 1..MaxMessages : pending[m] = {}

-----------------------------------------------------------------------------
(* A non-empty set of tiers has a first and a last member, so that dequeue() *)
(* serves a tier that has chunks.                                            *)
LEMMA FirstNumber ==
  ASSUME NEW S \in SUBSET Nat, S # {}
  PROVE  \E x \in S : \A y \in S : x =< y
<1>1. PICK x \in S : \A y \in S : ~ (<<y, x>> \in OpToRel(<, Nat))
  BY WFMin, NatLessThanWellFounded, Zenon
<1>2. \A y \in S : ~ (y < x)
  BY <1>1 DEF OpToRel
<1> QED BY <1>2

LEMMA LastNumber ==
  ASSUME NEW n \in Nat, NEW S \in SUBSET (1..n), S # {}
  PROVE  \E x \in S : \A y \in S : x >= y
<1> DEFINE T == {n - y : y \in S}
<1>1. T \in SUBSET Nat /\ T # {}
  <2>1. \A y \in S : n - y \in Nat
    OBVIOUS
  <2>2. PICK y \in S : TRUE
    OBVIOUS
  <2> QED BY <2>1, <2>2
<1>2. PICK d \in T : \A y \in T : d =< y
  BY <1>1, FirstNumber
<1>3. PICK x \in S : d = n - x
  BY <1>2
<1>4. \A y \in S : n - x =< n - y
  BY <1>2, <1>3
<1> QED BY <1>3, <1>4

LEMMA PickServes ==
  ASSUME NEW S \in SUBSET MuxTier, S # {}, NEW guard \in BOOLEAN
  PROVE  Mux!Sched!Pick(S, guard) \in S
<1>1. \E t \in S : \A u \in S : IF guard THEN t >= u ELSE t =< u
  <2>1. MuxTiers \in Nat /\ S \in SUBSET (1..MuxTiers) /\ S \in SUBSET Nat
    BY MuxAssumption DEF MuxTier
  <2>2. CASE guard
    BY <2>1, <2>2, LastNumber
  <2>3. CASE ~ guard
    BY <2>1, <2>3, FirstNumber
  <2> QED BY <2>2, <2>3
<1> QED BY <1>1 DEF Mux!Sched!Pick

(* What dequeue() takes away. *)
Served(q, t) == [q EXCEPT ![t] = Tail(@)]

LEMMA Dequeues ==
  ASSUME MuxTypeOK, NEW t \in MuxTier, Mux!DequeueItem(t)
  PROVE  queues[t] # <<>> /\ queues' = Served(queues, t)
<1>1. Mux!NonEmpty \in SUBSET MuxTier /\ Mux!NonEmpty # {}
  BY DEF Mux!DequeueItem, Mux!NonEmpty, Mux!Tier, MuxTier
<1>2. t \in Mux!NonEmpty
  BY <1>1, PickServes DEF Mux!DequeueItem
<1> QED BY <1>2 DEF Mux!NonEmpty, Mux!DequeueItem, Served

LEMMA FlyingParts ==
  ASSUME NEW q \in [MuxTier -> Seq(Mux!Chunk)], NEW f \in Seq(Mux!Chunk)
  PROVE  /\ Len(f) \in Nat /\ \A i \in 1..Len(f) : f[i] \in FlyingIn(q, f)
         /\ \A t \in MuxTier : Len(q[t]) \in Nat
         /\ \A t \in MuxTier : \A i \in 1..Len(q[t]) : q[t][i] \in FlyingIn(q, f)
<1>1. Len(f) \in Nat /\ \A i \in 1..Len(f) : f[i] \in Mux!Chunk
  BY ElementOfSeq, LenProperties
<1>2. ASSUME NEW t \in MuxTier
      PROVE  Len(q[t]) \in Nat /\ \A i \in 1..Len(q[t]) : q[t][i] \in Mux!Chunk
  <2>1. q[t] \in Seq(Mux!Chunk)
    OBVIOUS
  <2> QED BY <2>1, ElementOfSeq, LenProperties
<1> QED BY <1>1, <1>2 DEF FlyingIn

(* Queue t has a head; r is q after that head was taken. *)
HasHead(q, t) == Len(q[t]) \in Nat \ {0} /\ Head(q[t]) = q[t][1] /\ q[t][1] \in Mux!Chunk
Shorter(q, t, r) == \A u \in MuxTier : Len(r[u]) = IF u = t THEN Len(q[u]) - 1 ELSE Len(q[u])
MovedUp(q, t, r) ==
  \A u \in MuxTier : \A i \in 1..Len(r[u]) :
    IF u = t THEN i + 1 \in 1..Len(q[u]) /\ r[u][i] = q[u][i + 1]
             ELSE i \in 1..Len(q[u]) /\ r[u][i] = q[u][i]

(* The head of a queue leaves it, for the wire or for good. *)
LEMMA TailOf ==
  ASSUME NEW q \in [MuxTier -> Seq(Mux!Chunk)], NEW t \in MuxTier, q[t] # <<>>,
         NEW r, r = Served(q, t)
  PROVE  r \in [MuxTier -> Seq(Mux!Chunk)] /\ HasHead(q, t) /\ Shorter(q, t, r) /\ MovedUp(q, t, r)
<1>1. q[t] \in Seq(Mux!Chunk)
  OBVIOUS
<1>2. /\ Len(q[t]) \in Nat \ {0} /\ Head(q[t]) = q[t][1] /\ q[t][1] \in Mux!Chunk
      /\ Tail(q[t]) \in Seq(Mux!Chunk) /\ Len(Tail(q[t])) = Len(q[t]) - 1
      /\ \A i \in 1..Len(Tail(q[t])) : Tail(q[t])[i] = q[t][i + 1]
  <2>1. Len(q[t]) \in Nat \ {0}
    BY <1>1, EmptySeq
  <2>2. q[t][1] \in Mux!Chunk
    BY <1>1, <2>1, ElementOfSeq
  <2>3. Head(q[t]) = q[t][1]
    BY <1>1, <2>1
  <2> QED BY <1>1, <2>1, <2>2, <2>3, HeadTailProperties
<1>3. \A u \in MuxTier : r[u] = IF u = t THEN Tail(q[t]) ELSE q[u]
  BY DEF Served
<1>4. r \in [MuxTier -> Seq(Mux!Chunk)]
  <2> DEFINE C == Seq(Mux!Chunk)
             w == Tail(q[t])
  <2>1. w \in C /\ q \in [MuxTier -> C] /\ r = [q EXCEPT ![t] = w]
    BY <1>2 DEF Served
  <2> HIDE DEF C, w
  <2>2. r \in [MuxTier -> C]
    BY <2>1
  <2> QED BY <2>2 DEF C
<1>5. \A u \in MuxTier : Len(r[u]) = IF u = t THEN Len(q[u]) - 1 ELSE Len(q[u])
  BY <1>2, <1>3
<1>6. ASSUME NEW u \in MuxTier, NEW i \in 1..Len(r[u])
      PROVE  IF u = t THEN i + 1 \in 1..Len(q[u]) /\ r[u][i] = q[u][i + 1]
                      ELSE i \in 1..Len(q[u]) /\ r[u][i] = q[u][i]
  <2>1. CASE u = t
    <3>1. r[u] = Tail(q[t]) /\ i \in 1..(Len(q[t]) - 1)
      BY <1>2, <1>3, <2>1
    <3> QED BY <1>2, <2>1, <3>1
  <2>2. CASE u # t
    BY <1>3, <2>2
  <2> QED BY <2>1, <2>2
<1>7. HasHead(q, t)
  BY <1>2 DEF HasHead
<1>8. Shorter(q, t, r)
  BY <1>5 DEF Shorter
<1>9. MovedUp(q, t, r)
  BY <1>6 DEF MovedUp
<1> QED BY <1>4, <1>7, <1>8, <1>9

LEMMA DequeueOrder ==
  ASSUME NEW q \in [MuxTier -> Seq(Mux!Chunk)], NEW f \in Seq(Mux!Chunk), NEW s, InOrder(q, f, s),
         NEW t \in MuxTier, q[t] # <<>>,
         NEW r, r = Served(q, t), NEW g \in {f, Append(f, Head(q[t]))}
  PROVE  /\ r \in [MuxTier -> Seq(Mux!Chunk)] /\ g \in Seq(Mux!Chunk)
         /\ InOrder(r, g, s) /\ FlyingIn(r, g) \subseteq FlyingIn(q, f)
<1>0. r \in [MuxTier -> Seq(Mux!Chunk)] /\ HasHead(q, t) /\ MovedUp(q, t, r)
  BY TailOf
<1>1. Len(q[t]) \in Nat \ {0} /\ Head(q[t]) = q[t][1] /\ q[t][1] \in Mux!Chunk
  BY <1>0 DEF HasHead
<1>2. Len(f) \in Nat /\ \A u \in MuxTier : Len(q[u]) \in Nat
  BY FlyingParts
<1>3. \A u \in MuxTier : \A i \in 1..Len(r[u]) : \E j \in 1..Len(q[u]) :
        r[u][i] = q[u][j] /\ j = IF u = t THEN i + 1 ELSE i
  BY <1>0 DEF MovedUp
<1>4. g \in Seq(Mux!Chunk)
  <2>1. CASE g = Append(f, Head(q[t]))
    <3>1. Head(q[t]) \in Mux!Chunk
      BY <1>1
    <3> QED BY <2>1, <3>1, AppendProperties
  <2> QED BY <2>1
<1>5. \/ g = f
      \/ /\ Len(g) = Len(f) + 1 /\ g[Len(f) + 1] = q[t][1]
         /\ \A i \in 1..Len(f) : g[i] = f[i]
  <2>1. CASE g = Append(f, Head(q[t]))
    <3>1. g = Append(f, q[t][1]) /\ q[t][1] \in Mux!Chunk
      BY <1>1, <2>1
    <3> QED BY <3>1, AppendProperties
  <2> QED BY <2>1
<1>6. \A i \in 1..Len(g) : \/ i \in 1..Len(f) /\ g[i] = f[i]
                           \/ i = Len(f) + 1 /\ g[i] = q[t][1]
  BY <1>2, <1>5
<1>7. 1 \in 1..Len(q[t]) /\ s[q[t][1].m].tier = t
  BY <1>1 DEF InOrder
<1>8. FlyingIn(r, g) \subseteq FlyingIn(q, f)
  <2> SUFFICES ASSUME NEW x \in FlyingIn(r, g) PROVE x \in FlyingIn(q, f)
    OBVIOUS
  <2>1. CASE \E i \in 1..Len(g) : g[i] = x
    BY <1>6, <1>7, <2>1 DEF FlyingIn
  <2>2. CASE \E u \in MuxTier : \E i \in 1..Len(r[u]) : r[u][i] = x
    <3>1. PICK u \in MuxTier : \E i \in 1..Len(r[u]) : r[u][i] = x
      BY <2>2
    <3>2. PICK i \in 1..Len(r[u]) : r[u][i] = x
      BY <3>1
    <3>3. \E j \in 1..Len(q[u]) : q[u][j] = x
      BY <1>3, <3>2
    <3> QED BY <3>3, FlyingParts
  <2> QED BY <2>1, <2>2 DEF FlyingIn
<1>9. \A u \in MuxTier : \A i \in 1..Len(r[u]) : s[r[u][i].m].tier = u
  <2>1. \A u \in MuxTier : \A j \in 1..Len(q[u]) : s[q[u][j].m].tier = u
    BY DEF InOrder
  <2>2. ASSUME NEW u \in MuxTier, NEW i \in 1..Len(r[u]) PROVE s[r[u][i].m].tier = u
    <3>1. PICK j \in 1..Len(q[u]) : r[u][i] = q[u][j]
      BY <1>3
    <3> QED BY <2>1, <3>1
  <2> QED BY <2>2
<1>10. \A u \in MuxTier : \A i, j \in 1..Len(r[u]) : i < j => Before(r[u][i], r[u][j])
  <2> SUFFICES ASSUME NEW u \in MuxTier, NEW i \in 1..Len(r[u]), NEW j \in 1..Len(r[u]), i < j
               PROVE  Before(r[u][i], r[u][j])
    OBVIOUS
  <2>1. PICK k \in 1..Len(q[u]) : r[u][i] = q[u][k] /\ k = IF u = t THEN i + 1 ELSE i
    BY <1>3
  <2>2. PICK l \in 1..Len(q[u]) : r[u][j] = q[u][l] /\ l = IF u = t THEN j + 1 ELSE j
    BY <1>3
  <2>3. k < l
    BY <2>1, <2>2, <1>1, <1>2
  <2> QED BY <2>1, <2>2, <2>3 DEF InOrder
<1>11. \A i, j \in 1..Len(g) : i < j /\ s[g[i].m].tier = s[g[j].m].tier => Before(g[i], g[j])
  BY <1>2, <1>6, <1>7 DEF InOrder
<1>12. \A i \in 1..Len(g) : \A u \in MuxTier : \A j \in 1..Len(r[u]) :
         s[g[i].m].tier = u => Before(g[i], r[u][j])
  <2> SUFFICES ASSUME NEW i \in 1..Len(g), NEW u \in MuxTier, NEW j \in 1..Len(r[u]), s[g[i].m].tier = u
               PROVE  Before(g[i], r[u][j])
    OBVIOUS
  <2>1. PICK k \in 1..Len(q[u]) : r[u][j] = q[u][k] /\ k = IF u = t THEN j + 1 ELSE j
    BY <1>3
  <2>2. CASE i \in 1..Len(f) /\ g[i] = f[i]
    <3>1. Before(f[i], q[u][k])
      BY <2>1, <2>2 DEF InOrder
    <3> QED BY <2>1, <2>2, <3>1
  <2>3. CASE g[i] = q[t][1]
    <3>1. u = t /\ 1 < k
      BY <1>1, <1>2, <1>7, <2>1, <2>3
    <3> QED BY <1>7, <2>1, <2>3, <3>1 DEF InOrder
  <2>4. (i \in 1..Len(f) /\ g[i] = f[i]) \/ g[i] = q[t][1]
    BY <1>6, Zenon
  <2> QED BY <2>2, <2>3, <2>4, Zenon
<1>13. InOrder(r, g, s)
  BY <1>9, <1>10, <1>11, <1>12, Zenon DEF InOrder
<1> QED BY <1>0, <1>4, <1>8, <1>13

LEMMA DequeueDrops ==
  ASSUME NEW q \in [MuxTier -> Seq(Mux!Chunk)], NEW f \in Seq(Mux!Chunk), NEW s, InOrder(q, f, s),
         NEW t \in MuxTier, q[t] # <<>>, NEW r, r = Served(q, t)
  PROVE  /\ r \in [MuxTier -> Seq(Mux!Chunk)]
         /\ InOrder(r, f, s) /\ FlyingIn(r, f) \subseteq FlyingIn(q, f)
<1>1. f \in {f, Append(f, Head(q[t]))}
  OBVIOUS
<1> QED BY <1>1, DequeueOrder

(* Chunks that leave and nothing else. *)
LEMMA FewerFlying ==
  ASSUME NEW fl, NEW gl, gl \subseteq fl, NEW s, NEW a, NEW l, Coming(fl, s, a, l)
  PROVE  Coming(gl, s, a, l)
BY DEF Coming

LEMMA ChunkFields ==
  ASSUME NEW x \in Mux!Chunk
  PROVE  /\ x.m \in 1..MaxMessages /\ x.seq \in 1..MuxBatch /\ x.total \in 1..MuxBatch
         /\ x.m \in Nat /\ x.seq \in Nat /\ x.total \in Nat
<1>1. x.m \in 1..MaxMessages /\ x.seq \in 1..MuxBatch /\ x.total \in 1..MuxBatch
  BY DEF Mux!Chunk
<1> QED BY <1>1, MuxAssumption

(* No chunk is queued or under way twice. *)
LEMMA HeadIsOnly ==
  ASSUME NEW q \in [MuxTier -> Seq(Mux!Chunk)], NEW f \in Seq(Mux!Chunk), NEW s, InOrder(q, f, s),
         NEW t \in MuxTier, q[t] # <<>>, NEW r, r = Served(q, t),
         NEW y \in FlyingIn(r, f), y.m = q[t][1].m
  PROVE  y.seq # q[t][1].seq
<1>0. HasHead(q, t) /\ MovedUp(q, t, r)
  BY TailOf
<1>1. /\ Len(q[t]) \in Nat \ {0} /\ q[t][1] \in Mux!Chunk
      /\ \A u \in MuxTier : \A i \in 1..Len(r[u]) :
           /\ IF u = t THEN i + 1 \in 1..Len(q[u]) /\ r[u][i] = q[u][i + 1]
                       ELSE i \in 1..Len(q[u]) /\ r[u][i] = q[u][i]
  BY <1>0 DEF HasHead, MovedUp
<1>2. q[t][1].m \in Nat /\ q[t][1].seq \in Nat /\ y.m \in Nat /\ y.seq \in Nat
  BY <1>1, ChunkFields DEF FlyingIn
<1>3. 1 \in 1..Len(q[t]) /\ s[q[t][1].m].tier = t
  BY <1>1 DEF InOrder
<1>4. CASE \E i \in 1..Len(f) : f[i] = y
  <2>1. PICK i \in 1..Len(f) : f[i] = y
    BY <1>4
  <2>2. Before(f[i], q[t][1])
    BY <1>3, <2>1 DEF InOrder
  <2> QED BY <1>2, <2>1, <2>2 DEF Before
<1>5. CASE \E u \in MuxTier : \E i \in 1..Len(r[u]) : r[u][i] = y
  <2>1. PICK u \in MuxTier : \E i \in 1..Len(r[u]) : r[u][i] = y
    BY <1>5
  <2>2. PICK i \in 1..Len(r[u]) : r[u][i] = y
    BY <2>1
  <2>3. PICK j \in 1..Len(q[u]) : y = q[u][j] /\ (u = t => 1 < j)
    <3>1. CASE u = t
      <4>1. i + 1 \in 1..Len(q[u]) /\ y = q[u][i + 1] /\ i \in Nat /\ i > 0
        BY <1>1, <2>2, <3>1
      <4> QED BY <4>1
    <3>2. CASE u # t
      BY <1>1, <2>2, <3>2
    <3> QED BY <3>1, <3>2
  <2>4. s[y.m].tier = u
    BY <2>3 DEF InOrder
  <2>5. u = t
    BY <1>3, <2>4
  <2>6. Before(q[t][1], y)
    BY <1>3, <2>3, <2>5 DEF InOrder
  <2> QED BY <1>2, <2>6 DEF Before
<1> QED BY <1>4, <1>5 DEF FlyingIn

(* An adapter that throws: the chunk is gone, and its message with it. *)
LEMMA ThrowComing ==
  ASSUME NEW q \in [MuxTier -> Seq(Mux!Chunk)], NEW f \in Seq(Mux!Chunk),
         NEW s, NEW a, NEW l, InOrder(q, f, s), Coming(FlyingIn(q, f), s, a, l),
         NEW t \in MuxTier, q[t] # <<>>, NEW r, r = Served(q, t), Len(s) \in Nat
  PROVE  Coming(FlyingIn(r, f), s, a, l \cup {Head(q[t]).m})
<1> DEFINE c == q[t][1]
<1>1. Len(q[t]) \in Nat \ {0} /\ Head(q[t]) = c /\ c \in Mux!Chunk
  BY TailOf DEF HasHead
<1>2. c \in FlyingIn(q, f)
  <2>1. 1 \in 1..Len(q[t])
    BY <1>1
  <2> QED BY <2>1, FlyingParts
<1>3. c.m \in 1..MaxMessages /\ c.seq \in 1..MuxBatch /\ c.m \in Nat /\ c.seq \in Nat
  BY <1>1, ChunkFields
<1>4. FlyingIn(r, f) \subseteq FlyingIn(q, f)
  BY DequeueDrops
<1>5. Coming(FlyingIn(r, f), s, a, l)
  BY <1>4, FewerFlying
<1>6. \A x \in FlyingIn(r, f) : x.m = c.m => x.seq # c.seq
  BY HeadIsOnly DEF c
<1> HIDE DEF c
<1>7. c.m \in 1..Len(s) /\ s[c.m].total = c.total /\ c.seq =< c.total /\ ~ (a[c.m][c.seq] > 0)
  <2>1. c.m \in 1..Len(s) /\ s[c.m].total = c.total /\ c.seq =< c.total
    BY <1>2, <1>3 DEF Coming
  <2>2. a[c.m][c.seq] > 0 => c.m < c.m \/ c.seq < c.seq
    BY <1>2, <1>3 DEF Coming
  <2> QED BY <1>3, <2>1, <2>2
<1>8. c.seq \in 1..s[c.m].total
  <2>1. c.total \in Nat
    BY <1>1, ChunkFields
  <2> QED BY <1>3, <1>7, <2>1
<1> DEFINE gl == FlyingIn(r, f)
<1>9. Coming(gl, s, a, l)
  BY <1>5
<1>10. \A x \in gl : x.m = c.m => x.seq # c.seq
  BY <1>6
<1> HIDE DEF gl
<1>11. \E k \in 1..s[c.m].total : ~ (a[c.m][k] > 0) /\ \A x \in gl : x.m = c.m => x.seq # k
  BY <1>7, <1>8, <1>10
<1>12. Coming(gl, s, a, l \cup {c.m})
  <2>1. \A m \in l : /\ m \in 1..Len(s)
                    /\ \E k \in 1..s[m].total : ~ (a[m][k] > 0) /\ \A x \in gl : x.m = m => x.seq # k
    BY <1>9, Zenon DEF Coming
  <2>2. \A m \in l \cup {c.m} :
          /\ m \in 1..Len(s)
          /\ \E k \in 1..s[m].total : ~ (a[m][k] > 0) /\ \A x \in gl : x.m = m => x.seq # k
    BY <1>7, <1>11, <2>1, Zenon
  <2> QED BY <1>9, <2>2, Zenon DEF Coming
<1> QED BY <1>1, <1>12 DEF gl

(* How often a message was delivered. *)
LEMMA TimesOf ==
  ASSUME NEW d \in Seq(1..MaxMessages), NEW m
  PROVE  /\ TimesIn(d, m) \in Nat
         /\ \A i \in 1..Len(d) : d[i] = m => TimesIn(d, m) >= 1
         /\ (\A i \in 1..Len(d) : d[i] # m) => TimesIn(d, m) = 0
<1> DEFINE S == {i \in 1..Len(d) : d[i] = m}
<1>1. Len(d) \in Nat
  BY LenProperties
<1>2. IsFiniteSet(S)
  <2>1. IsFiniteSet(1..Len(d))
    BY <1>1, FS_Interval
  <2> QED BY <2>1, FS_Subset
<1>3. Cardinality(S) \in Nat /\ (Cardinality(S) = 0 <=> S = {})
  BY <1>2, FS_CardinalityType, FS_EmptySet
<1>4. \A i \in 1..Len(d) : d[i] = m => S # {}
  OBVIOUS
<1>5. (\A i \in 1..Len(d) : d[i] # m) => S = {}
  OBVIOUS
<1>6. TimesIn(d, m) = Cardinality(S)
  BY DEF TimesIn
<1> HIDE DEF S
<1> QED BY <1>3, <1>4, <1>5, <1>6

LEMMA TimesGrow ==
  ASSUME NEW d \in Seq(1..MaxMessages), NEW c \in 1..MaxMessages, NEW m
  PROVE  TimesIn(Append(d, c), m) = TimesIn(d, m) + (IF m = c THEN 1 ELSE 0)
<1> DEFINE S == {i \in 1..Len(d) : d[i] = m}
           e == Append(d, c)
           T == {i \in 1..Len(e) : e[i] = m}
           n == Len(d) + 1
<1>1. /\ Len(d) \in Nat /\ Len(e) = n /\ \A i \in 1..Len(d) : e[i] = d[i] /\ e[n] = c
      /\ e[n] = c
  BY LenProperties, AppendProperties
<1>2. IsFiniteSet(S) /\ n \notin S
  <2>1. IsFiniteSet(1..Len(d))
    BY <1>1, FS_Interval
  <2> QED BY <1>1, <2>1, FS_Subset
<1>3. \A i \in 1..n : i \in 1..Len(d) \/ i = n
  BY <1>1
<1> HIDE DEF e, n
<1>4. CASE m = c
  <2>1. n \in 1..Len(e)
    BY <1>1 DEF n
  <2>2. \A i : i \in 1..Len(d) => i \in 1..Len(e)
    BY <1>1 DEF n
  <2>3. T = S \cup {n}
    BY <1>1, <1>3, <1>4, <2>1, <2>2
  <2>4. Cardinality(S \cup {n}) = Cardinality(S) + 1
    BY <1>2, FS_AddElement
  <2>5. TimesIn(Append(d, c), m) = Cardinality(T) /\ TimesIn(d, m) = Cardinality(S)
    BY DEF TimesIn, e
  <2> HIDE DEF S, T
  <2> QED BY <1>4, <2>3, <2>4, <2>5
<1>5. CASE m # c
  <2>2. \A i : i \in 1..Len(d) => i \in 1..Len(e)
    BY <1>1 DEF n
  <2>3. T = S
    BY <1>1, <1>3, <1>5, <2>2
  <2>4. Cardinality(S) \in Nat
    BY <1>2, FS_CardinalityType
  <2>5. TimesIn(Append(d, c), m) = Cardinality(T) /\ TimesIn(d, m) = Cardinality(S)
    BY DEF TimesIn, e
  <2> HIDE DEF S, T
  <2> QED BY <1>5, <2>3, <2>4, <2>5
<1> QED BY <1>4, <1>5

(* The head of the wire precedes everything else of its tier. *)
LEMMA WireHead ==
  ASSUME NEW q \in [MuxTier -> Seq(Mux!Chunk)], NEW f \in Seq(Mux!Chunk), f # <<>>,
         NEW s, InOrder(q, f, s)
  PROVE  /\ Head(f) = f[1] /\ f[1] \in FlyingIn(q, f) /\ f[1] \in Mux!Chunk
         /\ Tail(f) \in Seq(Mux!Chunk)
         /\ InOrder(q, Tail(f), s)
         /\ FlyingIn(q, Tail(f)) \subseteq FlyingIn(q, f)
         /\ \A y \in FlyingIn(q, Tail(f)) : s[y.m].tier = s[f[1].m].tier => Before(f[1], y)
<1>1. /\ Len(f) \in Nat \ {0} /\ Head(f) = f[1]
      /\ Tail(f) \in Seq(Mux!Chunk) /\ Len(Tail(f)) = Len(f) - 1
      /\ \A i \in 1..Len(Tail(f)) : Tail(f)[i] = f[i + 1]
  <2>1. Len(f) \in Nat \ {0}
    BY EmptySeq
  <2>2. Head(f) = f[1]
    BY <2>1
  <2> QED BY <2>1, <2>2, HeadTailProperties
<1>2. f[1] \in FlyingIn(q, f) /\ f[1] \in Mux!Chunk
  BY <1>1, FlyingParts, ElementOfSeq
<1> DEFINE g == Tail(f)
<1>3. Len(g) = Len(f) - 1 /\ \A i \in 1..Len(g) : i + 1 \in 1..Len(f) /\ g[i] = f[i + 1]
  BY <1>1
<1> HIDE DEF g
<1>4. InOrder(q, g, s)
  <2>1. /\ \A t \in MuxTier : \A i \in 1..Len(q[t]) : s[q[t][i].m].tier = t
        /\ \A t \in MuxTier : \A i, j \in 1..Len(q[t]) : i < j => Before(q[t][i], q[t][j])
    BY DEF InOrder
  <2>2. ASSUME NEW i \in 1..Len(g), NEW j \in 1..Len(g), i < j, s[g[i].m].tier = s[g[j].m].tier
        PROVE  Before(g[i], g[j])
    <3>1. i + 1 \in 1..Len(f) /\ j + 1 \in 1..Len(f) /\ i + 1 < j + 1 /\ g[i] = f[i + 1] /\ g[j] = f[j + 1]
      BY <1>1, <1>3, <2>2
    <3> QED BY <2>2, <3>1 DEF InOrder
  <2>3. ASSUME NEW i \in 1..Len(g), NEW t \in MuxTier, NEW j \in 1..Len(q[t]), s[g[i].m].tier = t
        PROVE  Before(g[i], q[t][j])
    BY <1>3, <2>3 DEF InOrder
  <2> QED BY <2>1, <2>2, <2>3 DEF InOrder
<1>5. FlyingIn(q, g) \subseteq FlyingIn(q, f)
  BY <1>3 DEF FlyingIn
<1>6. ASSUME NEW y \in FlyingIn(q, g), s[y.m].tier = s[f[1].m].tier PROVE Before(f[1], y)
  <2>1. CASE \E i \in 1..Len(g) : g[i] = y
    BY <1>1, <1>3, <1>6, <2>1 DEF InOrder
  <2>2. CASE \E u \in MuxTier : \E i \in 1..Len(q[u]) : q[u][i] = y
    <3>1. PICK u \in MuxTier : \E i \in 1..Len(q[u]) : q[u][i] = y
      BY <2>2
    <3>2. s[y.m].tier = u /\ 1 \in 1..Len(f)
      BY <1>1, <3>1 DEF InOrder
    <3> QED BY <1>6, <3>1, <3>2 DEF InOrder
  <2> QED BY <2>1, <2>2 DEF FlyingIn
<1> QED BY <1>1, <1>2, <1>4, <1>5, <1>6 DEF g

PutAt(p, m, w) == [p EXCEPT ![m] = w]

Precedes(c, gl, s) == \A y \in gl : s[y.m].tier = s[c.m].tier => Before(c, y)

(* The messages s, and what came, is pending and was delivered of them.     *)
MuxTyped(s, a, p, d) ==
  /\ Len(s) \in Nat /\ Len(s) =< MaxMessages
  /\ \A m \in 1..Len(s) : s[m].total \in 1..MuxBatch
  /\ a \in [1..MaxMessages -> [1..MuxBatch -> Nat]]
  /\ p \in [1..MaxMessages -> SUBSET (1..MuxBatch)] /\ d \in Seq(1..MaxMessages)

(* One more arrival of chunk k of message m. *)
OneMore(a, m, k) == [a EXCEPT ![m][k] = @ + 1]

LEMMA Arrivals ==
  ASSUME NEW s, NEW a, NEW p, NEW d, MuxTyped(s, a, p, d), NEW m \in 1..MaxMessages, NEW k \in 1..MuxBatch
  PROVE  /\ OneMore(a, m, k) \in [1..MaxMessages -> [1..MuxBatch -> Nat]]
         /\ \A n \in 1..MaxMessages : \A j \in 1..MuxBatch :
              /\ OneMore(a, m, k)[n][j] = (IF n = m /\ j = k THEN a[n][j] + 1 ELSE a[n][j])
              /\ a[n][j] \in Nat /\ OneMore(a, m, k)[n][j] \in Nat
<1> DEFINE w == [a[m] EXCEPT ![k] = a[m][k] + 1]
           F == [1..MuxBatch -> Nat]
<1>0. a \in [1..MaxMessages -> F]
  BY DEF MuxTyped
<1>1. a[m] \in F /\ \A n \in 1..MaxMessages : a[n] \in F
  BY <1>0
<1>2. w \in F /\ \A j \in 1..MuxBatch : w[j] = IF j = k THEN a[m][j] + 1 ELSE a[m][j]
  <2> DEFINE g == a[m]
  <2>1. g \in [1..MuxBatch -> Nat] /\ w = [g EXCEPT ![k] = g[k] + 1]
    BY <1>1
  <2> HIDE DEF g, w
  <2>2. w \in [1..MuxBatch -> Nat] /\ \A j \in 1..MuxBatch : w[j] = IF j = k THEN g[j] + 1 ELSE g[j]
    BY <2>1
  <2> QED BY <2>2 DEF g
<1>3. OneMore(a, m, k) = [a EXCEPT ![m] = w]
  BY <1>0 DEF OneMore
<1>4. ASSUME NEW n \in 1..MaxMessages, NEW j \in 1..MuxBatch PROVE a[n][j] \in Nat
  <2>1. a[n] \in F
    BY <1>1
  <2> QED BY <2>1
<1> HIDE DEF w, F
<1>5. OneMore(a, m, k) \in [1..MaxMessages -> F]
  BY <1>0, <1>2, <1>3
<1>6. \A n \in 1..MaxMessages : OneMore(a, m, k)[n] = IF n = m THEN w ELSE a[n]
  BY <1>0, <1>3
<1>7. \A n \in 1..MaxMessages : \A j \in 1..MuxBatch :
        OneMore(a, m, k)[n][j] = IF n = m /\ j = k THEN a[n][j] + 1 ELSE a[n][j]
  BY <1>2, <1>6
<1> QED BY <1>4, <1>5, <1>7 DEF F

(* Chunk c of fl comes in and leaves gl to come. *)
LEMMA FirstArrival ==
  ASSUME NEW s, NEW a, NEW p, NEW d, NEW l, MuxTyped(s, a, p, d),
         NEW fl, fl \in SUBSET Mux!Chunk, NEW gl \in SUBSET fl, NEW c \in fl,
         Coming(fl, s, a, l), Precedes(c, gl, s)
  PROVE  Coming(gl, s, OneMore(a, c.m, c.seq), l)
<1> DEFINE b == OneMore(a, c.m, c.seq)
<1>1. c.m \in 1..MaxMessages /\ c.seq \in 1..MuxBatch /\ c.m \in Nat /\ c.seq \in Nat
  BY ChunkFields
<1>2. \A m \in 1..MaxMessages : \A k \in 1..MuxBatch :
        a[m][k] \in Nat /\ b[m][k] = IF m = c.m /\ k = c.seq THEN a[m][k] + 1 ELSE a[m][k]
  BY <1>1, Arrivals
<1> HIDE DEF b
<1>3. \A m \in 1..MaxMessages : \A k \in 1..MuxBatch : b[m][k] > 0 => a[m][k] > 0 \/ (m = c.m /\ k = c.seq)
  BY <1>2
<1>4. c.m =< Len(s) /\ c.seq =< s[c.m].total
  BY DEF Coming
<1>5. ASSUME NEW m \in 1..MaxMessages, NEW k \in 1..MuxBatch, b[m][k] > 0
      PROVE  m =< Len(s) /\ k =< s[m].total
  BY <1>3, <1>4, <1>5 DEF Coming
<1>6. ASSUME NEW x \in gl, NEW m \in 1..MaxMessages, NEW k \in 1..MuxBatch, b[m][k] > 0, s[m].tier = s[x.m].tier
      PROVE  m < x.m \/ (m = x.m /\ k < x.seq)
  <2>1. CASE a[m][k] > 0
    BY <1>6, <2>1 DEF Coming
  <2>2. CASE m = c.m /\ k = c.seq
    BY <1>6, <2>2 DEF Precedes, Before
  <2> QED BY <1>3, <1>6, <2>1, <2>2
<1>7. ASSUME NEW m \in l
      PROVE  m \in 1..Len(s) /\ \E k \in 1..s[m].total : ~ (b[m][k] > 0) /\ \A x \in gl : x.m = m => x.seq # k
  <2>1. m \in 1..Len(s)
    BY DEF Coming
  <2>2. PICK k \in 1..s[m].total : ~ (a[m][k] > 0) /\ \A x \in fl : x.m = m => x.seq # k
    BY DEF Coming
  <2>3. m \in 1..MaxMessages /\ k \in 1..MuxBatch
    BY <2>1, MuxAssumption DEF MuxTyped
  <2>4. ~ (b[m][k] > 0)
    BY <1>3, <2>2, <2>3
  <2> QED BY <2>1, <2>2, <2>4
<1>8. \A x \in gl : x.m =< Len(s) /\ x.total = s[x.m].total /\ x.seq =< x.total
  BY DEF Coming
<1>9. Coming(gl, s, b, l)
  BY <1>5, <1>6, <1>7, <1>8, Zenon DEF Coming
<1> QED BY <1>9 DEF b

(* A chunk that came before comes again. *)
LEMMA LaterArrival ==
  ASSUME NEW s, NEW a, NEW p, NEW d, NEW l, MuxTyped(s, a, p, d), NEW fl, Coming(fl, s, a, l),
         NEW m \in 1..MaxMessages, NEW k \in 1..MuxBatch, a[m][k] > 0
  PROVE  Coming(fl, s, OneMore(a, m, k), l)
<1> DEFINE b == OneMore(a, m, k)
<1>1. \A n \in 1..MaxMessages : \A j \in 1..MuxBatch : b[n][j] > 0 <=> a[n][j] > 0
  <2>1. \A n \in 1..MaxMessages : \A j \in 1..MuxBatch :
          a[n][j] \in Nat /\ b[n][j] = IF n = m /\ j = k THEN a[n][j] + 1 ELSE a[n][j]
    BY Arrivals
  <2> HIDE DEF b
  <2> QED BY <2>1
<1> HIDE DEF b
<1>2. ASSUME NEW n \in l
      PROVE  n \in 1..Len(s) /\ \E j \in 1..s[n].total : ~ (b[n][j] > 0) /\ \A x \in fl : x.m = n => x.seq # j
  <2>1. n \in 1..Len(s)
    BY DEF Coming
  <2>2. PICK j \in 1..s[n].total : ~ (a[n][j] > 0) /\ \A x \in fl : x.m = n => x.seq # j
    BY DEF Coming
  <2>3. n \in 1..MaxMessages /\ j \in 1..MuxBatch
    BY <2>1, MuxAssumption DEF MuxTyped
  <2> QED BY <1>1, <2>1, <2>2, <2>3
<1>3. Coming(fl, s, b, l)
  BY <1>1, <1>2 DEF Coming
<1> QED BY <1>3 DEF b

(* Whatever was delivered came as a whole, and so precedes what is to come  *)
(* of its tier.                                                             *)
LEMMA DeliveredCame ==
  ASSUME NEW s, NEW a, NEW p, NEW d, MuxTyped(s, a, p, d), Counted(s, a, p, d), NEW i \in 1..Len(d)
  PROVE  /\ d[i] \in 1..Len(s) /\ d[i] \in 1..MaxMessages
         /\ \A k \in 1..s[d[i]].total : k \in 1..MuxBatch /\ a[d[i]][k] > 0
<1>1. d[i] \in 1..MaxMessages /\ d[i] \in 1..Len(s)
  <2>1. d \in Seq(1..MaxMessages) /\ d[i] =< Len(s) /\ Len(s) \in Nat
    BY DEF MuxTyped, Counted
  <2>2. d[i] \in 1..MaxMessages
    BY <2>1, ElementOfSeq
  <2> QED BY <2>1, <2>2
<1>2. ASSUME NEW k \in 1..s[d[i]].total PROVE k \in 1..MuxBatch /\ a[d[i]][k] > 0
  <2>1. k \in 1..MuxBatch
    <3>1. s[d[i]].total \in 1..MuxBatch
      BY <1>1 DEF MuxTyped
    <3> QED BY <3>1, MuxAssumption
  <2>2. TimesIn(d, d[i]) \in Nat /\ TimesIn(d, d[i]) >= 1
    BY TimesOf DEF MuxTyped
  <2>3. TimesIn(d, d[i]) + (IF k \in p[d[i]] THEN 1 ELSE 0) =< a[d[i]][k] /\ a[d[i]][k] \in Nat
    BY <1>1, <2>1 DEF Counted, MuxTyped
  <2> QED BY <2>1, <2>2, <2>3
<1> QED BY <1>1, <1>2

LEMMA DeliveredBefore ==
  ASSUME NEW s, NEW a, NEW p, NEW d, NEW l, MuxTyped(s, a, p, d), Counted(s, a, p, d),
         NEW fl, fl \in SUBSET Mux!Chunk, Coming(fl, s, a, l),
         NEW i \in 1..Len(d), NEW x \in fl, s[x.m].tier = s[d[i]].tier
  PROVE  d[i] < x.m
<1>1. /\ d[i] \in 1..Len(s) /\ d[i] \in 1..MaxMessages
      /\ \A k \in 1..s[d[i]].total : k \in 1..MuxBatch /\ a[d[i]][k] > 0
  BY DeliveredCame
<1>2. x.m \in Nat /\ x.seq \in Nat /\ x.seq \in 1..MuxBatch /\ x.total = s[x.m].total /\ x.seq =< x.total /\ x.total \in Nat
  BY ChunkFields DEF Coming
<1>3. ASSUME NEW k \in 1..s[d[i]].total PROVE d[i] < x.m \/ (d[i] = x.m /\ k < x.seq)
  BY <1>1 DEF Coming
<1>4. s[d[i]].total \in 1..MuxBatch
  BY <1>1 DEF MuxTyped
<1>5. 1 \in 1..s[d[i]].total
  BY <1>4, MuxAssumption
<1>6. SUFFICES ASSUME d[i] = x.m PROVE FALSE
  BY <1>3, <1>5
<1>7. x.seq \in 1..s[d[i]].total
  BY <1>2, <1>6
<1>8. x.seq < x.seq
  BY <1>2, <1>3, <1>6, <1>7
<1> QED BY <1>2, <1>8

(* A chunk that leaves no message complete is recorded. *)
LEMMA Collected ==
  ASSUME NEW s, NEW a, NEW p, NEW d, MuxTyped(s, a, p, d), Counted(s, a, p, d),
         NEW m \in 1..Len(s), NEW k \in 1..MuxBatch, NEW b, b = OneMore(a, m, k),
         NEW r, r = PutAt(p, m, p[m] \cup {k})
  PROVE  MuxTyped(s, b, r, d) /\ Counted(s, b, r, d)
<1>1. m \in 1..MaxMessages
  BY MuxAssumption DEF MuxTyped
<1>2. /\ b \in [1..MaxMessages -> [1..MuxBatch -> Nat]]
      /\ \A n \in 1..MaxMessages : \A j \in 1..MuxBatch :
           b[n][j] = (IF n = m /\ j = k THEN a[n][j] + 1 ELSE a[n][j]) /\ a[n][j] \in Nat /\ b[n][j] \in Nat
  <2>1. /\ OneMore(a, m, k) \in [1..MaxMessages -> [1..MuxBatch -> Nat]]
        /\ \A n \in 1..MaxMessages : \A j \in 1..MuxBatch :
             /\ OneMore(a, m, k)[n][j] = (IF n = m /\ j = k THEN a[n][j] + 1 ELSE a[n][j])
             /\ a[n][j] \in Nat /\ OneMore(a, m, k)[n][j] \in Nat
    BY <1>1, Arrivals
  <2> QED BY <2>1
<1>3. /\ r \in [1..MaxMessages -> SUBSET (1..MuxBatch)]
      /\ \A n \in 1..MaxMessages : r[n] = IF n = m THEN p[n] \cup {k} ELSE p[n]
  BY <1>1 DEF PutAt, MuxTyped
<1>4. MuxTyped(s, b, r, d)
  BY <1>2, <1>3 DEF MuxTyped
<1>5. ASSUME NEW n \in 1..Len(s), NEW j \in 1..s[n].total
      PROVE  TimesIn(d, n) + (IF j \in r[n] THEN 1 ELSE 0) =< b[n][j]
  <2>1. n \in 1..MaxMessages /\ j \in 1..MuxBatch
    BY MuxAssumption DEF MuxTyped
  <2>2. TimesIn(d, n) + (IF j \in p[n] THEN 1 ELSE 0) =< a[n][j] /\ TimesIn(d, n) \in Nat
    BY TimesOf DEF Counted, MuxTyped
  <2>3. a[n][j] \in Nat /\ b[n][j] = IF n = m /\ j = k THEN a[n][j] + 1 ELSE a[n][j]
    BY <1>2, <2>1
  <2>4. j \in r[n] => j \in p[n] \/ (n = m /\ j = k)
    BY <1>3, <2>1
  <2> QED BY <2>2, <2>3, <2>4
<1>6. \A n \in 1..MaxMessages : n > Len(s) => r[n] = {}
  <2> SUFFICES ASSUME NEW n \in 1..MaxMessages, n > Len(s) PROVE r[n] = {}
    OBVIOUS
  <2>1. n # m
    BY DEF MuxTyped
  <2> QED BY <1>3, <2>1 DEF Counted
<1>7. ASSUME NEW i \in 1..Len(d), NEW j \in 1..Len(d), i < j, s[d[i]].tier = s[d[j]].tier
      PROVE  d[i] < d[j] \/ \E n \in 1..MuxBatch : b[d[j]][n] > 1
  <2>1. d[j] \in 1..MaxMessages
    BY ElementOfSeq DEF MuxTyped
  <2>2. CASE d[i] < d[j]
    BY <2>2
  <2>3. CASE \E n \in 1..MuxBatch : a[d[j]][n] > 1
    <3>1. PICK n \in 1..MuxBatch : a[d[j]][n] > 1
      BY <2>3
    <3>2. b[d[j]][n] > 1
      <4>1. /\ a[d[j]][n] \in Nat
            /\ b[d[j]][n] = a[d[j]][n] \/ b[d[j]][n] = a[d[j]][n] + 1
        BY <1>2, <2>1
      <4> QED BY <3>1, <4>1
    <3> QED BY <3>2
  <2> QED BY <1>7, <2>2, <2>3 DEF Counted
<1>8. \A i \in 1..Len(d) : d[i] =< Len(s)
  BY DEF Counted
<1> QED BY <1>4, <1>5, <1>6, <1>7, <1>8 DEF Counted

(* A chunk that completes its message uses up what is pending of it. *)
LEMMA Completed ==
  ASSUME NEW s, NEW a, NEW p, NEW d, MuxTyped(s, a, p, d), Counted(s, a, p, d),
         NEW m \in 1..Len(s), NEW k \in 1..MuxBatch, p[m] \cup {k} = 1..s[m].total,
         a[m][k] > 0 \/ \A i \in 1..Len(d) : s[d[i]].tier = s[m].tier => d[i] < m,
         NEW b, b = OneMore(a, m, k), NEW r, r = PutAt(p, m, {}), NEW e, e = Append(d, m)
  PROVE  MuxTyped(s, b, r, e) /\ Counted(s, b, r, e)
<1>1. m \in 1..MaxMessages /\ m \in Nat
  BY MuxAssumption DEF MuxTyped
<1>2. /\ b \in [1..MaxMessages -> [1..MuxBatch -> Nat]]
      /\ \A n \in 1..MaxMessages : \A j \in 1..MuxBatch :
           b[n][j] = (IF n = m /\ j = k THEN a[n][j] + 1 ELSE a[n][j]) /\ a[n][j] \in Nat /\ b[n][j] \in Nat
  <2>1. /\ OneMore(a, m, k) \in [1..MaxMessages -> [1..MuxBatch -> Nat]]
        /\ \A n \in 1..MaxMessages : \A j \in 1..MuxBatch :
             /\ OneMore(a, m, k)[n][j] = (IF n = m /\ j = k THEN a[n][j] + 1 ELSE a[n][j])
             /\ a[n][j] \in Nat /\ OneMore(a, m, k)[n][j] \in Nat
    BY <1>1, Arrivals
  <2> QED BY <2>1
<1>3. /\ r \in [1..MaxMessages -> SUBSET (1..MuxBatch)]
      /\ \A n \in 1..MaxMessages : r[n] = IF n = m THEN {} ELSE p[n]
  BY <1>1 DEF PutAt, MuxTyped
<1>4. /\ Len(d) \in Nat /\ e \in Seq(1..MaxMessages) /\ Len(e) = Len(d) + 1 /\ e[Len(d) + 1] = m
      /\ \A i \in 1..Len(d) : e[i] = d[i]
  BY <1>1, AppendProperties, LenProperties DEF MuxTyped
<1>5. \A i \in 1..Len(e) : i \in 1..Len(d) \/ i = Len(d) + 1
  BY <1>4
<1>6. MuxTyped(s, b, r, e)
  BY <1>2, <1>3, <1>4 DEF MuxTyped
<1>7. ASSUME NEW n \in 1..Len(s), NEW j \in 1..s[n].total
      PROVE  TimesIn(e, n) + (IF j \in r[n] THEN 1 ELSE 0) =< b[n][j]
  <2>1. n \in 1..MaxMessages /\ j \in 1..MuxBatch
    <3>1. s[n].total \in 1..MuxBatch /\ Len(s) =< MaxMessages /\ Len(s) \in Nat
      BY DEF MuxTyped
    <3> QED BY <3>1, MuxAssumption
  <2>2. TimesIn(d, n) + (IF j \in p[n] THEN 1 ELSE 0) =< a[n][j] /\ TimesIn(d, n) \in Nat
    BY TimesOf DEF Counted, MuxTyped
  <2>3. a[n][j] \in Nat /\ b[n][j] = IF n = m /\ j = k THEN a[n][j] + 1 ELSE a[n][j]
    BY <1>2, <2>1
  <2>4. TimesIn(e, n) = TimesIn(d, n) + (IF n = m THEN 1 ELSE 0)
    BY <1>1, TimesGrow DEF MuxTyped
  <2>5. CASE n = m
    <3>1. j \notin r[n] /\ (j \in p[n] \/ j = k)
      BY <1>3, <2>1, <2>5
    <3> QED BY <2>2, <2>3, <2>4, <2>5, <3>1
  <2>6. CASE n # m
    <3>1. r[n] = p[n]
      BY <1>3, <2>1, <2>6
    <3> QED BY <2>2, <2>3, <2>4, <2>6, <3>1
  <2> QED BY <2>5, <2>6
<1>8. \A n \in 1..MaxMessages : n > Len(s) => r[n] = {}
  BY <1>3 DEF Counted
<1>9. ASSUME NEW i \in 1..Len(e), NEW j \in 1..Len(e), i < j, s[e[i]].tier = s[e[j]].tier
      PROVE  e[i] < e[j] \/ \E n \in 1..MuxBatch : b[e[j]][n] > 1
  <2>1. i \in 1..Len(d) /\ e[i] = d[i]
    BY <1>4, <1>5, <1>9
  <2>2. CASE j \in 1..Len(d)
    <3>1. e[j] = d[j] /\ d[j] \in 1..MaxMessages
      BY <1>4, <2>2, ElementOfSeq DEF MuxTyped
    <3>2. CASE \E n \in 1..MuxBatch : a[d[j]][n] > 1
      <4>1. PICK n \in 1..MuxBatch : a[d[j]][n] > 1
        BY <3>2
      <4>2. b[d[j]][n] > 1
        <5>1. /\ a[d[j]][n] \in Nat
              /\ b[d[j]][n] = a[d[j]][n] \/ b[d[j]][n] = a[d[j]][n] + 1
          BY <1>2, <3>1
        <5> QED BY <4>1, <5>1
      <4> QED BY <3>1, <4>2
    <3> QED BY <1>9, <2>1, <2>2, <3>1, <3>2 DEF Counted
  <2>3. CASE j = Len(d) + 1
    <3>1. e[j] = m
      BY <1>4, <2>3
    <3>2. CASE a[m][k] > 0
      <4>1. b[m][k] > 1
        BY <1>1, <1>2, <3>2
      <4> QED BY <3>1, <4>1
    <3> QED BY <1>9, <2>1, <3>1, <3>2
  <2> QED BY <1>5, <2>2, <2>3
<1>10. \A i \in 1..Len(e) : e[i] =< Len(s)
  BY <1>4, <1>5 DEF Counted
<1> QED BY <1>6, <1>7, <1>8, <1>9, <1>10 DEF Counted

(* close() and the close event drop what is pending. *)
LEMMA Dropped ==
  ASSUME NEW s, NEW a, NEW p, NEW d, MuxTyped(s, a, p, d), Counted(s, a, p, d),
         NEW r, r = [m \in 1..MaxMessages |-> {}]
  PROVE  MuxTyped(s, a, r, d) /\ Counted(s, a, r, d)
<1>1. r \in [1..MaxMessages -> SUBSET (1..MuxBatch)] /\ \A m \in 1..MaxMessages : r[m] = {}
  OBVIOUS
<1>2. ASSUME NEW m \in 1..Len(s), NEW k \in 1..s[m].total
      PROVE  TimesIn(d, m) + (IF k \in r[m] THEN 1 ELSE 0) =< a[m][k]
  <2>1. m \in 1..MaxMessages /\ k \in 1..MuxBatch
    BY MuxAssumption DEF MuxTyped
  <2>2. /\ TimesIn(d, m) + (IF k \in p[m] THEN 1 ELSE 0) =< a[m][k] /\ TimesIn(d, m) \in Nat
        /\ a[m][k] \in Nat
    BY <2>1, TimesOf DEF Counted, MuxTyped
  <2> QED BY <1>1, <2>1, <2>2
<1> QED BY <1>1, <1>2 DEF MuxTyped, Counted

(* send() puts the n chunks of message m behind those of its tier t. *)
Grown(q, r, t, m, n) ==
  /\ \A u \in MuxTier : Len(r[u]) = IF u = t THEN Len(q[u]) + n ELSE Len(q[u])
  /\ \A u \in MuxTier : \A i \in 1..Len(r[u]) :
       IF i =< Len(q[u]) THEN r[u][i] = q[u][i]
       ELSE u = t /\ r[u][i].m = m /\ r[u][i].total = n /\ r[u][i].seq = i - Len(q[u])

LEMMA ChunksOf ==
  ASSUME NEW m \in 1..MaxMessages, NEW n \in 1..MuxBatch
  PROVE  /\ Mux!Chunks(m, n) \in Seq(Mux!Chunk) /\ Len(Mux!Chunks(m, n)) = n
         /\ \A i \in 1..n : Mux!Chunks(m, n)[i] = [m |-> m, seq |-> i, total |-> n]
<1> DEFINE C == Mux!Chunk
           g == [i \in 1..n |-> [m |-> m, seq |-> i, total |-> n]]
<1>1. n \in Nat
  BY MuxAssumption
<1>2. \A i \in 1..n : [m |-> m, seq |-> i, total |-> n] \in C
  BY MuxAssumption DEF Mux!Chunk
<1>3. g \in [1..n -> C] /\ DOMAIN g = 1..n
  BY <1>2
<1>4. g \in Seq(C) /\ Len(g) = n
  <2> HIDE DEF C, g
  <2>1. g \in Seq(C)
    BY <1>1, <1>3
  <2> QED BY <1>1, <1>3, <2>1, LenProperties
<1>5. Mux!Chunks(m, n) = g
  BY DEF Mux!Chunks
<1> QED BY <1>4, <1>5

LEMMA SentGrows ==
  ASSUME NEW q \in [MuxTier -> Seq(Mux!Chunk)], NEW t \in MuxTier,
         NEW m \in 1..MaxMessages, NEW n \in 1..MuxBatch,
         NEW r, r = PutAt(q, t, q[t] \o Mux!Chunks(m, n))
  PROVE  r \in [MuxTier -> Seq(Mux!Chunk)] /\ Grown(q, r, t, m, n)
<1> DEFINE cs == Mux!Chunks(m, n)
           w == q[t] \o cs
           C == Seq(Mux!Chunk)
<1>1. cs \in C /\ Len(cs) = n /\ \A i \in 1..n : cs[i] = [m |-> m, seq |-> i, total |-> n]
  BY ChunksOf
<1>2. q \in [MuxTier -> C] /\ r = [q EXCEPT ![t] = w]
  BY DEF PutAt
<1> HIDE DEF cs
<1>3. \A u \in MuxTier : q[u] \in Seq(Mux!Chunk) /\ Len(q[u]) \in Nat
  BY FlyingParts, EmptySeq
<1>4. /\ w \in C /\ Len(w) = Len(q[t]) + n
      /\ \A i \in 1..(Len(q[t]) + n) : w[i] = IF i =< Len(q[t]) THEN q[t][i] ELSE cs[i - Len(q[t])]
  <2>1. q[t] \in Seq(Mux!Chunk) /\ cs \in Seq(Mux!Chunk)
    BY <1>1
  <2>2. /\ q[t] \o cs \in Seq(Mux!Chunk) /\ Len(q[t] \o cs) = Len(q[t]) + Len(cs)
        /\ \A i \in 1..Len(q[t]) + Len(cs) :
             (q[t] \o cs)[i] = IF i <= Len(q[t]) THEN q[t][i] ELSE cs[i - Len(q[t])]
    BY <2>1, ConcatProperties, Zenon
  <2> QED BY <1>1, <2>2
<1> HIDE DEF C, w
<1>5. r \in [MuxTier -> C] /\ \A u \in MuxTier : r[u] = IF u = t THEN w ELSE q[u]
  BY <1>2, <1>4
<1>6. \A u \in MuxTier : Len(r[u]) = IF u = t THEN Len(q[u]) + n ELSE Len(q[u])
  BY <1>4, <1>5
<1>7. ASSUME NEW u \in MuxTier, NEW i \in 1..Len(r[u])
      PROVE  IF i =< Len(q[u]) THEN r[u][i] = q[u][i]
             ELSE u = t /\ r[u][i].m = m /\ r[u][i].total = n /\ r[u][i].seq = i - Len(q[u])
  <2>1. CASE u # t
    BY <1>3, <1>5, <2>1
  <2>2. CASE u = t /\ i =< Len(q[t])
    BY <1>4, <1>5, <1>6, <2>2
  <2>3. CASE u = t /\ ~ (i =< Len(q[t]))
    <3>1. i - Len(q[t]) \in 1..n /\ i \in 1..(Len(q[t]) + n)
      BY <1>3, <1>6, <2>3, MuxAssumption
    <3>2. r[u][i] = cs[i - Len(q[t])]
      BY <1>4, <1>5, <2>3, <3>1
    <3>3. r[u][i] = [m |-> m, seq |-> i - Len(q[t]), total |-> n]
      BY <1>1, <3>1, <3>2
    <3> QED BY <2>3, <3>3
  <2> QED BY <2>1, <2>2, <2>3
<1> QED BY <1>5, <1>6, <1>7 DEF Grown, C

(* Message m is the newest of z, which has the others from s. *)
Newest(fl, m, s, z) == \A x \in fl : x.m < m /\ z[x.m] = s[x.m]

(* Seen from the other chunks, the new ones come last. *)
LEMMA SentOrder ==
  ASSUME NEW q \in [MuxTier -> Seq(Mux!Chunk)], NEW f \in Seq(Mux!Chunk), NEW s, NEW z,
         NEW t \in MuxTier, NEW m \in Nat, NEW n \in Nat, NEW r, Grown(q, r, t, m, n),
         InOrder(q, f, s), z[m].tier = t,
         Newest(FlyingIn(q, f), m, s, z)
  PROVE  InOrder(r, f, z)
<1>1. /\ Len(f) \in Nat /\ \A i \in 1..Len(f) : f[i].m < m /\ z[f[i].m] = s[f[i].m]
      /\ \A u \in MuxTier : Len(q[u]) \in Nat
      /\ \A u \in MuxTier : \A i \in 1..Len(q[u]) : q[u][i].m < m /\ z[q[u][i].m] = s[q[u][i].m]
  BY FlyingParts DEF Newest
<1>2. ASSUME NEW u \in MuxTier, NEW i \in 1..Len(r[u])
      PROVE  \/ i \in 1..Len(q[u]) /\ r[u][i] = q[u][i]
             \/ i > Len(q[u]) /\ u = t /\ r[u][i].m = m /\ r[u][i].seq = i - Len(q[u])
  <2>1. Len(q[u]) \in Nat /\ i \in Int /\ i >= 1
    BY <1>1
  <2>2. IF i =< Len(q[u]) THEN r[u][i] = q[u][i]
        ELSE u = t /\ r[u][i].m = m /\ r[u][i].total = n /\ r[u][i].seq = i - Len(q[u])
    BY DEF Grown
  <2> QED BY <2>1, <2>2
<1>3. ASSUME NEW u \in MuxTier, NEW i \in 1..Len(r[u]) PROVE z[r[u][i].m].tier = u
  <2>1. CASE i \in 1..Len(q[u]) /\ r[u][i] = q[u][i]
    <3>1. s[q[u][i].m].tier = u
      BY <2>1 DEF InOrder
    <3> QED BY <1>1, <2>1, <3>1
  <2> QED BY <1>2, <2>1
<1>4. ASSUME NEW u \in MuxTier, NEW i \in 1..Len(r[u]), NEW j \in 1..Len(r[u]), i < j
      PROVE  Before(r[u][i], r[u][j])
  <2>0. i \in Int /\ j \in Int /\ Len(q[u]) \in Nat
    BY <1>1
  <2>1. CASE j \in 1..Len(q[u]) /\ r[u][j] = q[u][j]
    <3>1. i \in 1..Len(q[u])
      BY <1>4, <2>0, <2>1
    <3>2. ~ (i > Len(q[u]))
      BY <2>0, <3>1
    <3>3. r[u][i] = q[u][i]
      BY <1>2, <3>2
    <3> QED BY <1>4, <2>1, <3>1, <3>3 DEF InOrder
  <2>2. CASE j > Len(q[u]) /\ u = t /\ r[u][j].m = m /\ r[u][j].seq = j - Len(q[u])
    <3>1. CASE i \in 1..Len(q[u]) /\ r[u][i] = q[u][i]
      <4>1. r[u][i].m < r[u][j].m
        BY <1>1, <2>2, <3>1
      <4> QED BY <4>1 DEF Before
    <3>2. CASE r[u][i].m = m /\ r[u][i].seq = i - Len(q[u])
      <4>1. i - Len(q[u]) < j - Len(q[u])
        BY <1>4, <2>0
      <4> QED BY <2>2, <3>2, <4>1 DEF Before
    <3> QED BY <1>2, <3>1, <3>2
  <2> QED BY <1>2, <2>1, <2>2
<1>5. \A i, j \in 1..Len(f) : i < j /\ z[f[i].m].tier = z[f[j].m].tier => Before(f[i], f[j])
  BY <1>1 DEF InOrder
<1>6. ASSUME NEW i \in 1..Len(f), NEW u \in MuxTier, NEW j \in 1..Len(r[u]), z[f[i].m].tier = u
      PROVE  Before(f[i], r[u][j])
  <2>1. CASE j \in 1..Len(q[u]) /\ r[u][j] = q[u][j]
    <3>1. s[f[i].m].tier = u
      BY <1>1, <1>6
    <3> QED BY <2>1, <3>1 DEF InOrder
  <2>2. CASE r[u][j].m = m
    <3>1. f[i].m < r[u][j].m
      BY <1>1, <2>2
    <3> QED BY <3>1 DEF Before
  <2> QED BY <1>2, <2>1, <2>2
<1> QED BY <1>3, <1>4, <1>5, <1>6 DEF InOrder

LEMMA SentFlying ==
  ASSUME NEW q \in [MuxTier -> Seq(Mux!Chunk)], NEW f \in Seq(Mux!Chunk),
         NEW t \in MuxTier, NEW m \in Nat, NEW n \in Nat, NEW r, Grown(q, r, t, m, n),
         NEW x \in FlyingIn(r, f)
  PROVE  x \in FlyingIn(q, f) \/ (x.m = m /\ x.total = n /\ x.seq =< n)
<1>0. x \in Mux!Chunk
  BY DEF FlyingIn
<1>1. CASE \E i \in 1..Len(f) : f[i] = x
  BY <1>0, <1>1 DEF FlyingIn
<1>2. CASE \E u \in MuxTier : \E i \in 1..Len(r[u]) : r[u][i] = x
  <2>1. PICK u \in MuxTier : \E i \in 1..Len(r[u]) : r[u][i] = x
    BY <1>2
  <2>2. PICK i \in 1..Len(r[u]) : r[u][i] = x
    BY <2>1
  <2>3. Len(q[u]) \in Nat /\ i \in Int /\ i >= 1
    BY FlyingParts
  <2>4. Len(r[u]) = IF u = t THEN Len(q[u]) + n ELSE Len(q[u])
    BY DEF Grown
  <2>5. IF i =< Len(q[u]) THEN r[u][i] = q[u][i]
        ELSE u = t /\ r[u][i].m = m /\ r[u][i].total = n /\ r[u][i].seq = i - Len(q[u])
    BY DEF Grown
  <2>6. CASE i =< Len(q[u])
    <3>1. i \in 1..Len(q[u]) /\ q[u][i] = x
      BY <2>2, <2>3, <2>5, <2>6
    <3> QED BY <1>0, <3>1 DEF FlyingIn
  <2>7. CASE ~ (i =< Len(q[u]))
    BY <2>2, <2>3, <2>4, <2>5, <2>7
  <2> QED BY <2>6, <2>7
<1> QED BY <1>1, <1>2 DEF FlyingIn

Sends(fl, gl, s, z, m, n) ==
  /\ Len(s) \in Nat /\ m \in 1..MaxMessages /\ m = Len(s) + 1 /\ Len(z) = m /\ n \in 1..MuxBatch
  /\ \A i \in 1..Len(s) : z[i] = s[i]
  /\ z[m].total = n
  /\ \A x \in fl : x.m \in 1..MaxMessages
  /\ \A x \in gl : x \in fl \/ (x.m = m /\ x.total = n /\ x.seq =< n)

LEMMA SentComing ==
  ASSUME NEW fl, NEW gl, NEW s, NEW z, NEW a, NEW l, Coming(fl, s, a, l),
         NEW m, NEW n, Sends(fl, gl, s, z, m, n)
  PROVE  Coming(gl, z, a, l)
<1> USE DEF Sends
<1>1. \A x \in fl : x.m \in 1..Len(s) /\ z[x.m] = s[x.m]
  <2>1. \A x \in fl : x.m =< Len(s)
    BY DEF Coming
  <2> QED BY <2>1, MuxAssumption
<1>2. m > Len(s) /\ m \in Nat
  OBVIOUS
<1>3. ASSUME NEW k \in 1..MaxMessages, NEW j \in 1..MuxBatch, a[k][j] > 0
      PROVE  k \in 1..Len(s) /\ z[k] = s[k] /\ k =< Len(z) /\ j =< z[k].total /\ k < m
  <2>1. k =< Len(s) /\ j =< s[k].total
    BY <1>3 DEF Coming
  <2> QED BY <1>2, <2>1
<1>4. ASSUME NEW x \in gl PROVE x.m =< Len(z) /\ x.total = z[x.m].total /\ x.seq =< x.total
  <2>1. CASE x \in fl
    <3>1. x.m =< Len(s) /\ x.total = s[x.m].total /\ x.seq =< x.total
      BY <2>1 DEF Coming
    <3>2. z[x.m] = s[x.m] /\ x.m \in Int
      BY <1>1, <2>1
    <3> QED BY <1>2, <3>1, <3>2
  <2>2. CASE x.m = m /\ x.total = n /\ x.seq =< n
    BY <2>2
  <2> QED BY <2>1, <2>2
<1>5. ASSUME NEW x \in gl, NEW k \in 1..MaxMessages, NEW j \in 1..MuxBatch, a[k][j] > 0, z[k].tier = z[x.m].tier
      PROVE  k < x.m \/ (k = x.m /\ j < x.seq)
  <2>1. CASE x \in fl
    <3>1. s[k].tier = s[x.m].tier
      BY <1>1, <1>3, <1>5, <2>1
    <3> QED BY <1>5, <2>1, <3>1 DEF Coming
  <2>2. CASE x.m = m
    BY <1>3, <1>5, <2>2
  <2> QED BY <2>1, <2>2
<1>6. ASSUME NEW k \in l
      PROVE  k \in 1..Len(z) /\ \E j \in 1..z[k].total : ~ (a[k][j] > 0) /\ \A x \in gl : x.m = k => x.seq # j
  <2>1. k \in 1..Len(s)
    BY DEF Coming
  <2>2. PICK j \in 1..s[k].total : ~ (a[k][j] > 0) /\ \A x \in fl : x.m = k => x.seq # j
    BY DEF Coming
  <2>3. z[k] = s[k] /\ k # m /\ k \in 1..Len(z)
    BY <2>1
  <2>4. \A x \in gl : x.m = k => x \in fl
    BY <2>3
  <2> QED BY <2>1, <2>2, <2>3, <2>4
<1> QED BY <1>3, <1>4, <1>5, <1>6 DEF Coming

LEMMA SentCounted ==
  ASSUME NEW fl, NEW gl, NEW s, NEW z, NEW a, NEW p, NEW d, NEW l,
         MuxTyped(s, a, p, d), Counted(s, a, p, d), Coming(fl, s, a, l),
         NEW m, NEW n, Sends(fl, gl, s, z, m, n)
  PROVE  Counted(z, a, p, d)
<1> USE DEF Sends
<1>1. m > Len(s) /\ m \in Nat /\ Len(s) \in Nat
  OBVIOUS
<1>2. ASSUME NEW i \in 1..Len(d) PROVE d[i] \in 1..Len(s) /\ z[d[i]] = s[d[i]] /\ d[i] =< Len(z) /\ d[i] # m
  <2>1. d[i] \in 1..MaxMessages /\ d[i] =< Len(s)
    BY ElementOfSeq DEF Counted, MuxTyped
  <2> QED BY <1>1, <2>1
<1>3. p[m] = {} /\ \A k \in 1..MaxMessages : k > Len(z) => p[k] = {}
  <2>1. \A k \in 1..MaxMessages : k > Len(z) => k > Len(s)
    BY <1>1
  <2> QED BY <1>1, <2>1 DEF Counted
<1>4. ASSUME NEW k \in 1..Len(z), NEW j \in 1..z[k].total
      PROVE  TimesIn(d, k) + (IF j \in p[k] THEN 1 ELSE 0) =< a[k][j]
  <2>1. CASE k \in 1..Len(s)
    BY <2>1 DEF Counted
  <2>2. CASE k = m
    <3>1. TimesIn(d, k) = 0
      BY <1>2, <2>2, TimesOf DEF MuxTyped
    <3>2. j \notin p[k]
      BY <1>3, <2>2
    <3>3. a[k][j] \in Nat
      <4>1. j \in 1..MuxBatch
        BY <2>2, MuxAssumption
      <4>2. k \in 1..MaxMessages
        BY <2>2
      <4>3. a[k] \in [1..MuxBatch -> Nat]
        BY <4>2 DEF MuxTyped
      <4> QED BY <4>1, <4>3
    <3> QED BY <3>1, <3>2, <3>3
  <2> QED BY <1>1, <2>1, <2>2
<1>5. ASSUME NEW i \in 1..Len(d), NEW j \in 1..Len(d), i < j, z[d[i]].tier = z[d[j]].tier
      PROVE  d[i] < d[j] \/ \E k \in 1..MuxBatch : a[d[j]][k] > 1
  <2>1. s[d[i]].tier = s[d[j]].tier
    BY <1>2, <1>5
  <2> QED BY <1>5, <2>1 DEF Counted
<1> QED BY <1>2, <1>3, <1>4, <1>5 DEF Counted

-----------------------------------------------------------------------------
LEMMA MuxInitially == Mux!Init => MuxInv
<1> SUFFICES ASSUME Mux!Init PROVE MuxInv
  OBVIOUS
<1>1. /\ queues = [t \in MuxTier |-> <<>>] /\ frames = <<>> /\ sent = <<>> /\ delivered = <<>> /\ lost = {}
      /\ pending = [m \in 1..MaxMessages |-> {}] /\ peer = "open"
      /\ arrivals = [m \in 1..MaxMessages |-> [seq \in 1..MuxBatch |-> 0]]
  BY DEF Mux!Init, Mux!Tier, MuxTier
<1>2. \A t \in MuxTier : queues[t] = <<>> /\ Len(queues[t]) = 0
  BY <1>1
<1>3. Len(frames) = 0 /\ Len(sent) = 0 /\ Len(delivered) = 0
  BY <1>1
<1>4. Flying = {}
  BY <1>2, <1>3 DEF Flying, FlyingIn
<1>5. MuxTypeOK
  <2>1. queues \in [MuxTier -> Seq(Mux!Chunk)]
    BY <1>1, EmptySeq
  <2>2. frames \in Seq(Mux!Chunk) /\ delivered \in Seq(1..MaxMessages)
    BY <1>1, EmptySeq
  <2>3. sent \in Seq([tier : MuxTier, total : 1..MuxBatch])
    BY <1>1, EmptySeq
  <2>4. pending \in [1..MaxMessages -> SUBSET (1..MuxBatch)]
    BY <1>1
  <2>5. Len(sent) * MuxBatch = 0 /\ Len(sent) =< MaxMessages
    BY <1>3, MuxAssumption
  <2>6. arrivals \in [1..MaxMessages -> [1..MuxBatch -> Nat]]
    BY <1>1
  <2> QED BY <1>2, <2>1, <2>2, <2>3, <2>4, <2>5, <2>6 DEF MuxTypeOK
<1>6. InOrder(queues, frames, sent)
  BY <1>2, <1>3 DEF InOrder
<1>7. Coming(Flying, sent, arrivals, lost)
  BY <1>1, <1>4 DEF Coming
<1>8. Counted(sent, arrivals, pending, delivered)
  BY <1>1, <1>3 DEF Counted
<1> QED BY <1>1, <1>5, <1>6, <1>7, <1>8 DEF MuxInv

LEMMA MuxHasTypes == MuxInv => MuxTyped(sent, arrivals, pending, delivered)
<1> SUFFICES ASSUME MuxInv PROVE MuxTyped(sent, arrivals, pending, delivered)
  OBVIOUS
<1>1. sent \in Seq([tier : MuxTier, total : 1..MuxBatch]) /\ Len(sent) \in Nat
  BY LenProperties DEF MuxInv, MuxTypeOK
<1>2. ASSUME NEW m \in 1..Len(sent) PROVE sent[m].total \in 1..MuxBatch
  <2>1. sent[m] \in [tier : MuxTier, total : 1..MuxBatch]
    BY <1>1, ElementOfSeq
  <2> QED BY <2>1
<1> QED BY <1>1, <1>2 DEF MuxInv, MuxTypeOK, MuxTyped

(* The steps of the sending mux. *)
LEMMA SenderKeeps ==
  ASSUME MuxInv, Mux!DrainTick \/ Mux!SenderClose \/ Mux!SenderHandleClose
  PROVE  MuxInv'
<1>1. /\ queues \in [MuxTier -> Seq(Mux!Chunk)] /\ frames \in Seq(Mux!Chunk)
      /\ sent \in Seq([tier : MuxTier, total : 1..MuxBatch])
      /\ pending \in [1..MaxMessages -> SUBSET (1..MuxBatch)]
      /\ delivered \in Seq(1..MaxMessages) /\ Len(sent) \in Nat
      /\ InOrder(queues, frames, sent)
      /\ Coming(FlyingIn(queues, frames), sent, arrivals, lost)
      /\ Counted(sent, arrivals, pending, delivered)
  BY LenProperties DEF MuxInv, MuxTypeOK, Flying
<1>2. ASSUME UNCHANGED <<queues, sent, lost, frames, peer, pending, delivered, arrivals>> PROVE MuxInv'
  BY <1>2 DEF MuxInv, MuxTypeOK, Flying
<1>3. ASSUME NEW t \in MuxTier, Mux!DequeueItem(t),
             UNCHANGED <<sent, peer, pending, delivered, arrivals>>,
             InOrder(queues', frames', sent), queues' \in [MuxTier -> Seq(Mux!Chunk)],
             frames' \in Seq(Mux!Chunk),
             Coming(FlyingIn(queues', frames'), sent, arrivals, lost')
      PROVE  MuxInv'
  <2>1. queues[t] # <<>> /\ queues' = Served(queues, t)
    BY <1>3, Dequeues DEF MuxInv
  <2>2. \A u \in MuxTier : Len(queues'[u]) = IF u = t THEN Len(queues[u]) - 1 ELSE Len(queues[u])
    <3>1. Shorter(queues, t, queues')
      BY <1>1, <2>1, TailOf
    <3> QED BY <3>1 DEF Shorter
  <2>3. \A u \in MuxTier : Len(queues[u]) \in Nat /\ Len(queues[u]) =< Len(sent) * MuxBatch
    BY <1>1, FlyingParts DEF MuxInv, MuxTypeOK
  <2>4. Len(sent) * MuxBatch \in Nat
    BY <1>1, MuxAssumption
  <2>5. \A u \in MuxTier : Len(queues'[u]) =< Len(sent) * MuxBatch
    BY <2>2, <2>3, <2>4
  <2>6. MuxTypeOK'
    BY <1>3, <2>5 DEF MuxTypeOK, MuxInv
  <2> QED BY <1>1, <1>3, <2>6 DEF MuxInv, Flying
<1>4. CASE Mux!DrainStops
  BY <1>2, <1>4 DEF Mux!DrainStops, Mux!DequeueNothing, Mux!sched, Mux!receiver
<1>5. CASE Mux!DrainSends
  <2>1. PICK t \in MuxTier : Mux!DequeueItem(t) /\ frames' = Append(frames, Head(queues[t]))
    BY <1>5 DEF Mux!DrainSends, Mux!Tier, MuxTier
  <2>2. UNCHANGED <<sent, peer, pending, delivered, arrivals>> /\ lost' = lost
    BY <1>5 DEF Mux!DrainSends, Mux!receiver
  <2>3. queues[t] # <<>> /\ queues' = Served(queues, t)
    BY <2>1, Dequeues DEF MuxInv
  <2>4. frames' \in {frames, Append(frames, Head(queues[t]))}
    BY <2>1
  <2>5. /\ queues' \in [MuxTier -> Seq(Mux!Chunk)] /\ frames' \in Seq(Mux!Chunk)
        /\ InOrder(queues', frames', sent)
        /\ FlyingIn(queues', frames') \subseteq FlyingIn(queues, frames)
    BY <1>1, <2>3, <2>4, DequeueOrder
  <2>6. Coming(FlyingIn(queues', frames'), sent, arrivals, lost)
    BY <1>1, <2>5, FewerFlying
  <2> QED BY <1>3, <2>1, <2>2, <2>5, <2>6
<1>6. CASE Mux!DrainThrows
  <2>1. PICK t \in MuxTier : Mux!DequeueItem(t) /\ lost' = lost \cup {Head(queues[t]).m}
    BY <1>6 DEF Mux!DrainThrows, Mux!Tier, MuxTier
  <2>2. UNCHANGED <<sent, peer, pending, delivered, arrivals>> /\ frames' = frames
    BY <1>6 DEF Mux!DrainThrows, Mux!receiver
  <2>3. queues[t] # <<>> /\ queues' = Served(queues, t)
    BY <2>1, Dequeues DEF MuxInv
  <2>4. /\ queues' \in [MuxTier -> Seq(Mux!Chunk)]
        /\ InOrder(queues', frames, sent)
    BY <1>1, <2>3, DequeueDrops
  <2>5. Coming(FlyingIn(queues', frames), sent, arrivals, lost \cup {Head(queues[t]).m})
    BY <1>1, <2>3, ThrowComing
  <2> QED BY <1>1, <1>3, <2>1, <2>2, <2>4, <2>5
<1>7. CASE Mux!SenderClose
  BY <1>2, <1>7 DEF Mux!SenderClose, Mux!sched, Mux!receiver
<1>8. CASE Mux!SenderHandleClose
  BY <1>2, <1>8 DEF Mux!SenderHandleClose, Mux!sched, Mux!receiver
<1> QED BY <1>4, <1>5, <1>6, <1>7, <1>8 DEF Mux!DrainTick

(* Those of the receiving mux.  A chunk that arrives, for the first time or *)
(* again, is one of those it had to expect.                                 *)
LEMMA ReceiveKeeps ==
  ASSUME MuxInv, NEW c \in Mux!Chunk, c.m \in 1..Len(sent), c.total = sent[c.m].total, Mux!Receive(c),
         arrivals[c.m][c.seq] > 0 \/ \A i \in 1..Len(delivered) :
                                       sent[delivered[i]].tier = sent[c.m].tier => delivered[i] < c.m
  PROVE  /\ arrivals' = OneMore(arrivals, c.m, c.seq)
         /\ MuxTyped(sent, arrivals', pending', delivered') /\ Counted(sent, arrivals', pending', delivered')
         /\ UNCHANGED <<queues, sent, lost, peer>> /\ peer # "closed"
<1>1. /\ MuxTyped(sent, arrivals, pending, delivered) /\ Counted(sent, arrivals, pending, delivered)
      /\ c.seq \in 1..MuxBatch
  BY MuxHasTypes, ChunkFields DEF MuxInv
<1>2. /\ arrivals' = OneMore(arrivals, c.m, c.seq) /\ UNCHANGED <<queues, sent, lost, peer>> /\ peer # "closed"
      /\ \/ /\ pending[c.m] \cup {c.seq} = 1..sent[c.m].total
            /\ pending' = PutAt(pending, c.m, {}) /\ delivered' = Append(delivered, c.m)
         \/ /\ pending' = PutAt(pending, c.m, pending[c.m] \cup {c.seq}) /\ delivered' = delivered
  BY DEF Mux!Receive, Mux!Completes, Mux!RecordChunk, Mux!sched, PutAt, OneMore
<1>3. CASE /\ pending[c.m] \cup {c.seq} = 1..sent[c.m].total
           /\ pending' = PutAt(pending, c.m, {}) /\ delivered' = Append(delivered, c.m)
  BY <1>1, <1>2, <1>3, Completed
<1>4. CASE /\ pending' = PutAt(pending, c.m, pending[c.m] \cup {c.seq}) /\ delivered' = delivered
  BY <1>1, <1>2, <1>4, Collected
<1> QED BY <1>2, <1>3, <1>4

LEMMA ReceiverKeeps ==
  ASSUME MuxInv,
         \/ Mux!HandleIncoming \/ Mux!ReceiverClose \/ Mux!ReceiverHandleClose
         \/ \E m \in 1..MaxMessages, k \in 1..MuxBatch : Mux!HandleRedelivered(m, k)
  PROVE  MuxInv'
<1>1. /\ queues \in [MuxTier -> Seq(Mux!Chunk)] /\ frames \in Seq(Mux!Chunk)
      /\ InOrder(queues, frames, sent)
      /\ Coming(FlyingIn(queues, frames), sent, arrivals, lost)
      /\ Counted(sent, arrivals, pending, delivered)
      /\ MuxTyped(sent, arrivals, pending, delivered)
  BY MuxHasTypes DEF MuxInv, MuxTypeOK, Flying
<1> DEFINE fl == FlyingIn(queues, frames)
<1>2. fl \in SUBSET Mux!Chunk
  BY DEF FlyingIn
<1>3. ASSUME UNCHANGED <<queues, sent, lost>>, frames' \in Seq(Mux!Chunk),
             InOrder(queues, frames', sent),
             Coming(FlyingIn(queues, frames'), sent, arrivals', lost),
             MuxTyped(sent, arrivals', pending', delivered'), Counted(sent, arrivals', pending', delivered'),
             peer' = "closed" => \A m \in 1..MaxMessages : pending'[m] = {}
      PROVE  MuxInv'
  <2>1. MuxTypeOK'
    BY <1>3 DEF MuxInv, MuxTypeOK, MuxTyped
  <2> QED BY <1>3, <2>1 DEF MuxInv, Flying
<1>4. CASE Mux!HandleIncoming
  <2> DEFINE c == frames[1]
             gl == FlyingIn(queues, Tail(frames))
  <2>1. frames # <<>> /\ frames' = Tail(frames) /\ Mux!Receive(Head(frames))
    BY <1>4 DEF Mux!HandleIncoming
  <2>2. /\ Head(frames) = c /\ c \in fl /\ c \in Mux!Chunk /\ Tail(frames) \in Seq(Mux!Chunk)
        /\ InOrder(queues, Tail(frames), sent) /\ gl \in SUBSET fl
        /\ Precedes(c, gl, sent)
    BY <1>1, <2>1, WireHead DEF Precedes
  <2> HIDE DEF fl, gl, c
  <2>3. Coming(fl, sent, arrivals, lost)
    BY <1>1 DEF fl
  <2>4. c.m \in 1..Len(sent) /\ c.total = sent[c.m].total
    <3>1. c.m \in 1..MaxMessages
      BY <2>2, ChunkFields
    <3> QED BY <2>2, <2>3, <3>1, MuxAssumption DEF Coming
  <2>5. \A i \in 1..Len(delivered) : sent[delivered[i]].tier = sent[c.m].tier => delivered[i] < c.m
    BY <1>1, <1>2, <2>2, <2>3, DeliveredBefore
  <2>6. /\ arrivals' = OneMore(arrivals, c.m, c.seq)
        /\ MuxTyped(sent, arrivals', pending', delivered') /\ Counted(sent, arrivals', pending', delivered')
        /\ UNCHANGED <<queues, sent, lost, peer>> /\ peer # "closed"
    BY <2>1, <2>2, <2>4, <2>5, ReceiveKeeps
  <2>7. Coming(gl, sent, arrivals', lost)
    BY <1>1, <1>2, <2>2, <2>3, <2>6, FirstArrival
  <2> QED BY <1>3, <2>1, <2>2, <2>6, <2>7 DEF gl
<1>5. CASE \E m \in 1..MaxMessages, k \in 1..MuxBatch : Mux!HandleRedelivered(m, k)
  <2>1. PICK m \in 1..MaxMessages, k \in 1..MuxBatch : Mux!HandleRedelivered(m, k)
    BY <1>5
  <2> DEFINE c == [m |-> m, seq |-> k, total |-> sent[m].total]
  <2>2. Mux!Receive(c) /\ frames' = frames /\ arrivals[m][k] \in 1..(MaxArrivals - 1)
    BY <2>1 DEF Mux!HandleRedelivered
  <2>3. arrivals[m][k] > 0 /\ m \in 1..Len(sent)
    <3>1. arrivals[m][k] > 0
      BY <2>2
    <3>2. m =< Len(sent)
      BY <1>1, <3>1 DEF Coming
    <3> QED BY <1>1, <3>1, <3>2 DEF MuxTyped
  <2>4. c \in Mux!Chunk /\ c.m = m /\ c.seq = k /\ c.total = sent[m].total
    BY <1>1, <2>3 DEF Mux!Chunk, MuxTyped
  <2> HIDE DEF c, fl
  <2>5. /\ arrivals' = OneMore(arrivals, m, k)
        /\ MuxTyped(sent, arrivals', pending', delivered') /\ Counted(sent, arrivals', pending', delivered')
        /\ UNCHANGED <<queues, sent, lost, peer>> /\ peer # "closed"
    BY <2>2, <2>3, <2>4, ReceiveKeeps
  <2>6. Coming(fl, sent, arrivals', lost)
    BY <1>1, <2>3, <2>5, LaterArrival DEF fl
  <2> QED BY <1>1, <1>3, <2>2, <2>5, <2>6 DEF fl
<1>6. CASE Mux!ReceiverClose
  <2>1. /\ UNCHANGED <<queues, sent, lost, frames, delivered, arrivals>> /\ peer' = "closing"
        /\ pending' = [m \in 1..MaxMessages |-> {}]
    BY <1>6 DEF Mux!ReceiverClose, Mux!Reset, Mux!sched
  <2>2. MuxTyped(sent, arrivals, pending', delivered) /\ Counted(sent, arrivals, pending', delivered)
    BY <1>1, <2>1, Dropped
  <2> QED BY <1>1, <1>3, <2>1, <2>2
<1>7. CASE Mux!ReceiverHandleClose
  <2>1. /\ UNCHANGED <<queues, sent, lost, delivered, arrivals>> /\ frames' = <<>>
        /\ pending' = [m \in 1..MaxMessages |-> {}]
    BY <1>7 DEF Mux!ReceiverHandleClose, Mux!Reset, Mux!sched
  <2> DEFINE gl == FlyingIn(queues, frames')
  <2>2. gl \in SUBSET fl /\ InOrder(queues, frames', sent) /\ frames' \in Seq(Mux!Chunk)
    <3>1. Len(frames') = 0
      BY <2>1
    <3>2. gl \in SUBSET fl
      BY <3>1 DEF FlyingIn
    <3>3. InOrder(queues, frames', sent)
      BY <1>1, <3>1 DEF InOrder
    <3> QED BY <2>1, <3>2, <3>3, EmptySeq
  <2>3. Coming(fl, sent, arrivals, lost)
    BY <1>1
  <2> HIDE DEF fl, gl
  <2>4. Coming(gl, sent, arrivals, lost)
    BY <2>2, <2>3, FewerFlying
  <2>5. MuxTyped(sent, arrivals, pending', delivered) /\ Counted(sent, arrivals, pending', delivered)
    BY <1>1, <2>1, Dropped
  <2>6. \A m \in 1..MaxMessages : pending'[m] = {}
    BY <2>1
  <2> QED BY <1>3, <2>1, <2>2, <2>4, <2>5, <2>6 DEF gl
<1> QED BY <1>4, <1>5, <1>6, <1>7

LEMMA SendKeeps ==
  ASSUME MuxInv, NEW t \in MuxTier, NEW n \in 1..MuxBatch, Mux!Send(t, n)
  PROVE  MuxInv'
<1>1. /\ queues \in [MuxTier -> Seq(Mux!Chunk)] /\ frames \in Seq(Mux!Chunk)
      /\ sent \in Seq([tier : MuxTier, total : 1..MuxBatch])
      /\ pending \in [1..MaxMessages -> SUBSET (1..MuxBatch)] /\ delivered \in Seq(1..MaxMessages)
      /\ InOrder(queues, frames, sent)
      /\ Coming(FlyingIn(queues, frames), sent, arrivals, lost)
      /\ Counted(sent, arrivals, pending, delivered)
      /\ MuxTyped(sent, arrivals, pending, delivered)
      /\ \A u \in MuxTier : Len(queues[u]) =< Len(sent) * MuxBatch
  BY MuxHasTypes DEF MuxInv, MuxTypeOK, Flying
<1>2. /\ sent' = Append(sent, [tier |-> t, total |-> n]) /\ Len(sent) < MaxMessages
      /\ queues' = PutAt(queues, t, queues[t] \o Mux!Chunks(Len(sent) + 1, n))
      /\ UNCHANGED <<lost, frames, peer, pending, delivered, arrivals>>
  BY DEF Mux!Send, Mux!EnqueueAll, Mux!receiver, PutAt
<1>3. /\ queues' \in [MuxTier -> Seq(Mux!Chunk)] /\ sent' \in Seq([tier : MuxTier, total : 1..MuxBatch])
      /\ Len(sent') =< MaxMessages
      /\ \A u \in MuxTier : Len(queues'[u]) =< Len(sent') * MuxBatch
      /\ InOrder(queues', frames, sent')
      /\ Coming(FlyingIn(queues', frames), sent', arrivals, lost)
      /\ Counted(sent', arrivals, pending, delivered)
  <2> DEFINE m == Len(sent) + 1
             M == [tier : MuxTier, total : 1..MuxBatch]
             fl == FlyingIn(queues, frames)
             gl == FlyingIn(queues', frames)
  <2>1. m \in 1..MaxMessages /\ m \in Nat /\ n \in Nat /\ Len(sent) \in Nat /\ m > Len(sent)
    BY <1>1, <1>2, LenProperties, MuxAssumption
  <2>2. queues' \in [MuxTier -> Seq(Mux!Chunk)] /\ Grown(queues, queues', t, m, n)
    BY <1>1, <1>2, <2>1, SentGrows
  <2>3. /\ sent' \in Seq(M) /\ Len(sent') = m /\ sent'[m] = [tier |-> t, total |-> n]
        /\ \A i \in 1..Len(sent) : sent'[i] = sent[i]
    <3>1. [tier |-> t, total |-> n] \in M
      OBVIOUS
    <3> HIDE DEF M
    <3>2. sent \in Seq(M)
      BY <1>1 DEF M
    <3> QED BY <1>2, <3>1, <3>2, AppendProperties
  <2>4. sent'[m].tier = t /\ sent'[m].total = n
    BY <2>3
  <2>5. \A x \in fl : x.m \in 1..MaxMessages /\ x.m \in 1..Len(sent)
    <3>1. \A x \in fl : x.m \in 1..MaxMessages /\ x.m \in Nat
      BY ChunkFields DEF FlyingIn
    <3>2. \A x \in fl : x.m =< Len(sent)
      BY <1>1 DEF Coming
    <3> QED BY <2>1, <3>1, <3>2
  <2>6. Newest(fl, m, sent, sent')
    BY <2>1, <2>3, <2>5 DEF Newest
  <2>7. InOrder(queues', frames, sent')
    <3> HIDE DEF m
    <3>1. /\ queues \in [MuxTier -> Seq(Mux!Chunk)] /\ frames \in Seq(Mux!Chunk) /\ InOrder(queues, frames, sent)
          /\ m \in Nat /\ n \in Nat /\ t \in MuxTier /\ Grown(queues, queues', t, m, n)
          /\ sent'[m].tier = t /\ Newest(FlyingIn(queues, frames), m, sent, sent')
      BY <1>1, <2>1, <2>2, <2>4, <2>6
    <3> QED BY <3>1, SentOrder
  <2>8. \A x \in gl : x \in fl \/ (x.m = m /\ x.total = n /\ x.seq =< n)
    <3> HIDE DEF m
    <3> QED BY <1>1, <2>1, <2>2, SentFlying
  <2>9. Coming(gl, sent', arrivals, lost) /\ Counted(sent', arrivals, pending, delivered)
    <3>1. Coming(fl, sent, arrivals, lost)
      BY <1>1
    <3> HIDE DEF fl, gl, M
    <3>2. \A x \in fl : x.m \in 1..MaxMessages
      BY <2>5
    <3>3. Sends(fl, gl, sent, sent', m, n)
      BY <1>1, <2>1, <2>3, <2>4, <2>8, <3>2 DEF Sends
    <3> QED BY <1>1, <3>1, <3>3, SentComing, SentCounted
  <2>10. \A u \in MuxTier : Len(queues'[u]) =< Len(sent') * MuxBatch
    <3>1. Len(sent') * MuxBatch = Len(sent) * MuxBatch + MuxBatch
      BY <2>1, <2>3, MuxAssumption
    <3>2. Len(sent) * MuxBatch \in Nat /\ MuxBatch \in Nat /\ n =< MuxBatch
      BY <2>1, MuxAssumption
    <3>3. \A u \in MuxTier : Len(queues[u]) \in Nat
      BY <1>1, FlyingParts
    <3>4. \A u \in MuxTier : Len(queues'[u]) = IF u = t THEN Len(queues[u]) + n ELSE Len(queues[u])
      BY <2>2 DEF Grown
    <3> DEFINE a == Len(sent) * MuxBatch
               b == Len(sent') * MuxBatch
    <3>5. /\ a \in Nat /\ b = a + MuxBatch /\ MuxBatch \in Nat /\ n =< MuxBatch /\ n \in Nat
          /\ \A u \in MuxTier : Len(queues[u]) =< a
      BY <1>1, <2>1, <3>1, <3>2
    <3> HIDE DEF a, b
    <3>6. \A u \in MuxTier : Len(queues'[u]) =< b
      BY <3>3, <3>4, <3>5
    <3> QED BY <3>6 DEF b
  <2> QED BY <2>1, <2>2, <2>3, <2>7, <2>9, <2>10
<1>4. MuxTypeOK'
  BY <1>1, <1>2, <1>3 DEF MuxTypeOK, MuxTyped
<1> QED BY <1>2, <1>3, <1>4 DEF MuxInv, Flying

LEMMA MuxStep == MuxInv /\ [Mux!Next]_mux => MuxInv'
<1> SUFFICES ASSUME MuxInv, [Mux!Next]_mux PROVE MuxInv'
  OBVIOUS
<1>1. CASE UNCHANGED mux
  BY <1>1 DEF mux, MuxInv, MuxTypeOK, Flying
<1>2. ASSUME NEW t \in Mux!Tier, NEW n \in 1..MuxBatch, Mux!Send(t, n) PROVE MuxInv'
  BY <1>2, SendKeeps DEF Mux!Tier, MuxTier
<1>3. CASE Mux!DrainTick \/ Mux!SenderClose \/ Mux!SenderHandleClose
  BY <1>3, SenderKeeps
<1>4. CASE \/ Mux!HandleIncoming \/ Mux!ReceiverClose \/ Mux!ReceiverHandleClose
           \/ \E m \in 1..MaxMessages, k \in 1..MuxBatch : Mux!HandleRedelivered(m, k)
  BY <1>4, ReceiverKeeps
<1> QED BY <1>1, <1>2, <1>3, <1>4 DEF Mux!Next

LEMMA MuxAlone == [MCNext]_all => [Mux!Next]_mux
BY DEF MCNext, all, mux

LEMMA MuxHolds == MCSpec => []MuxInv
<1>1. MCInit => MuxInv
  BY MuxInitially DEF MCInit
<1>2. MuxInv /\ [MCNext]_all => MuxInv'
  BY MuxAlone, MuxStep
<1> QED BY <1>1, <1>2, PTL DEF MCSpec

(* `A message is never delivered partially', is delivered no more often     *)
(* than any of its frames arrived, and in the order of its tier unless      *)
(* frames of it were redelivered; and nothing is pending after the close    *)
(* event: whatever the number of tiers, messages, chunks and redeliveries,  *)
(* and whichever chunks the adapter loses.                                  *)
THEOREM MuxDeliversWhole == MCSpec => []WholeOnceInOrder
<1>1. MuxInv => WholeOnceInOrder
  <2> SUFFICES ASSUME MuxInv PROVE Mux!WholeOnceInOrder /\ Mux!NothingPendingAfterClose
    BY DEF WholeOnceInOrder
  <2>1. Mux!NothingPendingAfterClose
    BY DEF MuxInv, Mux!NothingPendingAfterClose
  <2>2. /\ queues \in [MuxTier -> Seq(Mux!Chunk)] /\ frames \in Seq(Mux!Chunk)
        /\ delivered \in Seq(1..MaxMessages) /\ Coming(Flying, sent, arrivals, lost)
        /\ Counted(sent, arrivals, pending, delivered) /\ MuxTyped(sent, arrivals, pending, delivered)
        /\ sent \in Seq([tier : MuxTier, total : 1..MuxBatch])
    BY MuxHasTypes DEF MuxInv, MuxTypeOK
  <2>3. /\ DOMAIN delivered = 1..Len(delivered) /\ DOMAIN frames = 1..Len(frames)
        /\ DOMAIN sent = 1..Len(sent)
        /\ \A i \in 1..Len(delivered) : delivered[i] \in 1..MaxMessages
        /\ \A t \in MuxTier : DOMAIN queues[t] = 1..Len(queues[t])
    BY <2>2, LenProperties, ElementOfSeq
  <2>4. /\ \A i \in 1..Len(frames) : frames[i] \in Flying
        /\ \A t \in MuxTier : \A i \in 1..Len(queues[t]) : queues[t][i] \in Flying
        /\ Flying \in SUBSET Mux!Chunk
    BY <2>2, FlyingParts DEF Flying, FlyingIn
  <2>5. \A i, j \in 1..Len(delivered) :
          i < j /\ sent[delivered[i]].tier = sent[delivered[j]].tier
            => delivered[i] < delivered[j] \/ Mux!Redelivered(delivered[j])
    BY <2>2 DEF Counted, Mux!Redelivered
  <2>6. ASSUME NEW m \in 1..Len(sent), NEW k \in 1..sent[m].total PROVE Mux!Times(m) =< arrivals[m][k]
    <3>1. m \in 1..MaxMessages /\ k \in 1..MuxBatch
      <4>1. sent[m].total \in 1..MuxBatch /\ Len(sent) =< MaxMessages /\ Len(sent) \in Nat
        BY <2>2 DEF MuxTyped
      <4> QED BY <4>1, MuxAssumption
    <3>2. /\ TimesIn(delivered, m) + (IF k \in pending[m] THEN 1 ELSE 0) =< arrivals[m][k]
          /\ TimesIn(delivered, m) \in Nat /\ arrivals[m][k] \in Nat
      BY <2>2, <3>1, TimesOf DEF Counted, MuxTyped
    <3>3. Mux!Times(m) = TimesIn(delivered, m)
      BY <2>3 DEF Mux!Times, TimesIn, Mux!Cardinality, Cardinality
    <3> QED BY <3>2, <3>3
  <2>7. ASSUME NEW m \in Mux!Range(delivered)
        PROVE  m \notin lost /\ \A x \in Flying : x.m # m
    <3>1. PICK i \in 1..Len(delivered) : m = delivered[i]
      BY <2>3 DEF Mux!Range
    <3>2. m \notin lost
      <4>1. \A k \in 1..sent[m].total : arrivals[m][k] > 0
        BY <2>2, <3>1, DeliveredCame
      <4> QED BY <2>2, <4>1 DEF Coming
    <3>3. ASSUME NEW x \in Flying, x.m = m PROVE FALSE
      <4>1. delivered[i] < x.m
        BY <2>2, <2>4, <3>1, <3>3, DeliveredBefore
      <4> QED BY <2>3, <3>1, <3>3, <4>1
    <3> QED BY <3>2, <3>3
  <2> QED BY <2>1, <2>3, <2>4, <2>5, <2>6, <2>7 DEF Mux!WholeOnceInOrder, Mux!Tier, MuxTier
<1> QED BY <1>1, MuxHolds, PTL

-----------------------------------------------------------------------------
(* The scheduler that the mux is shown to contain. *)
LEMMA SameTiers == Mux!Sched!Tier = MuxTier /\ Mux!Tier = MuxTier
BY DEF Mux!Sched!Tier, Mux!Tier, MuxTier

SchedQlen == [t \in Mux!Tier |-> Len(queues[t])]

LEMMA SameWaiting ==
  ASSUME MuxTypeOK
  PROVE  Mux!NonEmpty = Mux!Sched!Waiting
<1>1. ASSUME NEW t \in MuxTier PROVE queues[t] # <<>> <=> Len(queues[t]) > 0
  <2>1. queues[t] \in Seq(Mux!Chunk)
    BY DEF MuxTypeOK
  <2> QED BY <2>1, EmptySeq
<1>2. \A t \in MuxTier : SchedQlen[t] = Len(queues[t])
  BY SameTiers DEF SchedQlen
<1> QED BY <1>1, <1>2, SameTiers DEF Mux!NonEmpty, Mux!Sched!Waiting, SchedQlen

(* dequeue() of the mux is dequeue() of the scheduler ... *)
LEMMA DequeueRefines ==
  ASSUME MuxTypeOK, (\E t \in MuxTier : Mux!DequeueItem(t)) \/ Mux!DequeueNothing
  PROVE  Mux!Sched!Dequeue
<1>1. Mux!NonEmpty = Mux!Sched!Waiting
  BY SameWaiting
<1>2. CASE Mux!DequeueNothing
  BY <1>1, <1>2 DEF Mux!DequeueNothing, Mux!Sched!Dequeue
<1>3. ASSUME NEW t \in MuxTier, Mux!DequeueItem(t) PROVE Mux!Sched!Dequeue
  <2>1. queues[t] # <<>> /\ queues' = Served(queues, t)
    BY <1>3, Dequeues
  <2>2. \A u \in MuxTier : Len(queues'[u]) = IF u = t THEN Len(queues[u]) - 1 ELSE Len(queues[u])
    <3>1. queues \in [MuxTier -> Seq(Mux!Chunk)]
      BY DEF MuxTypeOK
    <3>2. Shorter(queues, t, queues')
      BY <2>1, <3>1, TailOf
    <3> QED BY <3>2 DEF Shorter
  <2>3. SchedQlen' = [SchedQlen EXCEPT ![t] = @ - 1]
    BY <2>2, SameTiers DEF SchedQlen
  <2>4. /\ Mux!Sched!Waiting # {} /\ muxSlot' = Mux!Sched!NextSlot(muxSlot)
        /\ t = Mux!Sched!Pick(Mux!Sched!Waiting, muxSlot' = 0) /\ muxServed' = t
        /\ muxWaited' = IF MuxTiers \in Mux!Sched!Waiting /\ t # MuxTiers THEN muxWaited + 1 ELSE 0
    BY <1>1, <1>3 DEF Mux!DequeueItem
  <2> QED BY <2>3, <2>4 DEF Mux!Sched!Dequeue, SchedQlen
<1> QED BY <1>2, <1>3

LEMMA TimesMonotone ==
  ASSUME NEW a \in Nat, NEW b \in Nat, NEW c \in Nat, a =< b
  PROVE  a * c =< b * c
<1>1. b - a \in Nat /\ b = a + (b - a)
  OBVIOUS
<1>2. (a + (b - a)) * c = a * c + (b - a) * c
  BY <1>1
<1>3. a * c \in Nat /\ (b - a) * c \in Nat /\ b * c \in Nat
  BY <1>1
<1> QED BY <1>1, <1>2, <1>3

(* ... and send() is one enqueue() of as many chunks as the message has. *)
LEMMA SendRefines ==
  ASSUME MuxInv, MuxInv', NEW t \in MuxTier, NEW n \in 1..MuxBatch, Mux!Send(t, n)
  PROVE  Mux!Sched!Enqueue(t, n)
<1>1. /\ queues' = PutAt(queues, t, queues[t] \o Mux!Chunks(Len(sent) + 1, n))
      /\ sent' = Append(sent, [tier |-> t, total |-> n]) /\ Len(sent) < MaxMessages
      /\ UNCHANGED <<muxSlot, muxWaited, muxServed>>
  BY DEF Mux!Send, Mux!EnqueueAll, PutAt
<1>2. /\ queues \in [MuxTier -> Seq(Mux!Chunk)] /\ Len(sent) \in Nat /\ Len(sent') \in Nat
      /\ Len(sent') =< MaxMessages /\ \A u \in MuxTier : Len(queues'[u]) =< Len(sent') * MuxBatch
  BY LenProperties DEF MuxInv, MuxTypeOK
<1>3. Len(sent) + 1 \in 1..MaxMessages
  BY <1>1, <1>2, MuxAssumption
<1>4. Grown(queues, queues', t, Len(sent) + 1, n)
  BY <1>1, <1>2, <1>3, SentGrows
<1>5. \A u \in MuxTier : Len(queues'[u]) = IF u = t THEN Len(queues[u]) + n ELSE Len(queues[u])
  BY <1>4 DEF Grown
<1>6. SchedQlen' = [SchedQlen EXCEPT ![t] = @ + n]
  BY <1>5, SameTiers DEF SchedQlen
<1>7. Len(sent') * MuxBatch =< MaxMessages * MuxBatch
  BY <1>2, MuxAssumption, TimesMonotone
<1>8. SchedQlen[t] + n =< MaxMessages * MuxBatch
  <2>1. Len(queues[t]) + n =< Len(sent') * MuxBatch
    BY <1>2, <1>5
  <2>2. Len(queues[t]) \in Nat /\ n \in Nat /\ Len(sent') * MuxBatch \in Nat /\ MaxMessages * MuxBatch \in Nat
    BY <1>2, FlyingParts, MuxAssumption DEF MuxInv, MuxTypeOK
  <2>3. SchedQlen[t] = Len(queues[t])
    BY SameTiers DEF SchedQlen
  <2> QED BY <1>7, <2>1, <2>2, <2>3
<1> QED BY <1>1, <1>6, <1>8 DEF Mux!Sched!Enqueue, SchedQlen

(* The sending half of PriorityMux implements PriorityScheduler: every step  *)
(* of the mux is an enqueue(), a dequeue() or leaves its scheduler alone.    *)
THEOREM MuxImplementsScheduler == MCSpec => ImplementsScheduler
<1>1. MCInit => Mux!Sched!Init
  <2> SUFFICES ASSUME Mux!Init PROVE Mux!Sched!Init
    BY DEF MCInit
  <2>1. SchedQlen = [t \in Mux!Sched!Tier |-> 0]
    BY SameTiers DEF Mux!Init, SchedQlen
  <2> QED BY <2>1 DEF Mux!Init, Mux!Sched!Init, SchedQlen
<1>2. MuxInv /\ MuxInv' /\ [MCNext]_all => [Mux!Sched!Next]_(Mux!Sched!vars)
  <2> SUFFICES ASSUME MuxInv, MuxInv', [Mux!Next]_mux
               PROVE  Mux!Sched!Next \/ UNCHANGED Mux!Sched!vars
    BY MuxAlone
  <2>0. MuxTypeOK
    BY DEF MuxInv
  <2>1. ASSUME UNCHANGED <<queues, muxSlot, muxWaited, muxServed>> PROVE UNCHANGED Mux!Sched!vars
    BY <2>1 DEF Mux!Sched!vars
  <2>2. ASSUME NEW t \in Mux!Tier, NEW n \in 1..MuxBatch, Mux!Send(t, n) PROVE Mux!Sched!Next
    BY <2>2, SameTiers, SendRefines DEF Mux!Sched!Next
  <2>3. CASE Mux!DrainStops
    <3>1. CASE UNCHANGED Mux!sched
      BY <2>1, <3>1 DEF Mux!sched
    <3>2. CASE Mux!DequeueNothing
      BY <2>0, <3>2, DequeueRefines DEF Mux!Sched!Next
    <3> QED BY <2>3, <3>1, <3>2 DEF Mux!DrainStops
  <2>4. CASE Mux!DrainSends \/ Mux!DrainThrows
    <3>1. \E t \in MuxTier : Mux!DequeueItem(t)
      BY <2>4, SameTiers DEF Mux!DrainSends, Mux!DrainThrows
    <3> QED BY <2>0, <3>1, DequeueRefines DEF Mux!Sched!Next
  <2>5. CASE Mux!SenderClose \/ Mux!SenderHandleClose
    BY <2>1, <2>5 DEF Mux!SenderClose, Mux!SenderHandleClose, Mux!sched
  <2>6. CASE \/ Mux!HandleIncoming \/ Mux!ReceiverClose \/ Mux!ReceiverHandleClose
             \/ \E m \in 1..MaxMessages, k \in 1..MuxBatch : Mux!HandleRedelivered(m, k)
    BY <2>1, <2>6 DEF Mux!HandleIncoming, Mux!HandleRedelivered, Mux!Receive, Mux!ReceiverClose,
                      Mux!ReceiverHandleClose, Mux!sched
  <2>7. CASE UNCHANGED mux
    BY <2>1, <2>7 DEF mux
  <2> QED BY <2>2, <2>3, <2>4, <2>5, <2>6, <2>7 DEF Mux!Next, Mux!DrainTick
<1> QED BY <1>1, <1>2, MuxHolds, PTL DEF MCSpec, ImplementsScheduler, Mux!ImplementsScheduler, Mux!Sched!Spec

-----------------------------------------------------------------------------
(* The handshake.  Its invariant speaks of the state in parts: ph and an    *)
(* are the phases of the offering transports and the offers whose answers   *)
(* they took, ca the calls, ac the accepting transports, eo and ea the      *)
(* numbers in the two maps, os and as the offers and answers under way.     *)
Phases(o) == [k \in Glare!Offer |-> o[k].phase]
Taken(o) == [k \in Glare!Offer |-> o[k].answer]
Wanted(v) == v \in {"pending", "ok"}

OfferPhase == {"none", "offering", "connecting", "open", "closed"}
OfferRecord == [phase : OfferPhase, answer : 0..MaxOffers]
CallState == {"none", "pending", "ok", "rejected"}

GlareTypeOK ==
  /\ offer \in [Glare!Offer -> OfferRecord]
  /\ call \in [Glare!Offer -> CallState]
  /\ accept \in [Glare!Offer -> OfferPhase \ {"offering"}]
  /\ entry \in [offering : 0..MaxOffers, accepting : 0..MaxOffers]
  /\ offers \in SUBSET Glare!Offer /\ answers \in SUBSET Glare!Offer

(* Offers are made one after the other; one that is under way was not yet   *)
(* answered, and one that was answered was made.                            *)
OffersInTurn(ph, ac, os) ==
  /\ os \subseteq Glare!Offer
  /\ \A i, k \in Glare!Offer : k < i /\ ph[i] # "none" => ph[k] # "none"
  /\ \A i \in Glare!Offer : i \in os => ac[i] = "none" /\ ph[i] # "none"
  /\ \A i \in Glare!Offer : ac[i] # "none" => ph[i] # "none"

(* An answer under way was not taken, and its transport is in the map; one  *)
(* that was taken left no older transport waiting for another.              *)
AnswersOnce(ph, an, ac, ea, as) ==
  /\ as \subseteq Glare!Offer
  /\ \A i \in Glare!Offer : i \in as => ac[i] \in {"connecting", "closed"} /\ ea = i
  /\ \A i, k \in Glare!Offer : an[k] = i => ac[i] # "none" /\ i \notin as
  /\ \A i \in Glare!Offer : ph[i] = "none" => an[i] = 0
  /\ \A i, k \in Glare!Offer : an[i] # 0 /\ k =< i => ph[k] # "offering"

(* A call that waits or has succeeded is the one in the map as long as its  *)
(* transport goes on; so is the transport with which an offer was answered, *)
(* as long as it lives.                                                     *)
EntriesHold(ph, an, ca, ac, eo, ea) ==
  /\ \A i \in Glare!Offer : Wanted(ca[i]) /\ ph[i] \in {"offering", "connecting", "open"} => eo = i
  /\ \A i, k \in Glare!Offer : eo = i /\ k > i => ph[k] = "none"
  /\ \A i \in Glare!Offer : ac[i] \in {"connecting", "open"} => ea = i
  /\ \A i \in Glare!Offer : ca[i] = "ok" => an[i] = i

(* No transport that still waits is older than one that opened or one that  *)
(* the other pod has given up; an answer that was taken is that to the      *)
(* youngest offer the other pod accepted.                                   *)
NoneLeftBehind(ph, an, ac, ea) ==
  /\ \A i, k \in Glare!Offer : k < i /\ ph[k] = "offering" /\ ac[i] # "none" => ea = i
  /\ \A i, k \in Glare!Offer : ac[i] = "open" /\ k =< i => ph[k] # "offering"
  /\ \A i, k \in Glare!Offer : k < i /\ ac[k] \in {"connecting", "open"} /\ an[k] = k => ac[i] = "none"

(* The invariant that SessionsMatch needs. *)
SameEnds(ph, an, ca, ac) ==
  \A i, k \in Glare!Offer :
    Wanted(ca[i]) /\ ph[i] \in {"connecting", "open"} /\ an[i] = i /\ ac[k] = "open" => i = k

InStep(ph, an, ca, ac, eo, ea, os, as) ==
  /\ OffersInTurn(ph, ac, os) /\ AnswersOnce(ph, an, ac, ea, as) /\ EntriesHold(ph, an, ca, ac, eo, ea)
  /\ NoneLeftBehind(ph, an, ac, ea) /\ SameEnds(ph, an, ca, ac)

GlareInv ==
  GlareTypeOK /\ InStep(Phases(offer), Taken(offer), call, accept, entry.offering, entry.accepting, offers, answers)

LEMMA OfferNumbers == \A i \in Glare!Offer : i \in Nat /\ i # 0
BY OffersAssumption DEF Glare!Offer

(* Every step keeps the parts in step with each other. *)
LEMMA ConnectOfferingKeeps ==
  ASSUME NEW ph, NEW an, NEW ca, NEW ac, NEW ea, NEW os, NEW as,
         InStep(ph, an, ca, ac, 0, ea, os, as),
         ph \in [Glare!Offer -> OfferPhase], ca \in [Glare!Offer -> CallState],
         NEW i \in Glare!Offer, ph[i] = "none", \A k \in Glare!Offer : k < i => ph[k] # "none"
  PROVE  InStep([ph EXCEPT ![i] = "offering"], an, [ca EXCEPT ![i] = "pending"], ac, i, ea, os \cup {i}, as)
<1> DEFINE p == [ph EXCEPT ![i] = "offering"]
           c == [ca EXCEPT ![i] = "pending"]
           o == os \cup {i}
<1>1. /\ p[i] = "offering" /\ \A k \in Glare!Offer : k # i => p[k] = ph[k]
      /\ c[i] = "pending" /\ \A k \in Glare!Offer : k # i => c[k] = ca[k]
      /\ \A k : k \in o <=> k \in os \/ k = i
  BY OfferNumbers
<1> HIDE DEF p, c, o
<1>2. OffersInTurn(p, ac, o)
  BY <1>1, OfferNumbers DEF InStep, OffersInTurn
<1>3. AnswersOnce(p, an, ac, ea, as)
  <2>1. as \subseteq Glare!Offer
    BY <1>1, OfferNumbers DEF InStep, OffersInTurn, AnswersOnce
  <2>2. \A m \in Glare!Offer : m \in as => ac[m] \in {"connecting", "closed"} /\ ea = m
    BY <1>1, OfferNumbers DEF InStep, OffersInTurn, AnswersOnce
  <2>3. \A m, k \in Glare!Offer : an[k] = m => ac[m] # "none" /\ m \notin as
    BY <1>1, OfferNumbers DEF InStep, OffersInTurn, AnswersOnce
  <2>4. \A m \in Glare!Offer : p[m] = "none" => an[m] = 0
    BY <1>1, OfferNumbers DEF InStep, OffersInTurn, AnswersOnce
  <2>5. \A m, k \in Glare!Offer : an[m] # 0 /\ k =< m => p[k] # "offering"
    BY <1>1, OfferNumbers DEF InStep, OffersInTurn, AnswersOnce
  <2> QED BY <2>1, <2>2, <2>3, <2>4, <2>5 DEF AnswersOnce
<1>4. EntriesHold(p, an, c, ac, i, ea)
  BY <1>1, OfferNumbers DEF InStep, OffersInTurn, AnswersOnce, EntriesHold, Wanted
<1>5. NoneLeftBehind(p, an, ac, ea)
  BY <1>1, OfferNumbers DEF InStep, OffersInTurn, AnswersOnce, EntriesHold, NoneLeftBehind
<1>6. SameEnds(p, an, c, ac)
  BY <1>1, OfferNumbers DEF InStep, OffersInTurn, AnswersOnce, EntriesHold, NoneLeftBehind, SameEnds, Wanted
<1> QED BY <1>2, <1>3, <1>4, <1>5, <1>6 DEF InStep, p, c, o

LEMMA AcceptConnectionKeeps ==
  ASSUME NEW ph, NEW an, NEW ca, NEW ac, NEW eo, NEW os, NEW as,
         InStep(ph, an, ca, ac, eo, 0, os, as),
         ac \in [Glare!Offer -> OfferPhase], NEW i \in os
  PROVE  InStep(ph, an, ca, [ac EXCEPT ![i] = "connecting"], eo, i, os \ {i}, as \cup {i})
<1> DEFINE c == [ac EXCEPT ![i] = "connecting"]
           o == os \ {i}
           s == as \cup {i}
<1>1. /\ i \in Glare!Offer /\ c[i] = "connecting" /\ \A k \in Glare!Offer : k # i => c[k] = ac[k]
      /\ \A k : k \in o <=> k \in os /\ k # i
      /\ \A k : k \in s <=> k \in as \/ k = i
  BY DEF InStep, OffersInTurn
<1> HIDE DEF c, o, s
<1>2. OffersInTurn(ph, c, o)
  BY <1>1, OfferNumbers DEF InStep, OffersInTurn
<1>3. AnswersOnce(ph, an, c, i, s)
  <2>1. /\ i \in os /\ ac[i] = "none" /\ ph[i] # "none" /\ OffersInTurn(ph, ac, os) /\ AnswersOnce(ph, an, ac, 0, as)
    BY DEF InStep, OffersInTurn
  <2>2. as = {}
    BY <2>1, OfferNumbers DEF AnswersOnce
  <2>3. s \subseteq Glare!Offer /\ \A k \in Glare!Offer : k \in s => c[k] \in {"connecting", "closed"} /\ i = k
    BY <1>1, <2>2
  <2>4. \A m, k \in Glare!Offer : an[k] = m => c[m] # "none" /\ m \notin s
    BY <1>1, <2>1, <2>2 DEF AnswersOnce
  <2> QED BY <2>1, <2>3, <2>4 DEF AnswersOnce
<1>4. EntriesHold(ph, an, ca, c, eo, i)
  BY <1>1, OfferNumbers DEF InStep, OffersInTurn, AnswersOnce, EntriesHold, Wanted
<1>5. NoneLeftBehind(ph, an, c, i)
  <2>1. \A m, k \in Glare!Offer : k < m /\ ph[k] = "offering" /\ c[m] # "none" => i = m
    BY <1>1, OfferNumbers DEF InStep, OffersInTurn, AnswersOnce, EntriesHold, NoneLeftBehind
  <2>2. \A m, k \in Glare!Offer : c[m] = "open" /\ k =< m => ph[k] # "offering"
    BY <1>1, OfferNumbers DEF InStep, OffersInTurn, AnswersOnce, EntriesHold, NoneLeftBehind
  <2>3. \A m, k \in Glare!Offer : k < m /\ c[k] \in {"connecting", "open"} /\ an[k] = k => c[m] = "none"
    <3>1. \A k \in Glare!Offer : ac[k] \notin {"connecting", "open"} /\ (an[k] = k => k # i)
      BY OfferNumbers DEF InStep, OffersInTurn, AnswersOnce, EntriesHold
    <3> QED BY <1>1, <3>1
  <2> QED BY <2>1, <2>2, <2>3 DEF NoneLeftBehind
<1>6. SameEnds(ph, an, ca, c)
  BY <1>1, OfferNumbers DEF InStep, OffersInTurn, AnswersOnce, EntriesHold, NoneLeftBehind, SameEnds, Wanted
<1> QED BY <1>2, <1>3, <1>4, <1>5, <1>6 DEF InStep, c, o, s

LEMMA LossKeeps ==
  ASSUME NEW ph, NEW an, NEW ca, NEW ac, NEW eo, NEW ea, NEW os, NEW as, NEW o, NEW s,
         InStep(ph, an, ca, ac, eo, ea, os, as),
         o \subseteq os, s \subseteq as
  PROVE  InStep(ph, an, ca, ac, eo, ea, o, s)
<1>2. OffersInTurn(ph, ac, o)
  BY OfferNumbers DEF InStep, OffersInTurn
<1>3. AnswersOnce(ph, an, ac, ea, s)
  BY OfferNumbers DEF InStep, OffersInTurn, AnswersOnce
<1>4. EntriesHold(ph, an, ca, ac, eo, ea)
  BY OfferNumbers DEF InStep, OffersInTurn, AnswersOnce, EntriesHold, Wanted
<1>5. NoneLeftBehind(ph, an, ac, ea)
  BY OfferNumbers DEF InStep, OffersInTurn, AnswersOnce, EntriesHold, NoneLeftBehind
<1>6. SameEnds(ph, an, ca, ac)
  BY OfferNumbers DEF InStep, OffersInTurn, AnswersOnce, EntriesHold, NoneLeftBehind, SameEnds, Wanted
<1> QED BY <1>2, <1>3, <1>4, <1>5, <1>6 DEF InStep

LEMMA OnAnswerKeeps ==
  ASSUME NEW ph, NEW an, NEW ca, NEW ac, NEW eo, NEW ea, NEW os, NEW as, NEW p, NEW a, NEW c, NEW e,
         InStep(ph, an, ca, ac, eo, ea, os, as),
         NEW i \in as,
         \A k \in Glare!Offer :
           \/ ph[k] # "offering" /\ p[k] = ph[k] /\ a[k] = an[k] /\ c[k] = ca[k]
           \/ ph[k] = "offering" /\ p[k] = "connecting" /\ a[k] = i /\ c[k] = ca[k]
           \/ ph[k] = "offering" /\ p[k] = "closed" /\ a[k] = 0 /\ c[k] = "rejected" /\ k # i,
         e = eo \/ (e = 0 /\ \A k \in Glare!Offer : k = eo => p[k] = "closed")
  PROVE  InStep(p, a, c, ac, e, ea, os, as \ {i})
<1> DEFINE s == as \ {i}
<1>1. /\ i \in Glare!Offer /\ ac[i] \in {"connecting", "closed"} /\ ea = i
      /\ \A k : k \in s <=> k \in as /\ k # i
  BY DEF InStep, AnswersOnce
<1> HIDE DEF s
<1>2. OffersInTurn(p, ac, os)
  BY <1>1, OfferNumbers DEF InStep, OffersInTurn
<1>3. AnswersOnce(p, a, ac, ea, s)
  <2>1. s \subseteq Glare!Offer
    BY <1>1, OfferNumbers DEF InStep, OffersInTurn, AnswersOnce
  <2>2. \A m \in Glare!Offer : m \in s => ac[m] \in {"connecting", "closed"} /\ ea = m
    BY <1>1, OfferNumbers DEF InStep, OffersInTurn, AnswersOnce
  <2>3. \A m, k \in Glare!Offer : a[k] = m => ac[m] # "none" /\ m \notin s
    <3>1. \A k \in Glare!Offer : a[k] = i \/ a[k] = 0 \/ a[k] = an[k]
      OBVIOUS
    <3>2. \A m, k \in Glare!Offer : an[k] = m => ac[m] # "none" /\ m \notin as
      BY DEF InStep, AnswersOnce
    <3> QED
      <4> SUFFICES ASSUME NEW m \in Glare!Offer, NEW k \in Glare!Offer, a[k] = m
                   PROVE  ac[m] # "none" /\ m \notin s
        OBVIOUS
      <4>1. CASE m = i
        BY <1>1, <4>1
      <4>2. CASE m # i
        BY <1>1, <3>1, <3>2, <4>2, OfferNumbers
      <4> QED BY <4>1, <4>2
  <2>4. \A m \in Glare!Offer : p[m] = "none" => a[m] = 0
    BY <1>1, OfferNumbers DEF InStep, OffersInTurn, AnswersOnce
  <2>5. \A m, k \in Glare!Offer : a[m] # 0 /\ k =< m => p[k] # "offering"
    BY <1>1, OfferNumbers DEF InStep, OffersInTurn, AnswersOnce
  <2> QED BY <2>1, <2>2, <2>3, <2>4, <2>5 DEF AnswersOnce
<1>4. EntriesHold(p, a, c, ac, e, ea)
  BY <1>1, OfferNumbers DEF InStep, OffersInTurn, AnswersOnce, EntriesHold, Wanted
<1>5. NoneLeftBehind(p, a, ac, ea)
  BY <1>1, OfferNumbers DEF InStep, OffersInTurn, AnswersOnce, EntriesHold, NoneLeftBehind
<1>6. SameEnds(p, a, c, ac)
  <2>1. \A k \in Glare!Offer : ac[k] = "open" => k = i
    BY <1>1 DEF InStep, EntriesHold
  <2>2. \A k \in Glare!Offer : Wanted(c[k]) /\ p[k] \in {"connecting", "open"} /\ a[k] = k =>
          k = i \/ (Wanted(ca[k]) /\ ph[k] \in {"connecting", "open"} /\ an[k] = k)
    BY <1>1
  <2> QED BY <2>1, <2>2 DEF InStep, SameEnds
<1> QED BY <1>2, <1>3, <1>4, <1>5, <1>6 DEF InStep, s

LEMMA AnswerTimeoutKeeps ==
  ASSUME NEW ph, NEW an, NEW ca, NEW ac, NEW eo, NEW ea, NEW os, NEW as, NEW e,
         InStep(ph, an, ca, ac, eo, ea, os, as),
         ca \in [Glare!Offer -> CallState], NEW i \in Glare!Offer, ca[i] = "pending",
         e = eo \/ (e = 0 /\ eo = i)
  PROVE  InStep(ph, an, [ca EXCEPT ![i] = "rejected"], ac, e, ea, os, as)
<1> DEFINE c == [ca EXCEPT ![i] = "rejected"]
<1>1. /\ c[i] = "rejected" /\ \A k \in Glare!Offer : k # i => c[k] = ca[k]
  BY OfferNumbers
<1> HIDE DEF c
<1>2. OffersInTurn(ph, ac, os)
  BY <1>1, OfferNumbers DEF InStep, OffersInTurn
<1>3. AnswersOnce(ph, an, ac, ea, as)
  BY <1>1, OfferNumbers DEF InStep, OffersInTurn, AnswersOnce
<1>4. EntriesHold(ph, an, c, ac, e, ea)
  BY <1>1, OfferNumbers DEF InStep, OffersInTurn, AnswersOnce, EntriesHold, Wanted
<1>5. NoneLeftBehind(ph, an, ac, ea)
  BY <1>1, OfferNumbers DEF InStep, OffersInTurn, AnswersOnce, EntriesHold, NoneLeftBehind
<1>6. SameEnds(ph, an, c, ac)
  BY <1>1, OfferNumbers DEF InStep, OffersInTurn, AnswersOnce, EntriesHold, NoneLeftBehind, SameEnds, Wanted
<1> QED BY <1>2, <1>3, <1>4, <1>5, <1>6 DEF InStep, c

LEMMA OpenOfferingKeeps ==
  ASSUME NEW ph, NEW an, NEW ca, NEW ac, NEW eo, NEW ea, NEW os, NEW as, NEW c,
         InStep(ph, an, ca, ac, eo, ea, os, as),
         ph \in [Glare!Offer -> OfferPhase], NEW i \in Glare!Offer,
         ph[i] = "connecting", an[i] = i,
         \A k \in Glare!Offer : c[k] = ca[k] \/ (k = i /\ ca[k] = "pending" /\ c[k] = "ok")
  PROVE  InStep([ph EXCEPT ![i] = "open"], an, c, ac, eo, ea, os, as)
<1> DEFINE p == [ph EXCEPT ![i] = "open"]
<1>1. /\ p[i] = "open" /\ \A k \in Glare!Offer : k # i => p[k] = ph[k]
  BY OfferNumbers
<1> HIDE DEF p
<1>2. OffersInTurn(p, ac, os)
  BY <1>1, OfferNumbers DEF InStep, OffersInTurn
<1>3. AnswersOnce(p, an, ac, ea, as)
  <2>1. as \subseteq Glare!Offer
    BY <1>1, OfferNumbers DEF InStep, OffersInTurn, AnswersOnce
  <2>2. \A m \in Glare!Offer : m \in as => ac[m] \in {"connecting", "closed"} /\ ea = m
    BY <1>1, OfferNumbers DEF InStep, OffersInTurn, AnswersOnce
  <2>3. \A m, k \in Glare!Offer : an[k] = m => ac[m] # "none" /\ m \notin as
    BY <1>1, OfferNumbers DEF InStep, OffersInTurn, AnswersOnce
  <2>4. \A m \in Glare!Offer : p[m] = "none" => an[m] = 0
    BY <1>1, OfferNumbers DEF InStep, OffersInTurn, AnswersOnce
  <2>5. \A m, k \in Glare!Offer : an[m] # 0 /\ k =< m => p[k] # "offering"
    BY <1>1, OfferNumbers DEF InStep, OffersInTurn, AnswersOnce
  <2> QED BY <2>1, <2>2, <2>3, <2>4, <2>5 DEF AnswersOnce
<1>4. EntriesHold(p, an, c, ac, eo, ea)
  BY <1>1, OfferNumbers DEF InStep, OffersInTurn, AnswersOnce, EntriesHold, Wanted
<1>5. NoneLeftBehind(p, an, ac, ea)
  BY <1>1, OfferNumbers DEF InStep, OffersInTurn, AnswersOnce, EntriesHold, NoneLeftBehind
<1>6. SameEnds(p, an, c, ac)
  BY <1>1, OfferNumbers DEF InStep, OffersInTurn, AnswersOnce, EntriesHold, NoneLeftBehind, SameEnds, Wanted
<1> QED BY <1>2, <1>3, <1>4, <1>5, <1>6 DEF InStep, p

LEMMA OpenAcceptingKeeps ==
  ASSUME NEW ph, NEW an, NEW ca, NEW ac, NEW eo, NEW ea, NEW os, NEW as,
         InStep(ph, an, ca, ac, eo, ea, os, as),
         ac \in [Glare!Offer -> OfferPhase], NEW i \in Glare!Offer,
         ac[i] = "connecting", an[i] = i
  PROVE  InStep(ph, an, ca, [ac EXCEPT ![i] = "open"], eo, ea, os, as)
<1> DEFINE c == [ac EXCEPT ![i] = "open"]
<1>1. /\ c[i] = "open" /\ \A k \in Glare!Offer : k # i => c[k] = ac[k]
  BY OfferNumbers
<1> HIDE DEF c
<1>2. OffersInTurn(ph, c, os)
  BY <1>1, OfferNumbers DEF InStep, OffersInTurn
<1>3. AnswersOnce(ph, an, c, ea, as)
  BY <1>1, OfferNumbers, ZenonT(60) DEF InStep, OffersInTurn, AnswersOnce
<1>4. EntriesHold(ph, an, ca, c, eo, ea)
  BY <1>1, OfferNumbers DEF InStep, OffersInTurn, AnswersOnce, EntriesHold, Wanted
<1>5. NoneLeftBehind(ph, an, c, ea)
  BY <1>1, OfferNumbers DEF InStep, OffersInTurn, AnswersOnce, EntriesHold, NoneLeftBehind
<1>6. SameEnds(ph, an, ca, c)
  <2> SUFFICES ASSUME NEW m \in Glare!Offer, NEW k \in Glare!Offer, Wanted(ca[m]), an[m] = m,
                      ph[m] \in {"connecting", "open"}, c[k] = "open"
               PROVE  m = k
    BY DEF SameEnds
  <2>1. k = i
    BY <1>1 DEF InStep, EntriesHold
  <2>2. ph[i] # "none" /\ eo = m
    BY OfferNumbers DEF InStep, AnswersOnce, EntriesHold
  <2>3. ~ (i > m)
    BY <2>2 DEF InStep, EntriesHold
  <2>4. ~ (i < m)
    BY DEF InStep, NoneLeftBehind, AnswersOnce
  <2> QED BY <2>1, <2>3, <2>4, OfferNumbers
<1> QED BY <1>2, <1>3, <1>4, <1>5, <1>6 DEF InStep, c

LEMMA CloseOfferingKeeps ==
  ASSUME NEW ph, NEW an, NEW ca, NEW ac, NEW eo, NEW ea, NEW os, NEW as, NEW e,
         InStep(ph, an, ca, ac, eo, ea, os, as),
         ph \in [Glare!Offer -> OfferPhase], NEW i \in Glare!Offer,
         ph[i] \in {"connecting", "open"}, e = eo \/ (e = 0 /\ eo = i)
  PROVE  InStep([ph EXCEPT ![i] = "closed"], an, ca, ac, e, ea, os, as)
<1> DEFINE p == [ph EXCEPT ![i] = "closed"]
<1>1. /\ p[i] = "closed" /\ \A k \in Glare!Offer : k # i => p[k] = ph[k]
  BY OfferNumbers
<1> HIDE DEF p
<1>2. OffersInTurn(p, ac, os)
  BY <1>1, OfferNumbers DEF InStep, OffersInTurn
<1>3. AnswersOnce(p, an, ac, ea, as)
  <2>1. as \subseteq Glare!Offer
    BY <1>1, OfferNumbers DEF InStep, OffersInTurn, AnswersOnce
  <2>2. \A m \in Glare!Offer : m \in as => ac[m] \in {"connecting", "closed"} /\ ea = m
    BY <1>1, OfferNumbers DEF InStep, OffersInTurn, AnswersOnce
  <2>3. \A m, k \in Glare!Offer : an[k] = m => ac[m] # "none" /\ m \notin as
    BY <1>1, OfferNumbers DEF InStep, OffersInTurn, AnswersOnce
  <2>4. \A m \in Glare!Offer : p[m] = "none" => an[m] = 0
    BY <1>1, OfferNumbers DEF InStep, OffersInTurn, AnswersOnce
  <2>5. \A m, k \in Glare!Offer : an[m] # 0 /\ k =< m => p[k] # "offering"
    BY <1>1, OfferNumbers DEF InStep, OffersInTurn, AnswersOnce
  <2> QED BY <2>1, <2>2, <2>3, <2>4, <2>5 DEF AnswersOnce
<1>4. EntriesHold(p, an, ca, ac, e, ea)
  BY <1>1, OfferNumbers DEF InStep, OffersInTurn, AnswersOnce, EntriesHold, Wanted
<1>5. NoneLeftBehind(p, an, ac, ea)
  BY <1>1, OfferNumbers DEF InStep, OffersInTurn, AnswersOnce, EntriesHold, NoneLeftBehind
<1>6. SameEnds(p, an, ca, ac)
  BY <1>1, OfferNumbers DEF InStep, OffersInTurn, AnswersOnce, EntriesHold, NoneLeftBehind, SameEnds, Wanted
<1> QED BY <1>2, <1>3, <1>4, <1>5, <1>6 DEF InStep, p

LEMMA CloseAcceptingKeeps ==
  ASSUME NEW ph, NEW an, NEW ca, NEW ac, NEW eo, NEW ea, NEW os, NEW as, NEW e,
         InStep(ph, an, ca, ac, eo, ea, os, as),
         ac \in [Glare!Offer -> OfferPhase], NEW i \in Glare!Offer,
         ac[i] \in {"connecting", "open"}, e = ea \/ (e = 0 /\ ea = i /\ ac[i] = "open")
  PROVE  InStep(ph, an, ca, [ac EXCEPT ![i] = "closed"], eo, e, os, as)
<1> DEFINE c == [ac EXCEPT ![i] = "closed"]
<1>1. /\ c[i] = "closed" /\ \A k \in Glare!Offer : k # i => c[k] = ac[k]
  BY OfferNumbers
<1> HIDE DEF c
<1>2. OffersInTurn(ph, c, os)
  BY <1>1, OfferNumbers DEF InStep, OffersInTurn
<1>3. AnswersOnce(ph, an, c, e, as)
  BY <1>1, OfferNumbers DEF InStep, OffersInTurn, AnswersOnce
<1>4. EntriesHold(ph, an, ca, c, eo, e)
  BY <1>1, OfferNumbers DEF InStep, OffersInTurn, AnswersOnce, EntriesHold, Wanted
<1>5. NoneLeftBehind(ph, an, c, e)
  BY <1>1, OfferNumbers DEF InStep, OffersInTurn, AnswersOnce, EntriesHold, NoneLeftBehind
<1>6. SameEnds(ph, an, ca, c)
  BY <1>1, OfferNumbers DEF InStep, OffersInTurn, AnswersOnce, EntriesHold, NoneLeftBehind, SameEnds, Wanted
<1> QED BY <1>2, <1>3, <1>4, <1>5, <1>6 DEF InStep, c

(* The parts of the state of the model. *)
LEMMA FlatTypes ==
  ASSUME GlareTypeOK
  PROVE  /\ Phases(offer) \in [Glare!Offer -> OfferPhase] /\ accept \in [Glare!Offer -> OfferPhase]
         /\ \A k \in Glare!Offer : Phases(offer)[k] = offer[k].phase /\ Taken(offer)[k] = offer[k].answer
<1>1. \A r \in OfferRecord : r.phase \in OfferPhase
  BY DEF OfferRecord
<1>2. \A k \in Glare!Offer : offer[k].phase \in OfferPhase
  BY <1>1 DEF GlareTypeOK, CallState, OfferPhase
<1>3. accept \in [Glare!Offer -> OfferPhase]
  BY DEF GlareTypeOK, CallState, OfferPhase
<1> QED BY <1>2, <1>3 DEF Phases, Taken

(* A transport of the offering pod moves on to phase p. *)
LEMMA PhaseSet ==
  ASSUME NEW o \in [Glare!Offer -> OfferRecord], NEW i \in Glare!Offer,
         NEW p \in OfferPhase
  PROVE  /\ [o EXCEPT ![i].phase = p] \in [Glare!Offer -> OfferRecord]
         /\ Phases([o EXCEPT ![i].phase = p]) = [Phases(o) EXCEPT ![i] = p]
         /\ Taken([o EXCEPT ![i].phase = p]) = Taken(o)
<1> DEFINE r == [o[i] EXCEPT !.phase = p]
           q == [o EXCEPT ![i].phase = p]
<1>1. r \in OfferRecord /\ r.phase = p /\ r.answer = o[i].answer
  BY DEF OfferRecord
<1>2. q = [k \in Glare!Offer |-> IF k = i THEN r ELSE o[k]]
  OBVIOUS
<1> HIDE DEF r, q
<1>3. q \in [Glare!Offer -> OfferRecord]
  BY <1>1, <1>2
<1>4. \A k \in Glare!Offer : q[k].phase = (IF k = i THEN p ELSE o[k].phase) /\ q[k].answer = o[k].answer
  BY <1>1, <1>2
<1>5. Phases(q) = [Phases(o) EXCEPT ![i] = p]
  BY <1>4 DEF Phases
<1>6. Taken(q) = Taken(o)
  BY <1>4 DEF Taken
<1> QED BY <1>3, <1>5, <1>6 DEF q

LEMMA EntrySet ==
  ASSUME NEW e \in [offering : 0..MaxOffers, accepting : 0..MaxOffers], NEW i \in 0..MaxOffers
  PROVE  /\ [e EXCEPT !.offering = i] \in [offering : 0..MaxOffers, accepting : 0..MaxOffers]
         /\ [e EXCEPT !.offering = i].offering = i /\ [e EXCEPT !.offering = i].accepting = e.accepting
         /\ [e EXCEPT !.accepting = i] \in [offering : 0..MaxOffers, accepting : 0..MaxOffers]
         /\ [e EXCEPT !.accepting = i].offering = e.offering /\ [e EXCEPT !.accepting = i].accepting = i
OBVIOUS

(* Each action of Handshake is one of the steps above. *)
LEMMA GlareStep == GlareInv /\ [Glare!Next]_glare => GlareInv'
<1> SUFFICES ASSUME GlareInv, [Glare!Next]_glare PROVE GlareInv'
  OBVIOUS
<1> DEFINE ph == Phases(offer)
           an == Taken(offer)
           eo == entry.offering
           ea == entry.accepting
<1>0. /\ GlareTypeOK /\ InStep(ph, an, call, accept, eo, ea, offers, answers)
      /\ offer \in [Glare!Offer -> OfferRecord] /\ entry \in [offering : 0..MaxOffers, accepting : 0..MaxOffers]
      /\ call \in [Glare!Offer -> CallState] /\ accept \in [Glare!Offer -> OfferPhase \ {"offering"}]
      /\ offers \subseteq Glare!Offer /\ answers \subseteq Glare!Offer
  BY DEF GlareInv, GlareTypeOK
<1>a. /\ ph \in [Glare!Offer -> OfferPhase] /\ accept \in [Glare!Offer -> OfferPhase]
      /\ \A k \in Glare!Offer : ph[k] = offer[k].phase /\ an[k] = offer[k].answer
  BY <1>0, FlatTypes
<1>b. Glare!Offer \subseteq 0..MaxOffers
  BY OffersAssumption DEF Glare!Offer
<1> HIDE DEF ph, an, eo, ea
<1>1. ASSUME NEW i \in Glare!Offer, Glare!ConnectOffering(i) PROVE GlareInv'
  <2>1. /\ offer' = [offer EXCEPT ![i].phase = "offering"] /\ call' = [call EXCEPT ![i] = "pending"]
        /\ entry' = [entry EXCEPT !.offering = i] /\ offers' = offers \cup {i} /\ accept' = accept /\ answers' = answers
        /\ entry.offering = 0 /\ offer[i].phase = "none" /\ \A k \in 1..(i-1) : offer[k].phase # "none"
    BY <1>1 DEF Glare!ConnectOffering
  <2>2. \A k \in Glare!Offer : k < i => ph[k] # "none"
    BY <1>a, <2>1, OffersAssumption DEF Glare!Offer
  <2>3. InStep([ph EXCEPT ![i] = "offering"], an, call', accept, i, ea, offers', answers)
    BY <1>0, <1>a, <2>1, <2>2, ConnectOfferingKeeps DEF eo
  <2>4. offer' \in [Glare!Offer -> OfferRecord] /\ Phases(offer') = [ph EXCEPT ![i] = "offering"] /\ Taken(offer') = an
    BY <1>0, <2>1, PhaseSet DEF ph, an, OfferPhase
  <2>5. entry' \in [offering : 0..MaxOffers, accepting : 0..MaxOffers] /\ entry'.offering = i /\ entry'.accepting = ea
    BY <1>0, <1>b, <2>1, EntrySet DEF ea
  <2>6. GlareTypeOK'
    BY <1>0, <2>1, <2>4, <2>5 DEF GlareTypeOK, CallState, OfferPhase
  <2> QED BY <2>1, <2>3, <2>4, <2>5, <2>6 DEF GlareInv
<1>2. ASSUME NEW i \in Glare!Offer, Glare!AcceptConnection(i) PROVE GlareInv'
  <2>1. /\ i \in offers /\ offers' = offers \ {i} /\ offer' = offer /\ call' = call
        /\ \/ UNCHANGED <<accept, entry, answers>>
           \/ /\ entry.accepting = 0 /\ accept' = [accept EXCEPT ![i] = "connecting"]
              /\ entry' = [entry EXCEPT !.accepting = i] /\ answers' = answers \cup {i}
    BY <1>2 DEF Glare!AcceptConnection
  <2>2. CASE UNCHANGED <<accept, entry, answers>>
    <3>1. offers' \subseteq offers /\ answers' \subseteq answers
      BY <2>1, <2>2
    <3>2. InStep(ph, an, call, accept, eo, ea, offers', answers')
      BY <1>0, <3>1, LossKeeps
    <3> QED BY <1>0, <2>1, <2>2, <3>2 DEF GlareInv, GlareTypeOK, ph, an, eo, ea
  <2>3. CASE /\ entry.accepting = 0 /\ accept' = [accept EXCEPT ![i] = "connecting"]
             /\ entry' = [entry EXCEPT !.accepting = i] /\ answers' = answers \cup {i}
    <3>1. InStep(ph, an, call, accept', eo, i, offers', answers')
      BY <1>0, <1>a, <2>1, <2>3, AcceptConnectionKeeps DEF ea
    <3>2. entry' \in [offering : 0..MaxOffers, accepting : 0..MaxOffers] /\ entry'.offering = eo /\ entry'.accepting = i
      BY <1>0, <1>b, <2>3, EntrySet DEF eo
    <3>3. GlareTypeOK'
      BY <1>0, <2>1, <2>3, <3>2 DEF GlareTypeOK, CallState, OfferPhase
    <3> QED BY <2>1, <3>1, <3>2, <3>3 DEF GlareInv, ph, an
  <2> QED BY <2>1, <2>2, <2>3
<1>3. ASSUME NEW i \in Glare!Offer, Glare!OnAnswer(i) PROVE GlareInv'
  <2> DEFINE takers == {j \in Glare!Offer : offer[j].phase = "offering"}
  <2>1. PICK refusing \in SUBSET (takers \ {i}) :
          /\ offer' = [j \in Glare!Offer |->
               CASE j \in refusing -> [phase |-> "closed", answer |-> 0]
                 [] j \in takers \ refusing -> [phase |-> "connecting", answer |-> i]
                 [] OTHER -> offer[j]]
          /\ call' = [j \in Glare!Offer |-> IF j \in refusing THEN "rejected" ELSE call[j]]
          /\ entry' = IF entry.offering \in refusing THEN [entry EXCEPT !.offering = 0] ELSE entry
    BY <1>3 DEF Glare!OnAnswer
  <2>2. i \in answers /\ answers' = answers \ {i} /\ accept' = accept /\ offers' = offers
    BY <1>3 DEF Glare!OnAnswer
  <2>3. \A j \in Glare!Offer :
          \/ j \in refusing /\ j # i /\ offer[j].phase = "offering" /\ offer'[j] = [phase |-> "closed", answer |-> 0]
          \/ j \notin refusing /\ offer[j].phase = "offering" /\ offer'[j] = [phase |-> "connecting", answer |-> i]
          \/ j \notin refusing /\ offer[j].phase # "offering" /\ offer'[j] = offer[j]
    BY <2>1
  <2>4. \A n \in 0..MaxOffers : /\ [phase |-> "closed", answer |-> n] \in OfferRecord
                                 /\ [phase |-> "connecting", answer |-> n] \in OfferRecord
    BY DEF OfferRecord, OfferPhase
  <2>5. offer' \in [Glare!Offer -> OfferRecord]
    <3>1. offer' = [j \in Glare!Offer |-> offer'[j]]
      BY <2>1
    <3>2. \A j \in Glare!Offer : offer'[j] \in OfferRecord
      <4>1. 0 \in 0..MaxOffers /\ i \in 0..MaxOffers
        BY <1>b, OffersAssumption
      <4> QED BY <1>0, <2>3, <2>4, <4>1
    <3> QED BY <3>1, <3>2
  <2> DEFINE p == Phases(offer')
             a == Taken(offer')
             e == entry'.offering
  <2>6. \A k \in Glare!Offer :
           \/ ph[k] # "offering" /\ p[k] = ph[k] /\ a[k] = an[k] /\ call'[k] = call[k]
           \/ ph[k] = "offering" /\ p[k] = "connecting" /\ a[k] = i /\ call'[k] = call[k]
           \/ ph[k] = "offering" /\ p[k] = "closed" /\ a[k] = 0 /\ call'[k] = "rejected" /\ k # i
    <3>1. \A k \in Glare!Offer : p[k] = offer'[k].phase /\ a[k] = offer'[k].answer
      BY DEF Phases, Taken
    <3>2. \A k \in Glare!Offer : call'[k] = IF k \in refusing THEN "rejected" ELSE call[k]
      BY <2>1
    <3> HIDE DEF p, a
    <3> QED BY <1>a, <2>3, <3>1, <3>2
  <2>7. /\ entry' \in [offering : 0..MaxOffers, accepting : 0..MaxOffers] /\ entry'.accepting = ea
        /\ \/ e = eo
           \/ e = 0 /\ eo \in refusing
    <3>1. 0 \in 0..MaxOffers
      BY OffersAssumption
    <3>2. CASE eo \in refusing
      <4>1. entry' = [entry EXCEPT !.offering = 0]
        BY <2>1, <3>2 DEF eo
      <4> QED BY <1>0, <3>1, <3>2, <4>1, EntrySet DEF ea
    <3>3. CASE eo \notin refusing
      BY <1>0, <2>1, <3>3 DEF eo, ea
    <3> QED BY <3>2, <3>3
  <2>8. e = eo \/ (e = 0 /\ \A k \in Glare!Offer : k = eo => p[k] = "closed")
    BY <1>a, <2>3, <2>7 DEF Phases
  <2> HIDE DEF p, a, e
  <2>9. InStep(p, a, call', accept, e, ea, offers, answers')
    BY <1>0, <2>2, <2>6, <2>8, OnAnswerKeeps
  <2>10. call' \in [Glare!Offer -> CallState]
    BY <1>0, <2>1 DEF CallState
  <2>11. GlareTypeOK'
    BY <1>0, <2>2, <2>5, <2>7, <2>10 DEF GlareTypeOK, CallState, OfferPhase
  <2> QED BY <2>2, <2>7, <2>9, <2>11 DEF GlareInv, p, a, e
<1>4. ASSUME NEW i \in Glare!Offer, Glare!AnswerTimeout(i) PROVE GlareInv'
  <2>1. /\ offer' = offer /\ accept' = accept /\ offers' = offers /\ answers' = answers
        /\ call[i] = "pending" /\ call' = [call EXCEPT ![i] = "rejected"]
        /\ entry' = IF eo = i THEN [entry EXCEPT !.offering = 0] ELSE entry
    BY <1>4 DEF Glare!AnswerTimeout, Glare!Forget, eo
  <2>2. /\ entry' \in [offering : 0..MaxOffers, accepting : 0..MaxOffers] /\ entry'.accepting = ea
        /\ entry'.offering = eo \/ (entry'.offering = 0 /\ eo = i)
    BY <1>0, <2>1, OffersAssumption, EntrySet DEF eo, ea
  <2>3. InStep(ph, an, call', accept, entry'.offering, ea, offers, answers)
    BY <1>0, <1>a, <2>1, <2>2, AnswerTimeoutKeeps
  <2>4. GlareTypeOK'
    BY <1>0, <2>1, <2>2 DEF GlareTypeOK, CallState, OfferPhase
  <2> QED BY <2>1, <2>2, <2>3, <2>4 DEF GlareInv, ph, an
<1>5. ASSUME NEW i \in Glare!Offer, Glare!OpenOffering(i) PROVE GlareInv'
  <2>1. /\ offer[i].phase = "connecting" /\ offer[i].answer = i /\ offer' = [offer EXCEPT ![i].phase = "open"]
        /\ call' = [call EXCEPT ![i] = IF @ = "pending" THEN "ok" ELSE @]
        /\ accept' = accept /\ entry' = entry /\ offers' = offers /\ answers' = answers
    BY <1>5 DEF Glare!OpenOffering, Glare!Paired
  <2>2. /\ call' \in [Glare!Offer -> CallState]
        /\ \A k \in Glare!Offer : call'[k] = call[k] \/ (k = i /\ call[k] = "pending" /\ call'[k] = "ok")
    <3>1. CASE call[i] = "pending"
      BY <1>0, <2>1, <3>1 DEF CallState
    <3>2. CASE call[i] # "pending"
      BY <1>0, <2>1, <3>2 DEF CallState
    <3> QED BY <3>1, <3>2
  <2>3. InStep([ph EXCEPT ![i] = "open"], an, call', accept, eo, ea, offers, answers)
    BY <1>0, <1>a, <2>1, <2>2, OpenOfferingKeeps
  <2>4. offer' \in [Glare!Offer -> OfferRecord] /\ Phases(offer') = [ph EXCEPT ![i] = "open"] /\ Taken(offer') = an
    BY <1>0, <2>1, PhaseSet DEF ph, an, OfferPhase
  <2>5. GlareTypeOK'
    BY <1>0, <2>1, <2>2, <2>4 DEF GlareTypeOK, CallState, OfferPhase
  <2> QED BY <2>1, <2>3, <2>4, <2>5 DEF GlareInv, eo, ea
<1>6. ASSUME NEW i \in Glare!Offer, Glare!OpenAccepting(i) PROVE GlareInv'
  <2>1. /\ accept[i] = "connecting" /\ offer[i].answer = i /\ accept' = [accept EXCEPT ![i] = "open"]
        /\ offer' = offer /\ call' = call /\ entry' = entry /\ offers' = offers /\ answers' = answers
    BY <1>6 DEF Glare!OpenAccepting, Glare!Paired
  <2>2. InStep(ph, an, call, accept', eo, ea, offers, answers)
    BY <1>0, <1>a, <2>1, OpenAcceptingKeeps
  <2>3. GlareTypeOK'
    BY <1>0, <2>1 DEF GlareTypeOK, CallState, OfferPhase
  <2> QED BY <2>1, <2>2, <2>3 DEF GlareInv, ph, an, eo, ea
<1>7. ASSUME NEW i \in Glare!Offer, Glare!CloseOffering(i) PROVE GlareInv'
  <2>1. /\ offer[i].phase \in {"connecting", "open"} /\ offer' = [offer EXCEPT ![i].phase = "closed"]
        /\ entry' = entry \/ entry' = IF eo = i THEN [entry EXCEPT !.offering = 0] ELSE entry
        /\ accept' = accept /\ call' = call /\ offers' = offers /\ answers' = answers
    BY <1>7 DEF Glare!CloseOffering, Glare!Live, Glare!Forget, eo
  <2>2. /\ entry' \in [offering : 0..MaxOffers, accepting : 0..MaxOffers] /\ entry'.accepting = ea
        /\ entry'.offering = eo \/ (entry'.offering = 0 /\ eo = i)
    BY <1>0, <2>1, OffersAssumption, EntrySet DEF eo, ea
  <2>3. InStep([ph EXCEPT ![i] = "closed"], an, call, accept, entry'.offering, ea, offers, answers)
    BY <1>0, <1>a, <2>1, <2>2, CloseOfferingKeeps
  <2>4. offer' \in [Glare!Offer -> OfferRecord] /\ Phases(offer') = [ph EXCEPT ![i] = "closed"] /\ Taken(offer') = an
    BY <1>0, <2>1, PhaseSet DEF ph, an, OfferPhase
  <2>5. GlareTypeOK'
    BY <1>0, <2>1, <2>2, <2>4 DEF GlareTypeOK, CallState, OfferPhase
  <2> QED BY <2>1, <2>2, <2>3, <2>4, <2>5 DEF GlareInv
<1>8. ASSUME NEW i \in Glare!Offer, Glare!CloseAccepting(i) PROVE GlareInv'
  <2>1. /\ accept[i] \in {"connecting", "open"} /\ accept' = [accept EXCEPT ![i] = "closed"]
        /\ entry' = IF accept[i] = "open" /\ hasOnClose /\ ea = i THEN [entry EXCEPT !.accepting = 0] ELSE entry
        /\ offer' = offer /\ call' = call /\ offers' = offers /\ answers' = answers
    BY <1>8 DEF Glare!CloseAccepting, Glare!Live, Glare!Forget, ea
  <2>2. /\ entry' \in [offering : 0..MaxOffers, accepting : 0..MaxOffers] /\ entry'.offering = eo
        /\ entry'.accepting = ea \/ (entry'.accepting = 0 /\ ea = i /\ accept[i] = "open")
    BY <1>0, <2>1, OffersAssumption, EntrySet DEF eo, ea
  <2>3. InStep(ph, an, call, accept', eo, entry'.accepting, offers, answers)
    BY <1>0, <1>a, <2>1, <2>2, CloseAcceptingKeeps
  <2>4. GlareTypeOK'
    BY <1>0, <2>1, <2>2 DEF GlareTypeOK, CallState, OfferPhase
  <2> QED BY <2>1, <2>2, <2>3, <2>4 DEF GlareInv, ph, an
<1>9. CASE Glare!ConnectAccepting \/ Glare!WaiterTimeout \/ Glare!Lose \/ UNCHANGED glare
  <2>1. /\ offer' = offer /\ call' = call /\ accept' = accept /\ entry' = entry
        /\ offers' \subseteq offers /\ answers' \subseteq answers
    BY <1>9 DEF Glare!ConnectAccepting, Glare!WaiterTimeout, Glare!Lose, glare
  <2>2. InStep(ph, an, call, accept, eo, ea, offers', answers')
    BY <1>0, <2>1, LossKeeps
  <2>3. GlareTypeOK'
    BY <1>0, <2>1 DEF GlareTypeOK, CallState, OfferPhase
  <2> QED BY <2>1, <2>2, <2>3 DEF GlareInv, ph, an, eo, ea
<1> QED BY <1>1, <1>2, <1>3, <1>4, <1>5, <1>6, <1>7, <1>8, <1>9 DEF Glare!Next

LEMMA GlareInitially == Glare!Init => GlareInv
<1> SUFFICES ASSUME Glare!Init PROVE GlareInv
  OBVIOUS
<1>1. GlareTypeOK
  BY OffersAssumption DEF Glare!Init, GlareTypeOK, OfferRecord, OfferPhase, CallState
<1>2. \A k \in Glare!Offer : Phases(offer)[k] = "none" /\ Taken(offer)[k] = 0 /\ call[k] = "none" /\ accept[k] = "none"
  BY DEF Glare!Init, Phases, Taken
<1>3. entry.offering = 0 /\ entry.accepting = 0 /\ offers = {} /\ answers = {}
  BY DEF Glare!Init
<1> QED BY <1>1, <1>2, <1>3, OfferNumbers
        DEF GlareInv, InStep, OffersInTurn, AnswersOnce, EntriesHold, NoneLeftBehind, SameEnds, Wanted

LEMMA GlareAlone == [MCNext]_all => [Glare!Next]_glare
BY DEF MCNext, all, glare

LEMMA GlareHolds == MCSpec => []GlareInv
<1>1. MCInit => GlareInv
  BY GlareInitially DEF MCInit
<1>2. GlareInv /\ [MCNext]_all => GlareInv'
  BY GlareAlone, GlareStep
<1> QED BY <1>1, <1>2, PTL DEF MCSpec

(* The cardinality that Handshake speaks of is the one of this module. *)
LEMMA AtMostOne ==
  ASSUME NEW S, \A i, k \in S : i = k
  PROVE  Glare!Cardinality(S) =< 1
<1>1. Glare!Cardinality(S) = Cardinality(S)
  BY DEF Glare!Cardinality, Cardinality
<1>2. CASE S = {}
  BY <1>1, <1>2, FS_EmptySet
<1>3. CASE S # {}
  <2>1. PICK x : x \in S
    BY <1>3
  <2>2. \A k : k \in S <=> k = x
    BY <2>1
  <2>3. S = {x}
    BY <2>2
  <2>4. Cardinality({x}) = 1
    BY FS_Singleton
  <2> QED BY <1>1, <2>3, <2>4
<1> QED BY <1>2, <1>3

(* Two pods that call each other at the same time, give up and call again   *)
(* end up with one session, for any number of offers and of waiting calls.  *)
THEOREM OneSession == MCSpec => []SessionsMatch
<1>1. GlareInv => SessionsMatch
  <2> SUFFICES ASSUME GlareInv PROVE Glare!SessionsMatch
    BY DEF SessionsMatch
  <2> DEFINE mine == {i \in Glare!Offer : call[i] = "ok" /\ offer[i].phase = "open"}
             theirs == {i \in Glare!Offer : accept[i] = "open"}
  <2>1. /\ \A i \in mine : i \in Glare!Offer /\ call[i] = "ok" /\ Phases(offer)[i] = "open" /\ entry.offering = i /\ Taken(offer)[i] = i
        /\ \A i \in theirs : i \in Glare!Offer /\ entry.accepting = i
    BY DEF GlareInv, InStep, EntriesHold, Wanted, Phases
  <2>2. \A i \in mine, k \in theirs : i = k
    BY <2>1 DEF GlareInv, InStep, SameEnds, Wanted
  <2> HIDE DEF mine, theirs
  <2>3. Glare!Cardinality(mine) =< 1 /\ Glare!Cardinality(theirs) =< 1
    BY <2>1, AtMostOne
  <2> QED BY <2>2, <2>3 DEF Glare!SessionsMatch, mine, theirs
<1> QED BY <1>1, GlareHolds, PTL

-----------------------------------------------------------------------------
(* A connection.  A socket that is in use is the last, and either the state *)
(* tells so or close() awaits its end, in which case the user closed.       *)
SocketIds == 1..MaxSockets
SocketPhases == {"none", "connecting", "failed", "open", "closed"}
SocketRecord ==
  [phase : SocketPhases, retry : BOOLEAN, aborted : BOOLEAN, steady : BOOLEAN,
   closers : BOOLEAN, stale : BOOLEAN]

ConnTypeOK ==
  /\ cur \in 0..MaxSockets
  /\ sockets \in [SocketIds -> SocketRecord]
  /\ userClosed \in BOOLEAN
  /\ calls \in Nat
  /\ state \in {"disconnected", "connecting", "connected", "closing", "closed"}

SocketOK(i) ==
  /\ i > cur => sockets[i] = Client!Unused
  /\ sockets[i].phase = "connecting" /\ ~ sockets[i].aborted => i = cur /\ state = "connecting"
  /\ sockets[i].phase = "open" /\ ~ sockets[i].aborted => i = cur /\ state = "connected"
  /\ sockets[i].steady => sockets[i].phase = "open" /\ ~ sockets[i].aborted
  /\ ~ sockets[i].stale
  /\ sockets[i].aborted => sockets[i].phase \in {"connecting", "failed", "open", "closed"}
  /\ sockets[i].aborted /\ sockets[i].phase # "closed" => sockets[i].closers
  /\ sockets[i].closers => i = cur /\ userClosed /\ sockets[i].phase \in {"connecting", "failed", "open"}

StateOK ==
  /\ state \in {"connecting", "connected", "closing"} => cur # 0
  /\ state = "connecting" => sockets[cur].phase = "connecting" /\ ~ sockets[cur].aborted
  /\ state = "connected" => sockets[cur].phase = "open" /\ ~ sockets[cur].aborted /\ sockets[cur].steady
  /\ state = "closing" => sockets[cur].closers
  /\ state \in {"connecting", "connected"} => ~ userClosed
  /\ state = "closed" => userClosed /\ ~ Client!ClosePending

ConnInv ==
  /\ ConnTypeOK
  /\ \A i \in SocketIds : SocketOK(i)
  /\ StateOK

LEMMA ConnSafe == ConnInv => Client!StateIsTrue
BY DEF ConnInv, ConnTypeOK, SocketOK, StateOK, Client!StateIsTrue, Client!Socket, SocketIds

LEMMA ConnInitially == Client!ConnInit => ConnInv
<1> SUFFICES ASSUME Client!ConnInit PROVE ConnInv
  OBVIOUS
<1>1. /\ Client!Unused \in SocketRecord /\ Client!Unused.phase = "none" /\ ~ Client!Unused.aborted
      /\ ~ Client!Unused.steady /\ ~ Client!Unused.closers /\ ~ Client!Unused.stale
  BY DEF Client!Unused, SocketRecord, SocketPhases
<1>2. /\ cur = 0 /\ state = "disconnected" /\ userClosed = FALSE /\ calls = 0
      /\ sockets = [i \in SocketIds |-> Client!Unused]
  BY DEF Client!ConnInit, Client!Socket, SocketIds
<1>3. ConnTypeOK
  <2>1. sockets \in [SocketIds -> SocketRecord]
    BY <1>1, <1>2
  <2>2. userClosed \in BOOLEAN
    BY <1>2
  <2> QED BY <1>2, <2>1, <2>2, ConnectionsAssumption DEF ConnTypeOK
<1>4. \A i \in SocketIds : SocketOK(i)
  BY <1>1, <1>2 DEF SocketOK
<1> QED BY <1>2, <1>3, <1>4 DEF ConnInv, StateOK

(* What a step does to socket i, besides the rest of the state. *)
LEMMA SocketChanges ==
  ASSUME ConnInv, NEW i \in SocketIds, NEW s \in SocketRecord, sockets' = [sockets EXCEPT ![i] = s]
  PROVE  /\ sockets' \in [SocketIds -> SocketRecord]
         /\ sockets'[i] = s /\ \A j \in SocketIds : j # i => sockets'[j] = sockets[j]
BY DEF ConnInv, ConnTypeOK

(* connect() finds no socket in use. *)
LEMMA ConnStarts ==
  ASSUME ConnInv, NEW retry \in BOOLEAN, Client!StartConnect(retry), calls' \in Nat,
         state \notin {"connected", "connecting"}, ~ Client!ClosePending
  PROVE  ConnInv'
<1>1. /\ cur \in 0..MaxSockets /\ cur + 1 \in SocketIds /\ cur' = cur + 1 /\ ~ userClosed' /\ userClosed' \in BOOLEAN
      /\ state' = "connecting" /\ sockets' \in [SocketIds -> SocketRecord]
      /\ sockets'[cur + 1] = [sockets[cur + 1] EXCEPT !.phase = "connecting", !.retry = retry]
      /\ \A i \in SocketIds : i # cur + 1 => sockets'[i] = sockets[i]
  <2>1. cur \in 0..MaxSockets /\ cur < MaxSockets /\ cur + 1 \in SocketIds
    BY ConnectionsAssumption DEF ConnInv, ConnTypeOK, Client!StartConnect, SocketIds
  <2> DEFINE s == [sockets[cur + 1] EXCEPT !.phase = "connecting", !.retry = retry]
  <2>2. s \in SocketRecord
    BY <2>1 DEF ConnInv, ConnTypeOK, SocketRecord, SocketPhases
  <2>3. sockets' = [sockets EXCEPT ![cur + 1] = s]
    BY DEF Client!StartConnect
  <2> HIDE DEF s
  <2>4. /\ sockets' \in [SocketIds -> SocketRecord] /\ sockets'[cur + 1] = s
        /\ \A i \in SocketIds : i # cur + 1 => sockets'[i] = sockets[i]
    BY <2>1, <2>2, <2>3, SocketChanges
  <2> QED BY <2>1, <2>4 DEF Client!StartConnect, s
<1>2. sockets[cur + 1] = Client!Unused
  BY <1>1 DEF ConnInv, SocketOK
<1>3. /\ sockets'[cur + 1].phase = "connecting" /\ ~ sockets'[cur + 1].aborted
      /\ ~ sockets'[cur + 1].steady /\ ~ sockets'[cur + 1].closers /\ ~ sockets'[cur + 1].stale
  BY <1>1, <1>2 DEF Client!Unused
<1>4. \A i \in SocketIds : /\ sockets[i].phase \notin {"connecting", "open"}
                           /\ ~ sockets[i].closers /\ ~ sockets[i].steady
  BY <1>1 DEF ConnInv, SocketOK, Client!ClosePending, Client!Socket, SocketIds
<1>5. \A i \in SocketIds : SocketOK(i)'
  <2>1. ASSUME NEW i \in SocketIds, i = cur + 1 PROVE SocketOK(i)'
    <3>1. i = cur' /\ ~ (i > cur') /\ sockets'[i].phase = "connecting" /\ state' = "connecting"
      <4>1. i = cur' /\ state' = "connecting" /\ sockets'[i] = sockets'[cur + 1]
        BY <1>1, <2>1
      <4>2. i \in Nat
        BY ConnectionsAssumption DEF SocketIds
      <4>3. sockets'[i].phase = "connecting"
        BY <1>3, <4>1
      <4>4. ~ (i > cur')
        BY <4>1, <4>2
      <4> QED BY <4>1, <4>3, <4>4
    <3>2. ~ sockets'[i].aborted /\ ~ sockets'[i].steady /\ ~ sockets'[i].closers /\ ~ sockets'[i].stale
      BY <1>3, <2>1
    <3> QED BY <3>1, <3>2 DEF SocketOK
  <2>2. ASSUME NEW i \in SocketIds, i # cur + 1 PROVE SocketOK(i)'
    <3>1. i > cur + 1 => i > cur
      BY <1>1 DEF SocketIds
    <3> QED BY <1>1, <1>4, <2>2, <3>1 DEF ConnInv, SocketOK
  <2> QED BY <2>1, <2>2
<1> QED BY <1>1, <1>3, <1>5 DEF ConnInv, ConnTypeOK, StateOK, SocketIds

LEMMA ConnOpens ==
  ASSUME ConnInv, NEW i \in SocketIds, Client!Opens(i)
  PROVE  ConnInv' /\ state' = "connected" /\ state # "closed" /\ state # "connected"
<1>1. i = cur /\ state = "connecting" /\ sockets[i] \in SocketRecord /\ ~ userClosed
  BY DEF ConnInv, ConnTypeOK, SocketOK, StateOK, Client!Opens
<1> DEFINE s == [sockets[i] EXCEPT !.phase = "open", !.stale = FALSE, !.steady = TRUE]
<1>2. /\ sockets' = [sockets EXCEPT ![i] = s] /\ s \in SocketRecord
      /\ state' = "connected" /\ UNCHANGED <<userClosed, cur, calls>>
      /\ s.phase = "open" /\ s.steady /\ s.aborted = sockets[i].aborted /\ s.closers = sockets[i].closers
      /\ ~ s.stale
      /\ ~ s.aborted
  BY <1>1 DEF Client!Opens, SocketRecord, SocketPhases, ConnInv, ConnTypeOK
<1> HIDE DEF s
<1>3. /\ sockets' \in [SocketIds -> SocketRecord] /\ sockets'[i] = s
      /\ \A j \in SocketIds : j # i => sockets'[j] = sockets[j]
  BY <1>2, SocketChanges
<1>4. \A j \in SocketIds : SocketOK(j)'
  BY <1>1, <1>2, <1>3 DEF ConnInv, SocketOK, SocketIds, ConnTypeOK
<1> QED BY <1>1, <1>2, <1>3, <1>4 DEF ConnInv, ConnTypeOK, StateOK, SocketIds

LEMMA ConnFails ==
  ASSUME ConnInv, NEW i \in SocketIds, Client!Fails(i)
  PROVE  ConnInv' /\ state' = "disconnected" /\ state # "connected" /\ state # "closed"
<1>1. /\ sockets[i].phase = "connecting" /\ sockets[i] \in SocketRecord
      /\ state # "connected" /\ state # "closed"
  BY DEF ConnInv, ConnTypeOK, SocketOK, StateOK, Client!Fails, Client!ClosePending, Client!Socket, SocketIds
<1> DEFINE s == [sockets[i] EXCEPT !.phase = "failed"]
<1>2. /\ sockets' = [sockets EXCEPT ![i] = s] /\ s \in SocketRecord
      /\ state' = "disconnected" /\ UNCHANGED <<userClosed, cur, calls>>
      /\ s.phase = "failed" /\ s.steady = sockets[i].steady /\ s.aborted = sockets[i].aborted
      /\ s.closers = sockets[i].closers /\ s.stale = sockets[i].stale
  BY <1>1 DEF Client!Fails, SocketRecord, SocketPhases, ConnInv, ConnTypeOK
<1> HIDE DEF s
<1>3. /\ sockets' \in [SocketIds -> SocketRecord] /\ sockets'[i] = s
      /\ \A j \in SocketIds : j # i => sockets'[j] = sockets[j]
  BY <1>2, SocketChanges
<1>4. i > cur => FALSE
  BY <1>1 DEF ConnInv, SocketOK, Client!Unused
<1>5. \A j \in SocketIds : SocketOK(j)'
  BY <1>1, <1>2, <1>3, <1>4 DEF ConnInv, SocketOK, StateOK
<1> QED BY <1>1, <1>2, <1>3, <1>5 DEF ConnInv, ConnTypeOK, StateOK

LEMMA NoneFailsLate ==
  ASSUME ConnInv, NEW i \in SocketIds
  PROVE  ~ Client!FailsLate(i)
BY DEF ConnInv, SocketOK, Client!FailsLate

LEMMA ConnCloses ==
  ASSUME ConnInv, NEW i \in SocketIds, Client!Drops(i) \/ Client!Ends(i)
  PROVE  /\ ConnInv'
         /\ state = "closed" => state' = "closed"
         /\ state' = "connected" => state = "connected" /\ cur' = cur
         /\ Client!Drops(i) => state' # "connected"
         /\ Client!Ends(i) => (state = "connected" <=> state' = "connected") /\ cur' = cur
<1>1. sockets[i].phase \in {"open", "failed"} /\ sockets[i] \in SocketRecord /\ ~ (i > cur)
  BY DEF ConnInv, ConnTypeOK, SocketOK, Client!Drops, Client!Ends, Client!CloseEvent, Client!Unused
<1> DEFINE s == [sockets[i] EXCEPT !.phase = "closed", !.steady = FALSE, !.closers = FALSE, !.stale = FALSE]
<1>2. /\ sockets' = [sockets EXCEPT ![i] = s] /\ s \in SocketRecord
      /\ UNCHANGED <<userClosed, cur, calls>>
      /\ s.phase = "closed" /\ ~ s.steady /\ s.aborted = sockets[i].aborted /\ ~ s.closers /\ ~ s.stale
  BY <1>1 DEF Client!Drops, Client!Ends, Client!CloseEvent, SocketRecord, SocketPhases, ConnInv, ConnTypeOK
<1> HIDE DEF s
<1>3. /\ sockets' \in [SocketIds -> SocketRecord] /\ sockets'[i] = s
      /\ \A j \in SocketIds : j # i => sockets'[j] = sockets[j]
  BY <1>2, SocketChanges
<1>4. CASE Client!Drops(i)
  <2>1. i = cur /\ state = "connected" /\ ~ userClosed /\ state' = "disconnected"
    BY <1>4 DEF ConnInv, SocketOK, StateOK, Client!Drops
  <2>2. ~ Client!Ends(i)
    BY <1>4 DEF Client!Drops, Client!Ends
  <2>3. \A j \in SocketIds : SocketOK(j)'
    BY <1>1, <1>2, <1>3, <2>1 DEF ConnInv, SocketOK, StateOK
  <2> QED BY <1>2, <1>3, <2>1, <2>2, <2>3 DEF ConnInv, ConnTypeOK, StateOK
<1>5. CASE Client!Ends(i)
  <2>1. /\ ~ sockets[i].steady /\ state' = IF sockets[i].closers THEN "closed" ELSE state
        /\ ~ Client!Drops(i)
    BY <1>5 DEF Client!Ends, Client!Drops
  <2>2. sockets[i].closers => i = cur /\ userClosed /\ state \notin {"connected", "connecting"}
    BY DEF ConnInv, SocketOK, StateOK
  <2>3. ~ sockets[i].closers => sockets[i].phase = "failed" /\ state' = state
    BY <1>1, <2>1 DEF ConnInv, SocketOK, StateOK
  <2>4. \A j \in SocketIds : SocketOK(j)'
    BY <1>1, <1>2, <1>3, <2>1, <2>2, <2>3 DEF ConnInv, SocketOK, StateOK
  <2>5. StateOK'
    <3>1. CASE sockets[i].closers
      <4>1. \A j \in SocketIds : ~ sockets'[j].closers
        BY <1>2, <1>3, <2>2, <3>1 DEF ConnInv, SocketOK
      <4> QED BY <1>2, <2>1, <2>2, <3>1, <4>1 DEF StateOK, Client!ClosePending, Client!Socket, SocketIds
    <3>2. CASE ~ sockets[i].closers
      <4>1. cur \in SocketIds => (sockets'[cur].closers <=> sockets[cur].closers)
        BY <1>2, <1>3, <3>2
      <4>2. state \in {"connecting", "connected"} => cur # i
        BY <2>3, <3>2 DEF ConnInv, StateOK
      <4>3. cur # 0 => cur \in SocketIds
        BY DEF ConnInv, ConnTypeOK, SocketIds
      <4>4. Client!ClosePending' => Client!ClosePending
        BY <1>2, <1>3, <3>2 DEF Client!ClosePending, Client!Socket, SocketIds
      <4> QED BY <1>2, <1>3, <2>3, <3>2, <4>1, <4>2, <4>3, <4>4 DEF ConnInv, StateOK
    <3> QED BY <3>1, <3>2
  <2> QED BY <1>2, <1>3, <2>1, <2>2, <2>3, <2>4, <2>5 DEF ConnInv, ConnTypeOK
<1> QED BY <1>4, <1>5

LEMMA ConnBackoff ==
  ASSUME ConnInv, Client!BackoffExpires
  PROVE  ConnInv' /\ (state' = "connected" <=> state = "connected")
         /\ (state = "connected" => cur' = cur) /\ (state = "closed" => state' = "closed")
<1>1. CASE UNCHANGED <<state, userClosed, cur, sockets, calls>>
  <2>1. \A j \in SocketIds : SocketOK(j)'
    BY <1>1 DEF ConnInv, SocketOK
  <2>2. ConnTypeOK' /\ StateOK'
    BY <1>1 DEF ConnInv, ConnTypeOK, StateOK, Client!ClosePending
  <2> QED BY <1>1, <2>1, <2>2 DEF ConnInv
<1>2. CASE ~ userClosed /\ state \notin {"connected", "connecting"} /\ Client!StartConnect(TRUE) /\ calls' = calls
  <2>1. ~ Client!ClosePending
    BY <1>2 DEF ConnInv, SocketOK, Client!ClosePending, Client!Socket, SocketIds
  <2>2. ConnInv'
    BY <1>2, <2>1, ConnStarts DEF ConnInv, ConnTypeOK
  <2> QED BY <1>2, <2>2 DEF Client!StartConnect, ConnInv, StateOK
<1>3. CASE /\ ~ userClosed /\ state \notin {"connected", "connecting"} /\ state' = "disconnected"
           /\ UNCHANGED <<userClosed, cur, sockets, calls>>
  <2>1. \A j \in SocketIds : SocketOK(j)'
    BY <1>3 DEF ConnInv, SocketOK
  <2> QED BY <1>3, <2>1 DEF ConnInv, ConnTypeOK, StateOK
<1> QED BY <1>1, <1>2, <1>3 DEF Client!BackoffExpires

LEMMA ConnClose ==
  ASSUME ConnInv, Client!Close
  PROVE  ConnInv' /\ state' = "closing" /\ state # "closed"
<1>1. cur \in SocketIds /\ state \notin {"closed", "disconnected"} /\ sockets[cur] \in SocketRecord
  BY DEF ConnInv, ConnTypeOK, StateOK, SocketIds, Client!Close
<1> DEFINE s == [sockets[cur] EXCEPT !.aborted = TRUE, !.closers = TRUE, !.steady = FALSE]
<1>2. /\ sockets' = [sockets EXCEPT ![cur] = s] /\ s \in SocketRecord
      /\ userClosed' = TRUE /\ state' = "closing" /\ UNCHANGED <<cur, calls>>
      /\ s.phase = sockets[cur].phase /\ ~ s.steady /\ s.aborted /\ s.closers /\ s.stale = sockets[cur].stale
  BY <1>1 DEF Client!Close, SocketRecord, ConnInv, ConnTypeOK
<1> HIDE DEF s
<1>3. /\ sockets' \in [SocketIds -> SocketRecord] /\ sockets'[cur] = s
      /\ \A j \in SocketIds : j # cur => sockets'[j] = sockets[j]
  BY <1>1, <1>2, SocketChanges
<1>4. sockets[cur].phase \in {"connecting", "failed", "open"}
  BY <1>1 DEF ConnInv, ConnTypeOK, SocketOK, StateOK
<1>5. \A j \in SocketIds : SocketOK(j)'
  <2>1. ASSUME NEW j \in SocketIds, j = cur PROVE SocketOK(j)'
    <3>1. ~ sockets[cur].stale
      BY <1>1 DEF ConnInv, SocketOK
    <3> QED BY <1>1, <1>2, <1>3, <1>4, <2>1, <3>1 DEF SocketOK, SocketIds
  <2>2. ASSUME NEW j \in SocketIds, j # cur PROVE SocketOK(j)'
    BY <1>2, <1>3, <2>2 DEF ConnInv, SocketOK
  <2> QED BY <2>1, <2>2
<1>6. ConnTypeOK'
  BY <1>1, <1>2, <1>3 DEF ConnInv, ConnTypeOK
<1>7. StateOK'
  BY <1>1, <1>2, <1>3 DEF StateOK, SocketIds
<1> QED BY <1>1, <1>2, <1>5, <1>6, <1>7 DEF ConnInv

LEMMA SameConn ==
  ASSUME ConnInv, UNCHANGED <<state, userClosed, cur, sockets, calls>>
  PROVE  ConnInv'
<1>1. \A i \in SocketIds : SocketOK(i)'
  BY DEF ConnInv, SocketOK
<1>2. ConnTypeOK' /\ StateOK'
  BY DEF ConnInv, ConnTypeOK, StateOK, Client!ClosePending
<1> QED BY <1>1, <1>2 DEF ConnInv

(* No connect() so far came while a close() was under way.                  *)
LEMMA ConnConnects ==
  ASSUME ConnInv, Client!Connect, ~ crossed'
  PROVE  ConnInv' /\ state # "connected" /\ state' # "connected" /\ calls' > calls
<1>1. /\ Client!StartConnect(FALSE) /\ calls' = calls + 1 /\ calls \in Nat
      /\ state \notin {"connected", "connecting"} /\ ~ Client!ClosePending
  BY DEF Client!Connect, ConnInv, ConnTypeOK
<1>2. FALSE \in BOOLEAN /\ calls' \in Nat
  BY <1>1
<1>3. ConnInv'
  BY <1>1, <1>2, ConnStarts
<1>4. state' = "connecting" /\ calls' > calls
  BY <1>1 DEF Client!StartConnect
<1> QED BY <1>1, <1>3, <1>4

-----------------------------------------------------------------------------
(* What a WebSocket transport delays and has sent: payloads grow along the  *)
(* wire of a socket and on along the queue, which is empty unless the       *)
(* connection is up.                                                        *)
QueueEntry == [payload : Nat, ws : SocketIds, ready : BOOLEAN]

SendInv ==
  /\ state = "connected" <=> heartbeat
  /\ queue \in Seq(QueueEntry) /\ wire \in [SocketIds -> Seq(Nat)] /\ sends \in Nat
  /\ \A k \in 1..Len(queue) : state = "connected" /\ queue[k].ws = cur /\ queue[k].payload =< sends
  /\ \A j, k \in 1..Len(queue) : j < k => queue[j].payload < queue[k].payload
  /\ \A i \in SocketIds : \A k \in 1..Len(wire[i]) : wire[i][k] =< sends
  /\ \A i \in SocketIds : \A j, k \in 1..Len(wire[i]) : j < k => wire[i][j] < wire[i][k]
  /\ \A k \in 1..Len(queue) : \A m \in 1..Len(wire[cur]) : wire[cur][m] < queue[k].payload

LEMMA SendSafe == SendInv => Client!SendingFollowsConnection
<1> SUFFICES ASSUME SendInv PROVE Client!SendingFollowsConnection
  OBVIOUS
<1>1. \A e \in Client!Range(queue) : state = "connected" /\ e.ws = cur
  BY DEF SendInv, Client!Range
<1>2. \A i \in Client!Socket : \A j, k \in DOMAIN wire[i] : j < k => wire[i][j] < wire[i][k]
  <2> SUFFICES ASSUME NEW i \in SocketIds, NEW j \in DOMAIN wire[i], NEW k \in DOMAIN wire[i], j < k
               PROVE  wire[i][j] < wire[i][k]
    BY DEF Client!Socket, SocketIds
  <2>1. wire[i] \in Seq(Nat)
    BY DEF SendInv
  <2>2. j \in 1..Len(wire[i]) /\ k \in 1..Len(wire[i])
    BY <2>1
  <2>3. \A l, m \in 1..Len(wire[i]) : l < m => wire[i][l] < wire[i][m]
    BY DEF SendInv
  <2> QED BY <2>2, <2>3
<1> QED BY <1>1, <1>2 DEF SendInv, Client!SendingFollowsConnection

LEMMA SendInitially == Client!TransportInit => SendInv
<1> SUFFICES ASSUME Client!TransportInit PROVE SendInv
  OBVIOUS
<1>1. queue = <<>> /\ sends = 0 /\ state = "disconnected" /\ heartbeat = FALSE
  BY DEF Client!TransportInit, Client!ConnInit
<1>2. wire = [i \in SocketIds |-> <<>>]
  BY DEF Client!TransportInit, Client!Socket, SocketIds
<1>3. /\ queue \in Seq(QueueEntry) /\ Len(queue) = 0
      /\ wire \in [SocketIds -> Seq(Nat)] /\ \A i \in SocketIds : Len(wire[i]) = 0
  BY <1>1, <1>2
<1> QED BY <1>1, <1>3 DEF SendInv

(* The ready entries at the head of a queue are a prefix of it, ... *)
LEMMA ReadyLengthOf ==
  ASSUME NEW S, NEW q \in Seq(S)
  PROVE  Client!ReadyLength(q) \in 0..Len(q)
<1> DEFINE T == {k \in 1..Len(q) : ~ q[k].ready}
<1>1. \E n \in 0..Len(q) : (\A k \in 1..n : q[k].ready) /\ (n < Len(q) => ~ q[n + 1].ready)
  <2>1. CASE T = {}
    BY <2>1
  <2>2. CASE T # {}
    <3>1. T \in SUBSET Nat
      OBVIOUS
    <3>2. PICK x \in T : \A y \in T : x =< y
      BY <2>2, <3>1, FirstNumber
    <3>3. x \in 1..Len(q) /\ ~ q[x].ready /\ (\A k \in 1..(x - 1) : q[k].ready)
      BY <3>2
    <3>4. x - 1 \in 0..Len(q) /\ (x - 1) + 1 = x
      BY <3>3
    <3> QED BY <3>3, <3>4
  <2> QED BY <2>1, <2>2
<1> QED BY <1>1 DEF Client!ReadyLength

(* ... and the payloads at all places of a prefix are those of the prefix. *)
LEMMA AllPayloads ==
  ASSUME NEW n \in Nat, NEW q
  PROVE  Client!Payloads(q, 1..n) = [k \in 1..n |-> q[k].payload]
<1>1. Client!Cardinality(1..n) = n
  <2>1. Client!Cardinality(1..n) = Cardinality(1..n)
    BY DEF Client!Cardinality, Cardinality
  <2> QED BY <2>1, FS_Interval
<1>2. \A i \in 1..n : Client!Cardinality({m \in 1..n : m =< i}) = i
  <2> TAKE i \in 1..n
  <2>1. Client!Cardinality({m \in 1..n : m =< i}) = Cardinality({m \in 1..n : m =< i})
    BY DEF Client!Cardinality, Cardinality
  <2>2. {m \in 1..n : m =< i} = 1..i
    OBVIOUS
  <2>3. Cardinality(1..i) = i
    BY FS_Interval
  <2> QED BY <2>1, <2>2, <2>3
<1> DEFINE nth(k) == CHOOSE i \in 1..n : Client!Cardinality({m \in 1..n : m =< i}) = k
<1>3. \A k \in 1..n : nth(k) = k
  BY <1>2
<1>4. Client!Payloads(q, 1..n) = [k \in 1..Client!Cardinality(1..n) |-> q[nth(k)].payload]
  BY DEF Client!Payloads
<1> HIDE DEF nth
<1> QED BY <1>1, <1>3, <1>4

LEMMA JitterKeeps ==
  ASSUME ConnInv, SendInv, NEW j \in DOMAIN queue, Client!JitterTimer(j)
  PROVE  SendInv'
<1> DEFINE q == [queue EXCEPT ![j].ready = TRUE]
           n == Client!ReadyLength(q)
           out == [k \in 1..n |-> q[k].payload]
           N == Len(queue)
<1>1. /\ j \in 1..N /\ N \in Nat /\ q \in Seq(QueueEntry) /\ Len(q) = N
      /\ \A k \in 1..N : q[k].payload = queue[k].payload /\ q[k].ws = queue[k].ws /\ q[k].payload \in Nat
  <2>1. queue \in Seq(QueueEntry) /\ j \in 1..N /\ N \in Nat
    BY DEF SendInv
  <2>2. [queue[j] EXCEPT !.ready = TRUE] \in QueueEntry
    <3>1. queue[j] \in QueueEntry
      BY <2>1, ElementOfSeq
    <3> QED BY <3>1 DEF QueueEntry
  <2>3. q \in Seq(QueueEntry) /\ Len(q) = N
    BY <2>1, <2>2
  <2>4. \A k \in 1..N : queue[k] \in QueueEntry /\ q[k] = IF k = j THEN [queue[j] EXCEPT !.ready = TRUE] ELSE queue[k]
    BY <2>1
  <2>5. \A k \in 1..N : q[k].payload = queue[k].payload /\ q[k].ws = queue[k].ws /\ q[k].payload \in Nat
    BY <2>4 DEF QueueEntry
  <2> QED BY <2>1, <2>3, <2>5
<1>2. n \in 0..N
  BY <1>1, ReadyLengthOf
<1>3. state = "connected" /\ cur \in SocketIds
  BY <1>1 DEF SendInv, ConnInv, ConnTypeOK, StateOK, SocketIds
<1>4. {i \in 1..n : q[i].ws = cur /\ state = "connected" /\ sockets[cur].phase = "open"} = 1..n
  <2>1. sockets[cur].phase = "open"
    BY <1>3 DEF ConnInv, StateOK
  <2> QED BY <1>1, <1>2, <2>1 DEF SendInv
<1>5. /\ wire' = [wire EXCEPT ![cur] = @ \o Client!Payloads(q,
             {i \in 1..n : q[i].ws = cur /\ state = "connected" /\ sockets[cur].phase = "open"})]
      /\ queue' = SubSeq(q, n + 1, Len(q))
      /\ UNCHANGED <<heartbeat, sends, state, cur>>
  BY DEF Client!JitterTimer, Client!conn
<1>6. Client!Payloads(q, 1..n) = out
  <2>1. n \in Nat
    BY <1>1, <1>2
  <2> HIDE DEF q, n
  <2> QED BY <2>1, AllPayloads
<1> HIDE DEF q, n
<1>7. wire' = [wire EXCEPT ![cur] = wire[cur] \o out]
  BY <1>4, <1>5, <1>6
<1>8. out \in Seq(Nat) /\ Len(out) = n /\ \A k \in 1..n : out[k] = queue[k].payload
  BY <1>1, <1>2
<1> HIDE DEF out
<1>9. /\ wire[cur] \in Seq(Nat) /\ Len(wire[cur]) \in Nat
      /\ wire'[cur] \in Seq(Nat) /\ Len(wire'[cur]) = Len(wire[cur]) + n
      /\ \A k \in 1..(Len(wire[cur]) + n) :
           wire'[cur][k] = IF k =< Len(wire[cur]) THEN wire[cur][k] ELSE queue[k - Len(wire[cur])].payload
      /\ \A i \in SocketIds : i # cur => wire'[i] = wire[i]
      /\ wire' \in [SocketIds -> Seq(Nat)]
  <2>1. wire[cur] \in Seq(Nat) /\ wire'[cur] = wire[cur] \o out
    BY <1>3, <1>7 DEF SendInv
  <2>2. \A k \in 1..(Len(wire[cur]) + n) :
          (wire[cur] \o out)[k] = IF k =< Len(wire[cur]) THEN wire[cur][k] ELSE out[k - Len(wire[cur])]
    <3> SUFFICES ASSUME NEW k \in 1..(Len(wire[cur]) + n)
                 PROVE  (wire[cur] \o out)[k] = IF k =< Len(wire[cur]) THEN wire[cur][k] ELSE out[k - Len(wire[cur])]
      OBVIOUS
    <3>1. k \in 1..(Len(wire[cur]) + Len(out))
      BY <1>8
    <3> QED BY <1>8, <2>1, <3>1, ConcatProperties
  <2>3. \A k \in 1..(Len(wire[cur]) + n) : ~ (k =< Len(wire[cur])) => k - Len(wire[cur]) \in 1..n
    BY <1>1, <1>2, <2>1
  <2>4. /\ wire[cur] \o out \in Seq(Nat) /\ Len(wire[cur] \o out) = Len(wire[cur]) + n /\ Len(wire[cur]) \in Nat
    <3>1. /\ wire[cur] \o out \in Seq(Nat)
          /\ Len(wire[cur] \o out) = Len(wire[cur]) + Len(out)
      BY <1>8, <2>1, ConcatProperties
    <3>2. Len(wire[cur]) \in Nat
      BY <2>1, LenProperties
    <3> QED BY <1>8, <3>1, <3>2
  <2>5. wire' \in [SocketIds -> Seq(Nat)] /\ \A i \in SocketIds : i # cur => wire'[i] = wire[i]
    BY <1>3, <1>7, <2>4 DEF SendInv
  <2>6. \A k \in 1..(Len(wire[cur]) + n) :
          wire'[cur][k] = IF k =< Len(wire[cur]) THEN wire[cur][k] ELSE queue[k - Len(wire[cur])].payload
    BY <1>8, <2>1, <2>2, <2>3
  <2> QED BY <2>1, <2>4, <2>5, <2>6
<1>10. /\ queue' \in Seq(QueueEntry) /\ Len(queue') = N - n
       /\ \A k \in 1..(N - n) : queue'[k] = q[n + k] /\ n + k \in 1..N
  BY <1>1, <1>2, <1>5
<1>11. \A k \in 1..Len(queue') : queue'[k].ws = cur /\ queue'[k].payload = queue[n + k].payload /\ n + k \in 1..N
  BY <1>1, <1>10 DEF SendInv
<1>12. \A k \in 1..Len(wire'[cur]) :
         \/ k \in 1..Len(wire[cur]) /\ wire'[cur][k] = wire[cur][k]
         \/ \E m \in 1..n : m \in 1..N /\ k = m + Len(wire[cur]) /\ wire'[cur][k] = queue[m].payload
  <2> TAKE k \in 1..Len(wire'[cur])
  <2>1. CASE k =< Len(wire[cur])
    BY <1>9, <2>1
  <2>2. CASE ~ (k =< Len(wire[cur]))
    <3>1. k - Len(wire[cur]) \in 1..n /\ k - Len(wire[cur]) \in 1..N /\ k = (k - Len(wire[cur])) + Len(wire[cur])
      BY <1>1, <1>2, <1>9, <2>2
    <3> QED BY <1>9, <2>2, <3>1
  <2> QED BY <2>1, <2>2
<1>13. \A k \in 1..Len(wire'[cur]) : wire'[cur][k] =< sends
  BY <1>3, <1>12 DEF SendInv
<1>14. \A k, l \in 1..Len(wire'[cur]) : k < l => wire'[cur][k] < wire'[cur][l]
  <2> SUFFICES ASSUME NEW k \in 1..Len(wire'[cur]), NEW l \in 1..Len(wire'[cur]), k < l
               PROVE  wire'[cur][k] < wire'[cur][l]
    OBVIOUS
  <2>1. CASE l \in 1..Len(wire[cur]) /\ wire'[cur][l] = wire[cur][l]
    <3>1. k \in 1..Len(wire[cur])
      BY <2>1
    <3>2. k =< Len(wire[cur])
      BY <3>1
    <3>3. wire'[cur][k] = wire[cur][k]
      BY <1>9, <3>2
    <3> QED BY <1>3, <2>1, <3>1, <3>3 DEF SendInv
  <2>2. ASSUME NEW m \in 1..n, m \in 1..N, l = m + Len(wire[cur]), wire'[cur][l] = queue[m].payload
        PROVE  wire'[cur][k] < wire'[cur][l]
    <3>1. CASE k \in 1..Len(wire[cur]) /\ wire'[cur][k] = wire[cur][k]
      BY <2>2, <3>1 DEF SendInv
    <3>2. ASSUME NEW p \in 1..n, p \in 1..N, k = p + Len(wire[cur]), wire'[cur][k] = queue[p].payload
          PROVE  wire'[cur][k] < wire'[cur][l]
      <4>1. p < m
        BY <1>1, <1>9, <2>2, <3>2
      <4> QED BY <2>2, <3>2, <4>1 DEF SendInv
    <3> QED BY <1>12, <3>1, <3>2
  <2> QED BY <1>12, <2>1, <2>2
<1>15. \A k \in 1..Len(queue') : \A m \in 1..Len(wire'[cur]) : wire'[cur][m] < queue'[k].payload
  <2> SUFFICES ASSUME NEW k \in 1..Len(queue'), NEW m \in 1..Len(wire'[cur])
               PROVE  wire'[cur][m] < queue'[k].payload
    OBVIOUS
  <2>1. queue'[k].payload = queue[n + k].payload /\ n + k \in 1..N
    BY <1>11
  <2>2. CASE m \in 1..Len(wire[cur]) /\ wire'[cur][m] = wire[cur][m]
    BY <2>1, <2>2 DEF SendInv
  <2>3. ASSUME NEW p \in 1..n, p \in 1..N, wire'[cur][m] = queue[p].payload
        PROVE  wire'[cur][m] < queue'[k].payload
    <3>1. p < n + k
      BY <1>1, <1>2, <1>10, <2>3
    <3> QED BY <2>1, <2>3, <3>1 DEF SendInv
  <2> QED BY <1>12, <2>2, <2>3
<1>16. /\ \A k \in 1..Len(queue') : queue'[k].payload =< sends
       /\ \A k, l \in 1..Len(queue') : k < l => queue'[k].payload < queue'[l].payload
  <2>1. \A k, l \in 1..Len(queue') : k < l => n + k < n + l
    BY <1>1, <1>2, <1>10
  <2> QED BY <1>11, <2>1 DEF SendInv
<1>17. \A i \in SocketIds : /\ \A k \in 1..Len(wire'[i]) : wire'[i][k] =< sends
                            /\ \A k, l \in 1..Len(wire'[i]) : k < l => wire'[i][k] < wire'[i][l]
  <2> TAKE i \in SocketIds
  <2>1. CASE i = cur
    BY <1>13, <1>14, <2>1
  <2>2. CASE i # cur
    BY <1>9, <2>2 DEF SendInv
  <2> QED BY <2>1, <2>2
<1> QED BY <1>3, <1>5, <1>9, <1>10, <1>11, <1>15, <1>16, <1>17 DEF SendInv

LEMMA DispatchKeeps ==
  ASSUME ConnInv, SendInv, Client!Dispatch
  PROVE  SendInv'
<1> DEFINE e == [payload |-> sends + 1, ws |-> cur, ready |-> FALSE]
<1>1. /\ state = "connected" /\ queue' = Append(queue, e) /\ sends' = sends + 1
      /\ UNCHANGED <<state, cur, heartbeat, wire>>
  BY DEF Client!Dispatch, Client!conn
<1>2. cur \in SocketIds
  BY <1>1 DEF ConnInv, ConnTypeOK, StateOK, SocketIds
<1>3. e \in QueueEntry /\ e.ws = cur /\ e.payload = sends + 1 /\ sends \in Nat
  BY <1>2 DEF SendInv, QueueEntry
<1> HIDE DEF e
<1>4. /\ queue' \in Seq(QueueEntry) /\ Len(queue') = Len(queue) + 1 /\ Len(queue) \in Nat
      /\ queue'[Len(queue) + 1] = e /\ \A k \in 1..Len(queue) : queue'[k] = queue[k]
  BY <1>1, <1>3, AppendProperties DEF SendInv
<1>5. \A k \in 1..Len(queue') : \/ k \in 1..Len(queue) /\ queue'[k] = queue[k]
                                \/ k = Len(queue) + 1 /\ queue'[k] = e
  BY <1>4
<1>6. \A k \in 1..Len(queue) : queue[k].payload \in Nat
  <2>1. \A k \in 1..Len(queue) : queue[k] \in QueueEntry
    BY DEF SendInv
  <2> QED BY <2>1 DEF QueueEntry
<1>7. \A k \in 1..Len(queue') : queue'[k].ws = cur /\ queue'[k].payload =< sends'
  BY <1>1, <1>3, <1>5, <1>6 DEF SendInv
<1>8. \A i \in SocketIds : \A k \in 1..Len(wire[i]) : wire[i][k] \in Nat /\ wire[i][k] =< sends
  BY DEF SendInv
<1>9. \A j, k \in 1..Len(queue') : j < k => queue'[j].payload < queue'[k].payload
  BY <1>1, <1>3, <1>4, <1>5, <1>6 DEF SendInv
<1>10. \A k \in 1..Len(queue') : \A m \in 1..Len(wire[cur]) : wire[cur][m] < queue'[k].payload
  <2> SUFFICES ASSUME NEW k \in 1..Len(queue'), NEW m \in 1..Len(wire[cur])
               PROVE  wire[cur][m] < queue'[k].payload
    OBVIOUS
  <2>1. CASE k \in 1..Len(queue) /\ queue'[k] = queue[k]
    BY <2>1 DEF SendInv
  <2>2. CASE queue'[k] = e
    BY <1>2, <1>3, <1>8, <2>2
  <2> QED BY <1>5, <2>1, <2>2
<1>11. \A i \in SocketIds : \A k \in 1..Len(wire[i]) : wire[i][k] =< sends'
  BY <1>1, <1>3, <1>8
<1> QED BY <1>1, <1>3, <1>4, <1>7, <1>9, <1>10, <1>11 DEF SendInv

(* Steps that leave the queue empty leave what was sent. *)
LEMMA StoppedSending ==
  ASSUME ConnInv, SendInv, queue' = <<>>, UNCHANGED <<wire, sends>>, state' = "connected" <=> heartbeat'
  PROVE  SendInv'
<1>1. queue' \in Seq(QueueEntry) /\ Len(queue') = 0
  OBVIOUS
<1> QED BY <1>1 DEF SendInv

LEMMA SameSending ==
  ASSUME SendInv, UNCHANGED <<heartbeat, queue, wire, sends>>,
         state' = "connected" <=> state = "connected", state = "connected" => cur' = cur
  PROVE  SendInv'
<1>1. Len(queue) > 0 => state = "connected" /\ cur' = cur
  BY DEF SendInv
<1>2. CASE Len(queue) > 0
  BY <1>1, <1>2 DEF SendInv
<1>3. CASE ~ (Len(queue) > 0)
  <2>1. Len(queue) = 0
    BY <1>3 DEF SendInv
  <2> QED BY <2>1 DEF SendInv
<1> QED BY <1>2, <1>3

LEMMA TransportStep ==
  ASSUME ConnInv, SendInv, Client!TransportNext, ~ crossed'
  PROVE  ConnInv' /\ SendInv' /\ Client!ClosedForGood
<1>1. state # "connected" => queue = <<>>
  BY DEF SendInv
<1>2. ASSUME Client!CloseTransport PROVE ConnInv' /\ SendInv' /\ Client!ClosedForGood
  <2>1. Client!Close /\ heartbeat' = FALSE /\ queue' = <<>> /\ UNCHANGED <<wire, sends>>
    BY <1>2 DEF Client!CloseTransport, Client!StopSending
  <2> QED BY <2>1, ConnClose, StoppedSending DEF Client!ClosedForGood
<1>3. ASSUME Client!Dispatch PROVE ConnInv' /\ SendInv' /\ Client!ClosedForGood
  <2>1. UNCHANGED <<state, userClosed, cur, sockets, calls>>
    BY <1>3 DEF Client!Dispatch, Client!conn
  <2> QED BY <1>3, <2>1, SameConn, DispatchKeeps DEF Client!ClosedForGood
<1>4. ASSUME Client!Connect, UNCHANGED <<heartbeat, queue, wire, sends>>
      PROVE  ConnInv' /\ SendInv' /\ Client!ClosedForGood
  <2>1. ConnInv' /\ state # "connected" /\ state' # "connected" /\ calls' > calls
    BY <1>4, ConnConnects
  <2> QED BY <1>1, <1>4, <2>1, StoppedSending DEF Client!ClosedForGood, SendInv
<1>5. ASSUME Client!BackoffExpires, UNCHANGED <<heartbeat, queue, wire, sends>>
      PROVE  ConnInv' /\ SendInv' /\ Client!ClosedForGood
  <2>1. /\ ConnInv' /\ (state' = "connected" <=> state = "connected")
        /\ (state = "connected" => cur' = cur) /\ (state = "closed" => state' = "closed")
    BY <1>5, ConnBackoff
  <2> QED BY <1>5, <2>1, SameSending DEF Client!ClosedForGood
<1>6. ASSUME NEW i \in SocketIds, Client!StartHeartbeat(i) PROVE ConnInv' /\ SendInv' /\ Client!ClosedForGood
  <2>1. Client!Opens(i) /\ heartbeat' = TRUE /\ UNCHANGED <<queue, wire, sends>>
    BY <1>6 DEF Client!StartHeartbeat
  <2> QED BY <1>1, <2>1, ConnOpens, StoppedSending DEF Client!ClosedForGood
<1>7. ASSUME NEW i \in SocketIds, Client!TransportOnClose(i) PROVE ConnInv' /\ SendInv' /\ Client!ClosedForGood
  <2>1. Client!Drops(i) /\ heartbeat' = FALSE /\ queue' = <<>> /\ UNCHANGED <<wire, sends>>
    BY <1>7 DEF Client!TransportOnClose, Client!StopSending
  <2> QED BY <2>1, ConnCloses, StoppedSending DEF Client!ClosedForGood
<1>8. ASSUME NEW i \in SocketIds, Client!Fails(i), UNCHANGED <<heartbeat, queue, wire, sends>>
      PROVE  ConnInv' /\ SendInv' /\ Client!ClosedForGood
  <2>1. ConnInv' /\ state' = "disconnected" /\ state # "connected" /\ state # "closed"
    BY <1>8, ConnFails
  <2> QED BY <1>1, <1>8, <2>1, StoppedSending DEF Client!ClosedForGood, SendInv
<1>9. ASSUME NEW i \in SocketIds, Client!Ends(i), UNCHANGED <<heartbeat, queue, wire, sends>>
      PROVE  ConnInv' /\ SendInv' /\ Client!ClosedForGood
  <2>1. /\ ConnInv' /\ (state = "connected" <=> state' = "connected") /\ cur' = cur
        /\ (state = "closed" => state' = "closed")
    BY <1>9, ConnCloses
  <2> QED BY <1>9, <2>1, SameSending DEF Client!ClosedForGood
<1>10. ASSUME NEW j \in DOMAIN queue, Client!JitterTimer(j) PROVE ConnInv' /\ SendInv' /\ Client!ClosedForGood
  <2>1. UNCHANGED <<state, userClosed, cur, sockets, calls>>
    BY <1>10 DEF Client!JitterTimer, Client!conn
  <2> QED BY <1>10, <2>1, SameConn, JitterKeeps DEF Client!ClosedForGood
<1> QED BY <1>2, <1>3, <1>4, <1>5, <1>6, <1>7, <1>8, <1>9, <1>10, NoneFailsLate
        DEF Client!TransportNext, Client!Send, Client!Heartbeat, Client!sending, Client!Socket, SocketIds

-----------------------------------------------------------------------------
(* The proxied streams of a Wisp client. *)
StreamsInv ==
  /\ opened \in Nat /\ mapped \subseteq 1..opened
  /\ DOMAIN carrier = 1..MaxStreams /\ opened =< MaxStreams
  /\ \A s \in 1..opened \ closed : s \in mapped /\ state = "connected" /\ carrier[s] = cur

LEMMA StreamsInitially == Client!ClientInit => StreamsInv
BY ConnectionsAssumption DEF Client!ClientInit, StreamsInv, Client!Stream

LEMMA StreamsFollow ==
  ASSUME StreamsInv, UNCHANGED streams,
         state = "connected" => state' = "connected" /\ cur' = cur
  PROVE  StreamsInv'
BY DEF StreamsInv, streams

LEMMA StreamsForced ==
  ASSUME StreamsInv, Client!ForceCloseAll
  PROVE  StreamsInv'
BY DEF StreamsInv, Client!ForceCloseAll

LEMMA ClientStep ==
  ASSUME ConnInv, StreamsInv, Client!ClientNext, ~ crossed'
  PROVE  ConnInv' /\ StreamsInv' /\ Client!ClosedForGood
<1>1. ASSUME Client!CloseClient PROVE ConnInv' /\ StreamsInv' /\ Client!ClosedForGood
  BY <1>1, ConnClose, StreamsForced DEF Client!CloseClient, Client!ClosedForGood
<1>2. ASSUME UNCHANGED conn, StreamsInv' PROVE ConnInv' /\ StreamsInv' /\ Client!ClosedForGood
  BY <1>2, SameConn DEF conn, Client!ClosedForGood
<1>3. ASSUME Client!OpenStream PROVE ConnInv' /\ StreamsInv' /\ Client!ClosedForGood
  <2>1. /\ state = "connected" /\ opened < MaxStreams /\ opened' = opened + 1
        /\ mapped' = mapped \cup {opened + 1} /\ carrier' = [carrier EXCEPT ![opened + 1] = cur]
        /\ UNCHANGED conn /\ closed' = closed
    BY <1>3 DEF Client!OpenStream, Client!conn, conn
  <2>2. StreamsInv'
    <3>1. /\ opened' \in Nat /\ opened' =< MaxStreams /\ mapped' \subseteq 1..opened'
          /\ DOMAIN carrier' = 1..MaxStreams /\ carrier'[opened + 1] = cur
          /\ \A s \in 1..opened : carrier'[s] = carrier[s]
      BY <2>1, ConnectionsAssumption DEF StreamsInv
    <3>2. \A s \in 1..opened' \ closed' : s \in 1..opened \ closed \/ s = opened + 1
      BY <2>1 DEF StreamsInv
    <3>3. cur' = cur /\ state' = state
      BY <2>1 DEF conn
    <3> QED BY <2>1, <3>1, <3>2, <3>3 DEF StreamsInv
  <2> QED BY <1>2, <2>1, <2>2
<1>4. ASSUME NEW s \in Client!Stream, Client!CloseStream(s) \/ Client!HandleClose(s)
      PROVE  ConnInv' /\ StreamsInv' /\ Client!ClosedForGood
  <2>1. /\ closed' = closed \cup {s} /\ mapped \ {s} \subseteq mapped' /\ mapped' \subseteq mapped
        /\ opened' = opened /\ carrier' = carrier /\ UNCHANGED conn
    BY <1>4 DEF Client!CloseStream, Client!HandleClose, Client!conn, conn
  <2>2. StreamsInv'
    BY <2>1 DEF StreamsInv, conn
  <2> QED BY <1>2, <2>1, <2>2
<1>5. ASSUME Client!Connect, UNCHANGED streams PROVE ConnInv' /\ StreamsInv' /\ Client!ClosedForGood
  BY <1>5, ConnConnects, StreamsFollow DEF Client!ClosedForGood
<1>6. ASSUME Client!BackoffExpires, UNCHANGED streams PROVE ConnInv' /\ StreamsInv' /\ Client!ClosedForGood
  <2>1. /\ ConnInv' /\ (state' = "connected" <=> state = "connected")
        /\ (state = "connected" => cur' = cur) /\ (state = "closed" => state' = "closed")
    BY <1>6, ConnBackoff
  <2> QED BY <1>6, <2>1, StreamsFollow DEF Client!ClosedForGood
<1>7. ASSUME NEW i \in SocketIds, Client!ClientOnClose(i) PROVE ConnInv' /\ StreamsInv' /\ Client!ClosedForGood
  BY <1>7, ConnCloses, StreamsForced DEF Client!ClientOnClose, Client!ClosedForGood
<1>8. ASSUME NEW i \in SocketIds, Client!Opens(i), UNCHANGED streams
      PROVE  ConnInv' /\ StreamsInv' /\ Client!ClosedForGood
  BY <1>8, ConnOpens, StreamsFollow DEF Client!ClosedForGood
<1>9. ASSUME NEW i \in SocketIds, Client!Fails(i), UNCHANGED streams
      PROVE  ConnInv' /\ StreamsInv' /\ Client!ClosedForGood
  BY <1>9, ConnFails, StreamsFollow DEF Client!ClosedForGood
<1>10. ASSUME NEW i \in SocketIds, Client!Ends(i), UNCHANGED streams
      PROVE  ConnInv' /\ StreamsInv' /\ Client!ClosedForGood
  <2>1. /\ ConnInv' /\ (state = "connected" <=> state' = "connected") /\ cur' = cur
        /\ (state = "closed" => state' = "closed")
    BY <1>10, ConnCloses
  <2> QED BY <1>10, <2>1, StreamsFollow DEF Client!ClosedForGood
<1> QED BY <1>1, <1>3, <1>4, <1>5, <1>6, <1>7, <1>8, <1>9, <1>10, NoneFailsLate
        DEF Client!ClientNext, Client!streams, streams, Client!Socket, SocketIds

-----------------------------------------------------------------------------
(* A keep-alive.  The place of the peer is that of a reservation whose      *)
(* import is under way, or of the check whose timers run; a check has       *)
(* missed no more pongs than there were pings unanswered.                   *)
CheckStatus == {"healthy", "degraded", "unhealthy"}
CheckRecord ==
  [interval : BOOLEAN, timer : BOOLEAN, waiting : BOOLEAN, missed : 0..MaxMissed, status : CheckStatus]

AliveTypeOK ==
  /\ connected \in BOOLEAN /\ torn \in BOOLEAN
  /\ connects \in 0..MaxAppearances
  /\ place \in [kind : {"none", "reservation", "check"}, id : 0..MaxAppearances]
  /\ imports \subseteq 1..connects /\ cancelled \subseteq 1..connects
  /\ check \in [1..MaxAppearances -> CheckRecord]
  /\ unheard \in 0..MaxMissed

Earned(k, u) ==
  /\ u = MaxMissed \/ k.missed + (IF k.waiting THEN 1 ELSE 0) =< u
  /\ k.status = "unhealthy" => u >= MaxMissed
  /\ k.status = "degraded" => u > 0
  /\ k.timer => k.waiting

PlaceInv ==
  /\ place.kind = "none" => place = Alive!None
  /\ place.kind # "none" => place.id \in 1..connects /\ connected /\ ~ torn
  /\ place.kind = "reservation" => place.id \in imports \ cancelled
  /\ place.kind = "check" => /\ place.id \notin imports
                             /\ check[place.id].interval /\ Earned(check[place.id], unheard)
  /\ \A n \in imports \ cancelled : place = [kind |-> "reservation", id |-> n]

ChecksInv ==
  \A n \in 1..MaxAppearances :
    /\ check[n].interval \/ check[n].timer => place = [kind |-> "check", id |-> n]
    /\ n \in imports \/ n > connects =>
         ~ check[n].waiting /\ ~ check[n].timer /\ check[n].missed = 0 /\ check[n].status = "healthy"

AliveInv == AliveTypeOK /\ PlaceInv /\ ChecksInv

LEMMA AliveSafe == AliveInv => Alive!ChecksAreTracked
<1> SUFFICES ASSUME AliveInv PROVE Alive!ChecksAreTracked
  OBVIOUS
<1>1. \A n \in 1..MaxAppearances :
        check[n].interval \/ check[n].timer => place = [kind |-> "check", id |-> n] /\ connected /\ ~ torn
  <2> SUFFICES ASSUME NEW n \in 1..MaxAppearances, check[n].interval \/ check[n].timer
               PROVE  place = [kind |-> "check", id |-> n] /\ connected /\ ~ torn
    OBVIOUS
  <2>1. place = [kind |-> "check", id |-> n]
    BY DEF AliveInv, ChecksInv
  <2>2. place.kind = "check"
    BY <2>1
  <2> QED BY <2>1, <2>2 DEF AliveInv, PlaceInv
<1> QED BY <1>1 DEF AliveInv, PlaceInv, Earned, Alive!ChecksAreTracked, Alive!Ids

LEMMA AliveInitially == Alive!Init => AliveInv
<1> SUFFICES ASSUME Alive!Init PROVE AliveInv
  OBVIOUS
<1> DEFINE new == [interval |-> FALSE, timer |-> FALSE, waiting |-> FALSE, missed |-> 0, status |-> "healthy"]
<1>1. /\ new \in CheckRecord /\ ~ new.interval /\ ~ new.timer /\ ~ new.waiting /\ new.missed = 0
      /\ new.status = "healthy"
  BY ConnectionsAssumption DEF CheckRecord, CheckStatus
<1>2. check = [n \in 1..MaxAppearances |-> new]
  BY DEF Alive!Init, Alive!Ids
<1> HIDE DEF new
<1>3. check \in [1..MaxAppearances -> CheckRecord] /\ \A n \in 1..MaxAppearances : check[n] = new
  BY <1>1, <1>2
<1>4. /\ place = Alive!None /\ Alive!None.kind = "none"
      /\ Alive!None \in [kind : {"none", "reservation", "check"}, id : 0..MaxAppearances]
  BY ConnectionsAssumption DEF Alive!Init, Alive!None
<1>5. connected \in BOOLEAN /\ torn \in BOOLEAN
  BY DEF Alive!Init
<1>6. AliveTypeOK
  BY <1>3, <1>4, <1>5, ConnectionsAssumption DEF Alive!Init, AliveTypeOK
<1>7. PlaceInv
  BY <1>4 DEF Alive!Init, PlaceInv
<1>8. ChecksInv
  BY <1>1, <1>3 DEF ChecksInv
<1> QED BY <1>6, <1>7, <1>8 DEF AliveInv

LEMMA ConnectAlive == ASSUME AliveInv, Alive!PeerConnect PROVE AliveInv'
<1>1. /\ ~ connected /\ connects \in Nat /\ connects + 1 \in 1..MaxAppearances /\ connects' = connects + 1 /\ connected'
      /\ UNCHANGED <<cancelled, check, unheard, torn>> /\ place.kind = "none"
      /\ place = Alive!None /\ imports \subseteq 1..connects /\ cancelled \subseteq 1..connects
      /\ connected' \in BOOLEAN
  BY ConnectionsAssumption DEF AliveInv, AliveTypeOK, PlaceInv, Alive!PeerConnect
<1> DEFINE new == [kind |-> "reservation", id |-> connects + 1]
<1>2. imports \ cancelled = {}
  <2>1. \A n \in imports \ cancelled : place.kind = "reservation"
    BY DEF AliveInv, PlaceInv
  <2> QED BY <1>1, <2>1
<1>3. \A n \in 1..MaxAppearances : ~ check[n].interval /\ ~ check[n].timer
  <2>1. \A n \in 1..MaxAppearances : check[n].interval \/ check[n].timer => place.kind = "check"
    BY DEF AliveInv, ChecksInv
  <2> QED BY <1>1, <2>1
<1>4. CASE place' = place /\ imports' = imports
  <2>1. AliveTypeOK'
    BY <1>1, <1>4 DEF AliveInv, AliveTypeOK
  <2>2. PlaceInv'
    BY <1>1, <1>2, <1>4 DEF AliveInv, PlaceInv
  <2>3. ChecksInv'
    BY <1>1, <1>3, <1>4 DEF AliveInv, ChecksInv
  <2> QED BY <2>1, <2>2, <2>3 DEF AliveInv
<1>5. CASE ~ torn /\ place' = new /\ imports' = imports \cup {connects + 1}
  <2>0. new.kind = "reservation" /\ new.id = connects + 1
    OBVIOUS
  <2>1. AliveTypeOK'
    BY <1>1, <1>5 DEF AliveInv, AliveTypeOK
  <2>2. PlaceInv'
    BY <1>1, <1>2, <1>5, <2>0 DEF PlaceInv
  <2>3. ChecksInv'
    BY <1>1, <1>3, <1>5 DEF AliveInv, ChecksInv
  <2> QED BY <2>1, <2>2, <2>3 DEF AliveInv
<1> QED BY <1>4, <1>5 DEF Alive!PeerConnect

(* The check is stopped, or its reservation is cancelled. *)
LEMMA StopAlive ==
  ASSUME AliveInv, Alive!StopCheck, UNCHANGED <<connects, imports, unheard>>,
         connected' \in BOOLEAN, torn' \in BOOLEAN
  PROVE  AliveInv'
<1>1. place' = Alive!None /\ Alive!None.kind = "none" /\ Alive!None \in [kind : {"none", "reservation", "check"}, id : 0..MaxAppearances]
  BY ConnectionsAssumption DEF Alive!StopCheck, Alive!None
<1>2. cancelled' = IF place.kind = "reservation" THEN cancelled \cup {place.id} ELSE cancelled
  BY DEF Alive!StopCheck
<1>3. cancelled' \subseteq 1..connects /\ imports \ cancelled' = {}
  <2>1. place.kind = "reservation" => place.id \in 1..connects
    BY DEF AliveInv, PlaceInv
  <2>2. \A n \in imports \ cancelled : place = [kind |-> "reservation", id |-> n]
    BY DEF AliveInv, PlaceInv
  <2>3. \A n \in imports \ cancelled : place.kind = "reservation" /\ place.id = n
    BY <2>2
  <2> QED BY <1>2, <2>1, <2>3 DEF AliveInv, AliveTypeOK
<1>4. /\ check' \in [1..MaxAppearances -> CheckRecord]
      /\ \A n \in 1..MaxAppearances : /\ ~ check'[n].interval /\ ~ check'[n].timer
                                      /\ check'[n].waiting = check[n].waiting
                                      /\ check'[n].missed = check[n].missed /\ check'[n].status = check[n].status
  <2>0. check \in [1..MaxAppearances -> CheckRecord]
    BY DEF AliveInv, AliveTypeOK
  <2>1. CASE place.kind # "check"
    <3>1. \A n \in 1..MaxAppearances : check[n].interval \/ check[n].timer => place.kind = "check"
      BY DEF AliveInv, ChecksInv
    <3> QED BY <2>0, <2>1, <3>1 DEF Alive!StopCheck
  <2>2. CASE place.kind = "check"
    <3> DEFINE m == place.id
               k == [check[m] EXCEPT !.interval = FALSE, !.timer = FALSE]
    <3>1. m \in 1..MaxAppearances /\ check[m] \in CheckRecord
      BY <2>0, <2>2 DEF AliveInv, AliveTypeOK, PlaceInv
    <3>2. /\ k \in CheckRecord /\ ~ k.interval /\ ~ k.timer /\ k.waiting = check[m].waiting
          /\ k.missed = check[m].missed /\ k.status = check[m].status
      BY <3>1 DEF CheckRecord
    <3>3. check' = [check EXCEPT ![m] = k]
      <4>1. check' = [check EXCEPT ![m].interval = FALSE, ![m].timer = FALSE]
        BY <2>2 DEF Alive!StopCheck
      <4> QED BY <2>0, <3>1, <4>1 DEF CheckRecord
    <3>4. \A n \in 1..MaxAppearances : n # m => ~ check[n].interval /\ ~ check[n].timer
      <4>1. \A n \in 1..MaxAppearances : check[n].interval \/ check[n].timer => place.id = n
        BY DEF AliveInv, ChecksInv
      <4> QED BY <4>1
    <3> HIDE DEF k, m
    <3> QED BY <2>0, <3>1, <3>2, <3>3, <3>4
  <2> QED BY <2>1, <2>2
<1>5. AliveTypeOK'
  BY <1>1, <1>3, <1>4 DEF AliveInv, AliveTypeOK
<1>6. PlaceInv'
  BY <1>1, <1>3 DEF PlaceInv
<1>7. ChecksInv'
  BY <1>4 DEF AliveInv, ChecksInv
<1> QED BY <1>5, <1>6, <1>7 DEF AliveInv

(* Only the place, its check and its pings change. *)
LEMMA CheckAlive ==
  ASSUME AliveInv, place.kind = "check", UNCHANGED <<connected, connects, place, imports, cancelled, torn>>,
         NEW k \in CheckRecord, check' = [check EXCEPT ![place.id] = k], k.interval,
         unheard' \in 0..MaxMissed, Earned(k, unheard')
  PROVE  AliveInv'
<1> DEFINE m == place.id
<1>1. m \in 1..connects /\ m \in 1..MaxAppearances /\ connects \in Nat /\ m \notin imports
  BY DEF AliveInv, AliveTypeOK, PlaceInv
<1>2. /\ check' \in [1..MaxAppearances -> CheckRecord] /\ check'[m] = k
      /\ \A n \in 1..MaxAppearances : n # m => check'[n] = check[n]
  BY <1>1 DEF AliveInv, AliveTypeOK
<1>3. place = [kind |-> "check", id |-> m]
  BY DEF AliveInv, AliveTypeOK
<1>4. AliveTypeOK'
  BY <1>2 DEF AliveInv, AliveTypeOK
<1>5. PlaceInv'
  BY <1>2 DEF AliveInv, PlaceInv
<1>6. ChecksInv'
  <2> SUFFICES ASSUME NEW n \in 1..MaxAppearances
               PROVE  /\ check'[n].interval \/ check'[n].timer => place' = [kind |-> "check", id |-> n]
                      /\ n \in imports' \/ n > connects' =>
                           /\ ~ check'[n].waiting /\ ~ check'[n].timer
                           /\ check'[n].missed = 0 /\ check'[n].status = "healthy"
    BY DEF ChecksInv
  <2>1. CASE n = m
    BY <1>1, <1>3, <2>1
  <2>2. CASE n # m
    BY <1>2, <2>2 DEF AliveInv, ChecksInv
  <2> QED BY <2>1, <2>2
<1> QED BY <1>4, <1>5, <1>6 DEF AliveInv

LEMMA MissedAlive ==
  ASSUME NEW k \in CheckRecord, NEW u \in 0..MaxMissed, Earned(k, u), k.waiting
  PROVE  LET d == Alive!Missed(k) IN
         /\ d \in CheckRecord /\ d.interval = k.interval /\ ~ d.waiting /\ ~ d.timer
         /\ Earned(d, u)
<1> DEFINE d == Alive!Missed(k)
<1>1. /\ d.interval = k.interval /\ d.waiting = FALSE /\ d.timer = FALSE
      /\ d.missed = (IF k.missed < MaxMissed THEN k.missed + 1 ELSE k.missed)
      /\ d.status = (IF k.missed + 1 >= MaxMissed THEN "unhealthy" ELSE "degraded")
      /\ k.missed \in 0..MaxMissed
  BY DEF Alive!Missed, CheckRecord
<1>2. d \in CheckRecord
  <2>1. d.missed \in 0..MaxMissed /\ d.status \in CheckStatus
    BY <1>1, ConnectionsAssumption DEF CheckStatus
  <2> QED BY <2>1 DEF CheckRecord, Alive!Missed
<1> HIDE DEF d
<1>3. u = MaxMissed \/ k.missed + 1 =< u
  BY DEF Earned
<1>4. Earned(d, u)
  BY <1>1, <1>3, ConnectionsAssumption DEF Earned
<1> QED BY <1>1, <1>2, <1>4 DEF d

LEMMA AliveStep == AliveInv /\ [Alive!Next]_alive => AliveInv'
<1> SUFFICES ASSUME AliveInv, [Alive!Next]_alive PROVE AliveInv'
  OBVIOUS
<1>1. ASSUME UNCHANGED <<connected, connects, place, imports, cancelled, check, unheard, torn>>
      PROVE  AliveInv'
  <2>1. AliveTypeOK'
    BY <1>1 DEF AliveInv, AliveTypeOK
  <2>2. PlaceInv'
    BY <1>1 DEF AliveInv, PlaceInv
  <2>3. ChecksInv'
    BY <1>1 DEF AliveInv, ChecksInv
  <2> QED BY <2>1, <2>2, <2>3 DEF AliveInv
<1>2. CASE UNCHANGED alive \/ Alive!Answer \/ Alive!Lose \/ Alive!FallSilent
  BY <1>1, <1>2 DEF alive, Alive!Answer, Alive!Lose, Alive!FallSilent
<1>3. CASE Alive!PeerConnect
  BY <1>3, ConnectAlive
<1>4. CASE Alive!PeerDisconnect
  <2>1. connected' = FALSE /\ torn' = torn /\ UNCHANGED <<connects, imports, unheard>>
    BY <1>4 DEF Alive!PeerDisconnect
  <2>2. connected' \in BOOLEAN /\ torn' \in BOOLEAN
    BY <2>1 DEF AliveInv, AliveTypeOK
  <2>3. CASE torn /\ UNCHANGED <<place, cancelled, check>>
    <3>1. place.kind = "none"
      BY <2>3 DEF AliveInv, PlaceInv, AliveTypeOK
    <3>2. AliveTypeOK'
      BY <2>1, <2>2, <2>3 DEF AliveInv, AliveTypeOK
    <3>3. PlaceInv'
      BY <2>1, <2>3, <3>1 DEF AliveInv, PlaceInv
    <3>4. ChecksInv'
      BY <2>1, <2>3 DEF AliveInv, ChecksInv
    <3> QED BY <3>2, <3>3, <3>4 DEF AliveInv
  <2>4. CASE Alive!StopCheck
    BY <2>1, <2>2, <2>4, StopAlive
  <2> QED BY <1>4, <2>3, <2>4 DEF Alive!PeerDisconnect
<1>5. CASE Alive!Teardown
  <2>1. torn' = TRUE /\ connected' = connected /\ UNCHANGED <<connects, imports, unheard>> /\ Alive!StopCheck
    BY <1>5 DEF Alive!Teardown
  <2>2. connected' \in BOOLEAN /\ torn' \in BOOLEAN
    BY <2>1 DEF AliveInv, AliveTypeOK
  <2> QED BY <2>1, <2>2, StopAlive
<1>6. ASSUME NEW n \in 1..MaxAppearances, Alive!BuildCheck(n) PROVE AliveInv'
  <2>1. /\ n \in imports /\ imports' = imports \ {n}
        /\ UNCHANGED <<connected, connects, cancelled, torn>>
    BY <1>6 DEF Alive!BuildCheck
  <2>2. CASE n \in cancelled /\ UNCHANGED <<place, check, unheard>>
    <3>1. AliveTypeOK'
      BY <2>1, <2>2 DEF AliveInv, AliveTypeOK
    <3>2. PlaceInv'
      BY <2>1, <2>2 DEF AliveInv, PlaceInv
    <3>3. ChecksInv'
      BY <2>1, <2>2 DEF AliveInv, ChecksInv
    <3> QED BY <3>1, <3>2, <3>3 DEF AliveInv
  <2>3. CASE /\ n \notin cancelled /\ place' = [kind |-> "check", id |-> n]
             /\ check' = [check EXCEPT ![n].interval = TRUE] /\ unheard' = 0
    <3> DEFINE k == [check[n] EXCEPT !.interval = TRUE]
    <3>1. place = [kind |-> "reservation", id |-> n]
      BY <2>1, <2>3 DEF AliveInv, PlaceInv
    <3>2. /\ place.kind = "reservation" /\ place.id = n /\ n \in 1..connects /\ connected /\ ~ torn
          /\ place'.kind = "check" /\ place'.id = n
          /\ place' \in [kind : {"none", "reservation", "check"}, id : 0..MaxAppearances]
      BY <2>3, <3>1 DEF AliveInv, PlaceInv
    <3>3. /\ check[n] \in CheckRecord /\ ~ check[n].waiting /\ ~ check[n].timer
          /\ check[n].missed = 0 /\ check[n].status = "healthy"
      BY <2>1 DEF AliveInv, AliveTypeOK, ChecksInv
    <3>4. k \in CheckRecord /\ k.interval /\ ~ k.waiting /\ ~ k.timer /\ k.missed = 0 /\ k.status = "healthy"
      BY <3>3 DEF CheckRecord
    <3>5. check' = [check EXCEPT ![n] = k]
      BY <2>3
    <3> HIDE DEF k
    <3>6. /\ check' \in [1..MaxAppearances -> CheckRecord] /\ check'[n] = k
          /\ \A j \in 1..MaxAppearances : j # n => check'[j] = check[j]
      BY <3>4, <3>5 DEF AliveInv, AliveTypeOK
    <3>7. \A j \in 1..MaxAppearances : j # n => ~ check[j].interval /\ ~ check[j].timer
      <4>1. \A j \in 1..MaxAppearances : check[j].interval \/ check[j].timer => place.kind = "check"
        BY DEF AliveInv, ChecksInv
      <4> QED BY <3>2, <4>1
    <3>8. imports' \ cancelled' = {}
      <4>1. \A j \in imports \ cancelled : place.id = j
        BY DEF AliveInv, PlaceInv
      <4> QED BY <2>1, <3>2, <4>1
    <3>9. unheard' \in 0..MaxMissed /\ Earned(k, unheard')
      BY <2>3, <3>4, ConnectionsAssumption DEF Earned
    <3>10. AliveTypeOK'
      BY <2>1, <3>2, <3>6, <3>9 DEF AliveInv, AliveTypeOK
    <3>11. PlaceInv'
      BY <2>1, <3>2, <3>4, <3>6, <3>8, <3>9 DEF PlaceInv
    <3>12. ChecksInv'
      <4> SUFFICES ASSUME NEW j \in 1..MaxAppearances
                   PROVE  /\ check'[j].interval \/ check'[j].timer => place' = [kind |-> "check", id |-> j]
                          /\ j \in imports' \/ j > connects' =>
                               /\ ~ check'[j].waiting /\ ~ check'[j].timer
                               /\ check'[j].missed = 0 /\ check'[j].status = "healthy"
        BY DEF ChecksInv
      <4>1. CASE j = n
        BY <2>3, <3>4, <3>6, <4>1
      <4>2. CASE j # n
        BY <2>1, <3>6, <3>7, <4>2 DEF AliveInv, ChecksInv
      <4> QED BY <4>1, <4>2
    <3> QED BY <3>10, <3>11, <3>12 DEF AliveInv
  <2> QED BY <1>6, <2>2, <2>3 DEF Alive!BuildCheck
<1>7. ASSUME NEW n \in 1..MaxAppearances, Alive!ImportFails(n) PROVE AliveInv'
  <2>1. /\ n \in imports /\ imports' = imports \ {n}
        /\ place' = IF place = [kind |-> "reservation", id |-> n] THEN Alive!None ELSE place
        /\ UNCHANGED <<connected, connects, cancelled, check, unheard, torn>>
    BY <1>7 DEF Alive!ImportFails
  <2>2. Alive!None.kind = "none" /\ Alive!None \in [kind : {"none", "reservation", "check"}, id : 0..MaxAppearances]
    BY ConnectionsAssumption DEF Alive!None
  <2>3. CASE place = [kind |-> "reservation", id |-> n]
    <3>1. place' = Alive!None /\ place.kind = "reservation" /\ place.id = n
      BY <2>1, <2>3
    <3>2. \A j \in imports \ cancelled : place.id = j
      BY DEF AliveInv, PlaceInv
    <3>3. \A j \in 1..MaxAppearances : ~ check[j].interval /\ ~ check[j].timer
      <4>1. \A j \in 1..MaxAppearances : check[j].interval \/ check[j].timer => place.kind = "check"
        BY DEF AliveInv, ChecksInv
      <4> QED BY <3>1, <4>1
    <3>4. AliveTypeOK'
      BY <2>1, <2>2, <3>1 DEF AliveInv, AliveTypeOK
    <3>5. PlaceInv'
      BY <2>1, <2>2, <3>1, <3>2 DEF PlaceInv
    <3>6. ChecksInv'
      BY <2>1, <3>3 DEF AliveInv, ChecksInv
    <3> QED BY <3>4, <3>5, <3>6 DEF AliveInv
  <2>4. CASE place # [kind |-> "reservation", id |-> n]
    <3>1. place' = place
      BY <2>1, <2>4
    <3>2. place.kind = "reservation" => place.id # n
      <4>1. place = [kind |-> place.kind, id |-> place.id]
        BY DEF AliveInv, AliveTypeOK
      <4> QED BY <2>4, <4>1
    <3>4. AliveTypeOK'
      BY <2>1, <3>1 DEF AliveInv, AliveTypeOK
    <3>5. PlaceInv'
      BY <2>1, <3>1, <3>2 DEF AliveInv, PlaceInv
    <3>6. ChecksInv'
      BY <2>1, <3>1 DEF AliveInv, ChecksInv
    <3> QED BY <3>4, <3>5, <3>6 DEF AliveInv
  <2> QED BY <2>3, <2>4
<1>8. ASSUME NEW n \in 1..MaxAppearances, place = [kind |-> "check", id |-> n]
      PROVE  /\ place.kind = "check" /\ place.id = n /\ check[n] \in CheckRecord /\ check[n].interval
             /\ Earned(check[n], unheard) /\ unheard \in 0..MaxMissed
  <2>1. place.kind = "check" /\ place.id = n
    BY <1>8
  <2> QED BY <2>1 DEF AliveInv, AliveTypeOK, PlaceInv
<1>9. ASSUME NEW n \in 1..MaxAppearances, Alive!SendPing(n) PROVE AliveInv'
  <2>1. place = [kind |-> "check", id |-> n]
    BY <1>9 DEF AliveInv, ChecksInv, Alive!SendPing
  <2> DEFINE d == IF check[n].waiting THEN Alive!Missed(check[n]) ELSE check[n]
             k == [d EXCEPT !.waiting = TRUE, !.timer = TRUE]
  <2>2. /\ d \in CheckRecord /\ d.interval /\ ~ d.waiting /\ Earned(d, unheard) /\ unheard \in 0..MaxMissed
    <3>1. CASE check[n].waiting
      BY <1>8, <2>1, <3>1, MissedAlive
    <3>2. CASE ~ check[n].waiting
      BY <1>8, <2>1, <3>2
    <3> QED BY <3>1, <3>2
  <2>3. /\ check' = [check EXCEPT ![n] = k]
        /\ unheard' = (IF unheard < MaxMissed THEN unheard + 1 ELSE unheard)
        /\ UNCHANGED <<connected, connects, place, imports, cancelled, torn>>
    BY <1>9 DEF Alive!SendPing
  <2> HIDE DEF d
  <2>4. /\ k \in CheckRecord /\ k.interval /\ k.waiting /\ k.missed = d.missed /\ k.status = d.status
        /\ d.missed \in 0..MaxMissed
    BY <2>2 DEF CheckRecord
  <2>5. unheard' \in 0..MaxMissed /\ Earned(k, unheard')
    <3> HIDE DEF k
    <3> QED BY <2>2, <2>3, <2>4, ConnectionsAssumption DEF Earned
  <2> QED BY <1>8, <2>1, <2>3, <2>4, <2>5, CheckAlive
<1>10. ASSUME NEW n \in 1..MaxAppearances, Alive!PongTimeout(n) PROVE AliveInv'
  <2>1. place = [kind |-> "check", id |-> n]
    BY <1>10 DEF AliveInv, ChecksInv, Alive!PongTimeout
  <2>2. check[n].waiting
    BY <1>8, <1>10, <2>1 DEF Alive!PongTimeout, Earned
  <2>3. /\ check' = [check EXCEPT ![n] = Alive!Missed(check[n])]
        /\ UNCHANGED <<connected, connects, place, imports, cancelled, torn, unheard>>
    BY <1>10 DEF Alive!PongTimeout
  <2>4. /\ Alive!Missed(check[n]) \in CheckRecord /\ Alive!Missed(check[n]).interval
        /\ Earned(Alive!Missed(check[n]), unheard)
    BY <1>8, <2>1, <2>2, MissedAlive
  <2> QED BY <1>8, <2>1, <2>3, <2>4, CheckAlive
<1>11. CASE Alive!Pong
  <2>1. CASE torn \/ place.kind # "check"
    BY <1>1, <1>11, <2>1 DEF Alive!Pong
  <2>2. CASE ~ (torn \/ place.kind # "check")
    <3> DEFINE n == place.id
               k == [check[n] EXCEPT !.missed = 0, !.waiting = FALSE, !.timer = FALSE, !.status = "healthy"]
    <3>1. n \in 1..MaxAppearances /\ check[n] \in CheckRecord /\ check[n].interval
      BY <2>2 DEF AliveInv, AliveTypeOK, PlaceInv
    <3>2. /\ k \in CheckRecord /\ k.interval /\ ~ k.waiting /\ ~ k.timer /\ k.missed = 0 /\ k.status = "healthy"
      <4>1. 0 \in 0..MaxMissed /\ "healthy" \in CheckStatus
        BY ConnectionsAssumption DEF CheckStatus
      <4>2. k \in CheckRecord
        BY <3>1, <4>1 DEF CheckRecord
      <4>3. k.interval = check[n].interval /\ k.waiting = FALSE /\ k.timer = FALSE /\ k.missed = 0 /\ k.status = "healthy"
        BY <3>1 DEF CheckRecord
      <4> QED BY <3>1, <4>2, <4>3
    <3>3. /\ check' = [check EXCEPT ![n].missed = 0, ![n].waiting = FALSE, ![n].timer = FALSE, ![n].status = "healthy"]
          /\ unheard' = 0 /\ UNCHANGED <<connected, connects, place, imports, cancelled, torn>>
      BY <1>11, <2>2 DEF Alive!Pong
    <3>4. check' = [check EXCEPT ![n] = k]
      BY <3>1, <3>3 DEF AliveInv, AliveTypeOK, CheckRecord
    <3>5. unheard' \in 0..MaxMissed /\ Earned(k, unheard')
      <4> HIDE DEF k
      <4> QED BY <3>2, <3>3, ConnectionsAssumption DEF Earned
    <3> QED BY <2>2, <3>2, <3>3, <3>4, <3>5, CheckAlive
  <2> QED BY <2>1, <2>2
<1> QED BY <1>2, <1>3, <1>4, <1>5, <1>6, <1>7, <1>9, <1>10, <1>11
        DEF Alive!Next, Alive!Imports, Alive!Timers, Alive!Ids

-----------------------------------------------------------------------------
(* A mesh manager.  Of the connections opened so far the one tracked is the *)
(* one that is not closed; a closed one has its control channel closed, so  *)
(* that it never reports another opening.                                   *)
RtcState == {"new", "connecting", "connected", "failed", "closed"}
PcState == {"none", "new", "connecting", "connected", "disconnected", "failed"}
RtcRecord ==
  [state : RtcState, pc : PcState, dc : {"none", "connecting", "open", "closed"},
   signaling : {"stable", "have-local-offer"}, grace : BOOLEAN]

RtcTypeOK ==
  /\ made \in 0..MaxConns /\ tracked \in 0..made /\ timer \in 0..made
  /\ restarts \in 0..MaxReconnectAttempts
  /\ conns \in [1..MaxConns -> RtcRecord]

LiveInv ==
  /\ \A c \in 1..MaxConns : c > made => conns[c] = Rtc!Fresh
  /\ \A c \in 1..made : conns[c].state # "closed" <=> tracked = c
  /\ \A c \in 1..MaxConns : conns[c].state = "closed" => conns[c].dc = "closed"

RtcInv == RtcTypeOK /\ LiveInv

LEMMA RtcSafe == RtcInv => Rtc!TrackedIsLive
BY ConnectionsAssumption DEF RtcInv, RtcTypeOK, LiveInv, Rtc!TrackedIsLive

LEMMA FreshRtc ==
  /\ Rtc!Fresh \in RtcRecord
  /\ Rtc!Fresh.state = "new" /\ Rtc!Fresh.pc = "none" /\ Rtc!Fresh.dc = "none" /\ Rtc!Fresh.grace = FALSE
  /\ Rtc!Fresh.signaling = "stable"
BY DEF Rtc!Fresh, RtcRecord, RtcState, PcState

LEMMA RtcInitially == Rtc!Init => RtcInv
<1> SUFFICES ASSUME Rtc!Init PROVE RtcInv
  OBVIOUS
<1>1. /\ made = 0 /\ tracked = 0 /\ timer = 0 /\ restarts = 0
      /\ conns = [c \in 1..MaxConns |-> Rtc!Fresh]
  BY DEF Rtc!Init, Rtc!Conn
<1>2. RtcTypeOK
  BY <1>1, FreshRtc, ConnectionsAssumption DEF RtcTypeOK
<1>3. LiveInv
  BY <1>1, FreshRtc, ConnectionsAssumption DEF LiveInv
<1> QED BY <1>2, <1>3 DEF RtcInv

(* A connection changes and is as closed as it was. *)
LEMMA RtcMoves ==
  ASSUME RtcInv, NEW c \in 1..made, NEW k \in RtcRecord, conns' = [conns EXCEPT ![c] = k],
         k.state = "closed" <=> conns[c].state = "closed", k.state = "closed" => k.dc = "closed",
         made' = made, tracked' = tracked,
         timer' \in 0..made, restarts' \in 0..MaxReconnectAttempts
  PROVE  RtcInv'
<1>1. c \in 1..MaxConns /\ made \in Nat /\ MaxConns \in Nat
  BY ConnectionsAssumption DEF RtcInv, RtcTypeOK
<1>2. /\ conns' \in [1..MaxConns -> RtcRecord] /\ conns'[c] = k
      /\ \A d \in 1..MaxConns : d # c => conns'[d] = conns[d]
  BY <1>1 DEF RtcInv, RtcTypeOK
<1>3. RtcTypeOK'
  BY <1>2 DEF RtcInv, RtcTypeOK
<1>4. \A d \in 1..MaxConns : d > made => conns'[d] = Rtc!Fresh
  BY <1>1, <1>2 DEF RtcInv, LiveInv
<1>5. \A d \in 1..made : conns'[d].state # "closed" <=> tracked = d
  <2> SUFFICES ASSUME NEW d \in 1..made PROVE conns'[d].state # "closed" <=> tracked = d
    OBVIOUS
  <2>1. d \in 1..MaxConns
    BY <1>1 DEF RtcInv, RtcTypeOK
  <2>2. conns[d].state # "closed" <=> tracked = d
    BY DEF RtcInv, LiveInv
  <2> QED BY <1>2, <2>1, <2>2
<1>6. \A d \in 1..MaxConns : conns'[d].state = "closed" => conns'[d].dc = "closed"
  BY <1>2 DEF RtcInv, LiveInv
<1>7. LiveInv'
  BY <1>4, <1>5, <1>6 DEF LiveInv
<1> QED BY <1>3, <1>7 DEF RtcInv

(* The tracked connection closes and is forgotten. *)
LEMMA RtcCloses ==
  ASSUME RtcInv, NEW c \in 1..made, tracked = c, NEW k \in RtcRecord, conns' = [conns EXCEPT ![c] = k],
         k.state = "closed", k.dc = "closed", made' = made, Rtc!ForgetPeer
  PROVE  RtcInv'
<1>1. c \in 1..MaxConns /\ made \in Nat /\ MaxConns \in Nat
  BY ConnectionsAssumption DEF RtcInv, RtcTypeOK
<1>2. /\ conns' \in [1..MaxConns -> RtcRecord] /\ conns'[c] = k
      /\ \A d \in 1..MaxConns : d # c => conns'[d] = conns[d]
  BY <1>1 DEF RtcInv, RtcTypeOK
<1>3. tracked' = 0 /\ timer' = 0 /\ restarts' = 0
  BY DEF Rtc!ForgetPeer, Rtc!ClearReconnectState
<1>4. RtcTypeOK'
  BY <1>1, <1>2, <1>3, ConnectionsAssumption DEF RtcInv, RtcTypeOK
<1>5. \A d \in 1..MaxConns : d > made => conns'[d] = Rtc!Fresh
  BY <1>1, <1>2 DEF RtcInv, LiveInv
<1>6. \A d \in 1..made : conns'[d].state = "closed"
  <2> SUFFICES ASSUME NEW d \in 1..made PROVE conns'[d].state = "closed"
    OBVIOUS
  <2>1. d \in 1..MaxConns
    BY <1>1 DEF RtcInv, RtcTypeOK
  <2>2. conns[d].state # "closed" <=> tracked = d
    BY DEF RtcInv, LiveInv
  <2> QED BY <1>2, <2>1, <2>2
<1>7. \A d \in 1..MaxConns : conns'[d].state = "closed" => conns'[d].dc = "closed"
  BY <1>2 DEF RtcInv, LiveInv
<1>8. LiveInv'
  BY <1>1, <1>3, <1>5, <1>6, <1>7 DEF LiveInv
<1> QED BY <1>4, <1>8 DEF RtcInv

(* A connection that does anything has been opened. *)
LEMMA RtcOpened ==
  ASSUME RtcInv, NEW c \in 1..MaxConns
  PROVE  /\ conns[c] \in RtcRecord
         /\ \/ conns[c].pc # "none" \/ conns[c].dc # "none" \/ conns[c].grace
            \/ conns[c].state = "closed" \/ c =< made
            => c \in 1..made
<1>1. conns[c] \in RtcRecord /\ made \in Nat /\ (c > made => conns[c] = Rtc!Fresh)
  BY ConnectionsAssumption DEF RtcInv, RtcTypeOK, LiveInv
<1> QED BY <1>1, FreshRtc

LEMMA RtcLive ==
  ASSUME RtcInv, NEW c \in 1..made
  PROVE  /\ conns[c].state # "closed" <=> tracked = c
         /\ conns[c].state = "closed" => conns[c].dc = "closed"
<1>1. c \in 1..MaxConns
  BY ConnectionsAssumption DEF RtcInv, RtcTypeOK
<1> QED BY <1>1 DEF RtcInv, LiveInv

LEMMA RtcSchedules ==
  ASSUME RtcInv, NEW c \in 1..made, Rtc!ScheduleReconnect(c)
  PROVE  tracked' = tracked /\ timer' \in 0..made /\ restarts' \in 0..MaxReconnectAttempts
BY ConnectionsAssumption DEF RtcInv, RtcTypeOK, Rtc!ScheduleReconnect

LEMMA RtcStep == RtcInv /\ [Rtc!Next]_rtc => RtcInv'
<1> SUFFICES ASSUME RtcInv, [Rtc!Next]_rtc PROVE RtcInv'
  OBVIOUS
<1>0. /\ timer \in 0..made /\ tracked \in 0..made /\ made \in 0..MaxConns
      /\ restarts \in 0..MaxReconnectAttempts /\ MaxConns \in Nat
      /\ 0 \in 0..made /\ 0 \in 0..MaxReconnectAttempts
  BY ConnectionsAssumption DEF RtcInv, RtcTypeOK
<1>1. CASE UNCHANGED rtc
  <2>1. RtcTypeOK'
    BY <1>1 DEF rtc, RtcInv, RtcTypeOK
  <2>2. LiveInv'
    BY <1>1 DEF rtc, RtcInv, LiveInv
  <2> QED BY <2>1, <2>2 DEF RtcInv
<1>2. CASE Rtc!ConnectToPeer
  <2>1. /\ tracked = 0 /\ made < MaxConns /\ made' = made + 1 /\ tracked' = made + 1
        /\ UNCHANGED <<conns, restarts, timer>>
    BY <1>2 DEF Rtc!ConnectToPeer
  <2>2. RtcTypeOK'
    BY <1>0, <2>1 DEF RtcInv, RtcTypeOK
  <2>3. \A c \in 1..MaxConns : c > made' => conns'[c] = Rtc!Fresh
    BY <1>0, <2>1 DEF RtcInv, LiveInv
  <2>4. \A c \in 1..made' : conns'[c].state # "closed" <=> tracked' = c
    <3> SUFFICES ASSUME NEW c \in 1..made + 1 PROVE conns[c].state # "closed" <=> made + 1 = c
      BY <2>1
    <3>1. CASE c = made + 1
      <4>1. c \in 1..MaxConns /\ c > made
        BY <1>0, <2>1, <3>1
      <4>2. conns[c] = Rtc!Fresh
        BY <4>1 DEF RtcInv, LiveInv
      <4> QED BY <3>1, <4>2, FreshRtc
    <3>2. CASE c # made + 1
      <4>1. c \in 1..made /\ tracked # c
        BY <1>0, <2>1, <3>2
      <4>2. conns[c].state = "closed"
        BY <4>1, RtcLive
      <4> QED BY <3>2, <4>2
    <3> QED BY <3>1, <3>2
  <2>5. \A c \in 1..MaxConns : conns'[c].state = "closed" => conns'[c].dc = "closed"
    BY <2>1 DEF RtcInv, LiveInv
  <2>6. LiveInv'
    BY <2>3, <2>4, <2>5 DEF LiveInv
  <2> QED BY <2>2, <2>6 DEF RtcInv
<1>3. ASSUME NEW c \in 1..made, Rtc!RestartIce(c),
             made' = made, tracked' = tracked, timer' \in 0..made, restarts' \in 0..MaxReconnectAttempts
      PROVE  RtcInv'
  <2> DEFINE k == [conns[c] EXCEPT !.signaling = "have-local-offer"]
  <2>1. c \in 1..MaxConns
    BY <1>0
  <2>2. conns[c] \in RtcRecord
    BY <2>1, RtcOpened
  <2>3. k \in RtcRecord /\ k.state = conns[c].state /\ k.dc = conns[c].dc
    BY <2>2 DEF RtcRecord
  <2>4. conns' = [conns EXCEPT ![c] = k]
    BY <1>3 DEF Rtc!RestartIce, Rtc!Update
  <2> HIDE DEF k
  <2> QED BY <1>3, <2>3, <2>4, RtcMoves, RtcLive
<1>4. CASE Rtc!ReconnectTimer
  <2>1. timer \in 1..made /\ made' = made /\ tracked' = tracked
    BY <1>0, <1>4 DEF Rtc!ReconnectTimer
  <2>2. CASE Rtc!RestartIce(timer) /\ timer' = 0 /\ UNCHANGED restarts
    BY <1>0, <1>3, <2>1, <2>2
  <2>3. CASE /\ conns' = conns /\ timer' \in 0..made /\ restarts' \in 0..MaxReconnectAttempts
    <3>1. RtcTypeOK'
      BY <2>1, <2>3 DEF RtcInv, RtcTypeOK
    <3>2. LiveInv'
      BY <2>1, <2>3 DEF RtcInv, LiveInv
    <3> QED BY <3>1, <3>2 DEF RtcInv
  <2> QED BY <1>0, <1>4, <2>2, <2>3 DEF Rtc!ReconnectTimer, Rtc!ClearReconnectState
<1>5. ASSUME NEW force \in BOOLEAN, Rtc!ReconnectPeer(force) PROVE RtcInv'
  <2>1. /\ tracked \in 1..made /\ Rtc!RestartIce(tracked)
        /\ made' = made /\ tracked' = tracked /\ timer' = timer /\ restarts' = restarts
    BY <1>0, <1>5 DEF Rtc!ReconnectPeer, Rtc!manager
  <2> QED BY <1>0, <1>3, <2>1
<1>6. ASSUME NEW c \in 1..MaxConns,
             \/ Rtc!CreateOffer(c) \/ Rtc!HandleAnswer(c) \/ Rtc!HandleFreshOffer(c)
             \/ Rtc!PcConnects(c) \/ Rtc!PcDisconnects(c)
      PROVE  RtcInv'
  <2>1. conns[c] \in RtcRecord
    BY RtcOpened
  <2>2. c \in 1..made /\ made' = made /\ tracked' = tracked /\ timer' = timer /\ restarts' = restarts
    BY <1>6, RtcOpened DEF Rtc!CreateOffer, Rtc!HandleAnswer, Rtc!HandleFreshOffer,
       Rtc!PcConnects, Rtc!PcDisconnects, Rtc!manager
  <2>3. \E k \in RtcRecord :
          /\ conns' = [conns EXCEPT ![c] = k]
          /\ k.state = "closed" <=> conns[c].state = "closed"
          /\ k.state = "closed" => k.dc = conns[c].dc
    <3>1. CASE Rtc!CreateOffer(c)
      <4> DEFINE k == [conns[c] EXCEPT !.state = "connecting", !.pc = "new", !.dc = "connecting",
                                       !.signaling = "have-local-offer"]
      <4>1. k \in RtcRecord /\ k.state = "connecting"
        BY <2>1 DEF RtcRecord, RtcState, PcState
      <4>2. conns' = [conns EXCEPT ![c] = k] /\ conns[c].state # "closed"
        BY <3>1 DEF Rtc!CreateOffer, Rtc!Update
      <4> HIDE DEF k
      <4> QED BY <4>1, <4>2
    <3>2. CASE Rtc!HandleAnswer(c)
      <4> DEFINE p == IF conns[c].pc = "failed" THEN "connecting" ELSE conns[c].pc
                 k == [conns[c] EXCEPT !.signaling = "stable", !.pc = p]
      <4>1. p \in PcState
        BY <2>1 DEF RtcRecord, PcState
      <4>2. k \in RtcRecord /\ k.state = conns[c].state /\ k.dc = conns[c].dc
        <5> HIDE DEF p
        <5> QED BY <2>1, <4>1 DEF RtcRecord
      <4>3. conns' = [conns EXCEPT ![c] = k]
        <5>1. conns' = [conns EXCEPT ![c] = [conns[c] EXCEPT !.signaling = "stable",
                          !.pc = IF @ = "failed" THEN "connecting" ELSE @]]
          BY <3>2 DEF Rtc!HandleAnswer, Rtc!Update
        <5>2. k = [conns[c] EXCEPT !.signaling = "stable", !.pc = IF @ = "failed" THEN "connecting" ELSE @]
          BY <2>1 DEF RtcRecord
        <5> HIDE DEF k
        <5> QED BY <5>1, <5>2
      <4> HIDE DEF k
      <4> QED BY <4>2, <4>3
    <3>3. CASE Rtc!HandleFreshOffer(c)
      <4> DEFINE k == [conns[c] EXCEPT !.state = "connecting", !.pc = "new", !.dc = "none",
                                       !.signaling = "stable"]
      <4>1. k \in RtcRecord /\ k.state = "connecting"
        BY <2>1 DEF RtcRecord, RtcState, PcState
      <4>2. conns' = [conns EXCEPT ![c] = k] /\ conns[c].state # "closed"
        BY <3>3 DEF Rtc!HandleFreshOffer, Rtc!Update
      <4> HIDE DEF k
      <4> QED BY <4>1, <4>2
    <3>4. CASE Rtc!PcConnects(c)
      <4> DEFINE k == [conns[c] EXCEPT !.pc = "connected", !.grace = FALSE]
      <4>1. k \in RtcRecord /\ k.state = conns[c].state /\ k.dc = conns[c].dc
        BY <2>1 DEF RtcRecord, PcState
      <4>2. conns' = [conns EXCEPT ![c] = k]
        BY <3>4 DEF Rtc!PcConnects, Rtc!Update
      <4> HIDE DEF k
      <4> QED BY <4>1, <4>2
    <3>5. CASE Rtc!PcDisconnects(c)
      <4> DEFINE k == [conns[c] EXCEPT !.pc = "disconnected", !.grace = TRUE]
      <4>1. k \in RtcRecord /\ k.state = conns[c].state /\ k.dc = conns[c].dc
        BY <2>1 DEF RtcRecord, PcState
      <4>2. conns' = [conns EXCEPT ![c] = k]
        BY <3>5 DEF Rtc!PcDisconnects, Rtc!Update
      <4> HIDE DEF k
      <4> QED BY <4>1, <4>2
    <3> QED BY <1>6, <3>1, <3>2, <3>3, <3>4, <3>5
  <2>4. PICK k \in RtcRecord :
          /\ conns' = [conns EXCEPT ![c] = k]
          /\ k.state = "closed" <=> conns[c].state = "closed"
          /\ k.state = "closed" => k.dc = conns[c].dc
    BY <2>3
  <2>5. k.state = "closed" => k.dc = "closed"
    BY <2>2, <2>4, RtcLive
  <2> QED BY <1>0, <2>2, <2>4, <2>5, RtcMoves
<1>7. ASSUME NEW c \in 1..MaxConns, Rtc!ChannelOpens(c) PROVE RtcInv'
  <2> DEFINE k == [conns[c] EXCEPT !.dc = "open", !.state = "connected"]
  <2>1. conns[c] \in RtcRecord /\ conns[c].dc \in {"none", "connecting"} /\ conns[c].pc # "none"
    BY <1>7, RtcOpened DEF Rtc!ChannelOpens
  <2>2. c \in 1..made
    BY <2>1, RtcOpened
  <2>3. conns[c].state # "closed"
    BY <2>1, <2>2, RtcLive
  <2>4. k \in RtcRecord /\ k.state = "connected"
    BY <2>1 DEF RtcRecord, RtcState
  <2>5. conns' = [conns EXCEPT ![c] = k] /\ made' = made /\ tracked' = tracked
    BY <1>7 DEF Rtc!ChannelOpens, Rtc!Update
  <2>6. timer' \in 0..made /\ restarts' \in 0..MaxReconnectAttempts
    BY <1>0, <1>7 DEF Rtc!ChannelOpens, Rtc!ClearReconnectState
  <2> HIDE DEF k
  <2> QED BY <2>2, <2>3, <2>4, <2>5, <2>6, RtcMoves
<1>8. Rtc!Released \in RtcRecord /\ Rtc!Released.state = "closed" /\ Rtc!Released.dc = "closed"
  BY DEF Rtc!Released, Rtc!Fresh, RtcRecord, RtcState, PcState
<1>9. ASSUME NEW c \in 1..made, conns[c].state # "closed", Rtc!CloseConn(c), made' = made PROVE RtcInv'
  <2>1. conns' = [conns EXCEPT ![c] = Rtc!Released] /\ Rtc!ForgetPeer /\ tracked = c
    BY <1>9, RtcLive DEF Rtc!CloseConn, Rtc!Update
  <2> QED BY <1>8, <1>9, <2>1, RtcCloses
<1>10. ASSUME NEW c \in 1..MaxConns, Rtc!Close(c) PROVE RtcInv'
  <2>1. c \in 1..made /\ tracked = c /\ Rtc!CloseConn(c) /\ made' = made
    BY <1>0, <1>10 DEF Rtc!Close
  <2>2. conns[c].state # "closed"
    BY <2>1, RtcLive
  <2> QED BY <1>9, <2>1, <2>2
<1>11. ASSUME NEW c \in 1..MaxConns, Rtc!ChannelError(c) PROVE RtcInv'
  <2> DEFINE k == [conns[c] EXCEPT !.state = "closed", !.dc = "closed", !.grace = FALSE]
  <2>1. conns[c] \in RtcRecord /\ c \in 1..made
    BY <1>11, RtcOpened DEF Rtc!ChannelError
  <2>2. tracked = c /\ Rtc!ForgetPeer /\ made' = made /\ conns' = [conns EXCEPT ![c] = k]
    BY <1>11, <2>1, RtcLive DEF Rtc!ChannelError, Rtc!Update
  <2>3. k \in RtcRecord /\ k.state = "closed" /\ k.dc = "closed"
    BY <2>1 DEF RtcRecord, RtcState
  <2> HIDE DEF k
  <2> QED BY <2>1, <2>2, <2>3, RtcCloses
<1>12. ASSUME NEW c \in 1..MaxConns, Rtc!PcFails(c) PROVE RtcInv'
  <2> DEFINE s == IF conns[c].state = "closed" THEN conns[c].state ELSE "failed"
             k == [conns[c] EXCEPT !.pc = "failed", !.grace = FALSE, !.state = s]
  <2>1. conns[c] \in RtcRecord /\ c \in 1..made /\ Rtc!ScheduleReconnect(c) /\ made' = made
    BY <1>12, RtcOpened DEF Rtc!PcFails
  <2>2. s \in RtcState /\ (s = "closed" <=> conns[c].state = "closed")
    BY <2>1 DEF RtcRecord, RtcState
  <2>3. conns' = [conns EXCEPT ![c] = k]
    <3>1. conns' = [conns EXCEPT ![c] = [conns[c] EXCEPT !.pc = "failed", !.grace = FALSE,
                                           !.state = IF @ = "closed" THEN @ ELSE "failed"]]
      BY <1>12 DEF Rtc!PcFails, Rtc!Update
    <3>2. k = [conns[c] EXCEPT !.pc = "failed", !.grace = FALSE, !.state = IF @ = "closed" THEN @ ELSE "failed"]
      BY <2>1 DEF RtcRecord
    <3> HIDE DEF k
    <3> QED BY <3>1, <3>2
  <2> HIDE DEF s
  <2>4. k \in RtcRecord /\ k.state = s /\ k.dc = conns[c].dc
    BY <2>1, <2>2 DEF RtcRecord, PcState
  <2>5. k.state = "closed" => k.dc = "closed"
    BY <2>1, <2>2, <2>4, RtcLive
  <2>6. tracked' = tracked /\ timer' \in 0..made /\ restarts' \in 0..MaxReconnectAttempts
    BY <2>1, RtcSchedules
  <2> HIDE DEF k
  <2> QED BY <2>1, <2>2, <2>3, <2>4, <2>5, <2>6, RtcMoves
<1>13. ASSUME NEW c \in 1..MaxConns, Rtc!PcCloses(c) PROVE RtcInv'
  <2>1. c \in 1..made /\ made' = made
    BY <1>13, RtcOpened DEF Rtc!PcCloses
  <2>2. CASE conns[c].state # "closed" /\ Rtc!CloseConn(c)
    BY <1>9, <2>1, <2>2
  <2>3. CASE conns[c].state = "closed" /\ Rtc!Update(c, Rtc!Released) /\ UNCHANGED Rtc!manager
    <3>1. conns' = [conns EXCEPT ![c] = Rtc!Released]
      BY <2>3 DEF Rtc!Update
    <3>2. tracked' = tracked /\ timer' = timer /\ restarts' = restarts
      BY <2>3 DEF Rtc!manager
    <3> QED BY <1>0, <1>8, <2>1, <2>3, <3>1, <3>2, RtcMoves
  <2> QED BY <1>13, <2>2, <2>3 DEF Rtc!PcCloses
<1>14. ASSUME NEW c \in 1..MaxConns, Rtc!GraceExpires(c) PROVE RtcInv'
  <2> DEFINE k == [conns[c] EXCEPT !.grace = FALSE]
  <2>1. conns[c] \in RtcRecord /\ c \in 1..made /\ made' = made
    BY <1>14, RtcOpened DEF Rtc!GraceExpires
  <2>2. conns' = [conns EXCEPT ![c] = k]
    BY <1>14 DEF Rtc!GraceExpires, Rtc!Update
  <2>3. k \in RtcRecord /\ k.state = conns[c].state /\ k.dc = conns[c].dc
    BY <2>1 DEF RtcRecord
  <2>4. tracked' = tracked /\ timer' \in 0..made /\ restarts' \in 0..MaxReconnectAttempts
    BY <1>0, <1>14, <2>1, RtcSchedules DEF Rtc!GraceExpires, Rtc!manager
  <2>5. k.state = "closed" => k.dc = "closed"
    BY <2>1, <2>3, RtcLive
  <2> HIDE DEF k
  <2> QED BY <2>1, <2>2, <2>3, <2>4, <2>5, RtcMoves
<1> QED BY <1>1, <1>2, <1>4, <1>5, <1>6, <1>7, <1>10, <1>11, <1>12, <1>13, <1>14 DEF Rtc!Next, Rtc!Conn

(* Only reconnect() sends an offer, for a connection that is not closed. *)
LEMMA RtcOffers == RtcInv /\ [Rtc!Next]_rtc => Rtc!OffersForTracked
<1> SUFFICES ASSUME RtcInv, [Rtc!Next]_rtc, offered' # offered PROVE offered' = tracked
  BY DEF Rtc!OffersForTracked
<1>1. CASE Rtc!ReconnectTimer
  <2>1. /\ timer # 0 /\ Rtc!CanReconnect(conns[timer]) /\ offered' = timer
    BY <1>1 DEF Rtc!ReconnectTimer, Rtc!RestartIce
  <2>2. timer \in 1..made
    BY <2>1, ConnectionsAssumption DEF RtcInv, RtcTypeOK
  <2>3. conns[timer].state # "closed"
    BY <2>1 DEF Rtc!CanReconnect
  <2> QED BY <2>1, <2>2, <2>3, RtcLive
<1>2. ASSUME NEW force \in BOOLEAN, Rtc!ReconnectPeer(force) PROVE offered' = tracked
  BY <1>2 DEF Rtc!ReconnectPeer, Rtc!RestartIce
<1>3. CASE UNCHANGED rtc \/ Rtc!ConnectToPeer
  BY <1>3 DEF rtc, Rtc!ConnectToPeer
<1>4. ASSUME NEW c \in Rtc!Conn,
             \/ Rtc!CreateOffer(c) \/ Rtc!HandleAnswer(c) \/ Rtc!HandleFreshOffer(c)
             \/ Rtc!ChannelOpens(c) \/ Rtc!ChannelError(c) \/ Rtc!Close(c)
             \/ Rtc!PcConnects(c) \/ Rtc!PcDisconnects(c) \/ Rtc!PcFails(c) \/ Rtc!PcCloses(c) \/ Rtc!GraceExpires(c)
      PROVE  offered' = offered
  BY <1>4 DEF Rtc!CreateOffer, Rtc!HandleAnswer, Rtc!HandleFreshOffer, Rtc!ChannelOpens, Rtc!ChannelError,
     Rtc!Close, Rtc!PcConnects, Rtc!PcDisconnects, Rtc!PcFails, Rtc!PcCloses, Rtc!GraceExpires
<1> QED BY <1>1, <1>2, <1>3, <1>4 DEF Rtc!Next

-----------------------------------------------------------------------------
(* The calls for a transport.  A failover in progress and the flag go       *)
(* together.  As long as no two calls have overlapped, the one in progress, *)
(* if any, runs while no transport is open and the circuit lets it try.     *)
CallRecord ==
  [kind : {"connect", "failover"}, pc : {"negotiating", "sleeping", "ok", "error"},
   left : Nat, allowed : SUBSET Types]
Carrying == [type : Types, open : BOOLEAN]

BackupTypeOK ==
  /\ circuit \in {"closed", "open", "half-open"} /\ failures \in Nat
  /\ dials \in Seq(CallRecord) /\ transports \in Seq(Carrying)
  /\ active \in 0..Len(transports)
  /\ failingOver \in BOOLEAN /\ overlapped \in BOOLEAN

AloneInv ==
  /\ \A i, j \in DOMAIN dials : Backup!InProgress(i) /\ Backup!InProgress(j) => i = j
  /\ Backup!Busy => active = 0 /\ circuit # "open"

BackupInv ==
  /\ BackupTypeOK /\ Backup!NoneForgotten /\ Backup!FlagIsTrue /\ Backup!OpenedForCause
  /\ ~ overlapped => AloneInv

LEMMA BackupSafe == BackupInv => Backup!FailoverIsSound
BY DEF BackupInv, Backup!FailoverIsSound

LEMMA BackupInitially == Backup!Init => BackupInv
<1> SUFFICES ASSUME Backup!Init PROVE BackupInv
  OBVIOUS
<1>1. /\ dials = <<>> /\ transports = <<>> /\ active = 0 /\ circuit = "closed" /\ failures = 0
      /\ failingOver = FALSE /\ overlapped = FALSE
      /\ DOMAIN dials = {} /\ DOMAIN transports = {}
  BY DEF Backup!Init
<1>2. BackupTypeOK
  <2>1. /\ <<>> \in Seq(CallRecord) /\ <<>> \in Seq(Carrying) /\ Len(transports) = 0
        /\ 0 \in 0..0 /\ 0 \in Nat
    BY <1>1
  <2>2. active \in 0..Len(transports)
    BY <1>1, <2>1
  <2> QED BY <1>1, <2>1, <2>2, Zenon DEF BackupTypeOK
<1>3. Backup!NoneForgotten /\ Backup!OpenedForCause
  BY <1>1 DEF Backup!NoneForgotten, Backup!OpenedForCause
<1>4. Backup!FlagIsTrue
  BY <1>1 DEF Backup!FlagIsTrue
<1>5. AloneInv
  BY <1>1 DEF AloneInv, Backup!Busy
<1> QED BY <1>2, <1>3, <1>4, <1>5 DEF BackupInv

LEMMA AddsCall ==
  ASSUME BackupTypeOK, NEW r \in CallRecord, dials' = Append(dials, r)
  PROVE  /\ dials' \in Seq(CallRecord) /\ DOMAIN dials' = DOMAIN dials \cup {Len(dials) + 1}
         /\ Len(dials) + 1 \notin DOMAIN dials /\ dials'[Len(dials) + 1] = r
         /\ \A i \in DOMAIN dials : dials'[i] = dials[i]
BY DEF BackupTypeOK

LEMMA ChangesCall ==
  ASSUME BackupTypeOK, NEW i \in DOMAIN dials, NEW k \in CallRecord, dials' = [dials EXCEPT ![i] = k]
  PROVE  /\ dials' \in Seq(CallRecord) /\ DOMAIN dials' = DOMAIN dials /\ dials'[i] = k
         /\ \A j \in DOMAIN dials : j # i => dials'[j] = dials[j]
<1>1. dials \in [1..Len(dials) -> CallRecord] /\ Len(dials) \in Nat /\ DOMAIN dials = 1..Len(dials)
  BY DEF BackupTypeOK
<1>2. dials' \in [1..Len(dials) -> CallRecord]
  BY <1>1
<1>3. dials' \in Seq(CallRecord)
  BY <1>1, <1>2, SeqDef, ZenonT(60)
<1> QED BY <1>1, <1>2, <1>3

(* A call begins an execution or is refused; what it did to the transports  *)
(* before is given.                                                         *)
LEMMA CallBegins ==
  ASSUME BackupInv, NEW kind \in {"connect", "failover"}, NEW allowed \in SUBSET Types,
         kind = "failover" /\ Backup!Execute(kind, allowed) => ~ failingOver,
         \/ Backup!Execute(kind, allowed) /\ active' = 0
         \/ Backup!Refused(kind) /\ active' \in {0, active},
         failures' = failures, transports' \in Seq(Carrying), active' \in 0..Len(transports'),
         Backup!NoneForgotten'
  PROVE  BackupInv'
<1>z. PICK z : z = Len(dials) + 1
  OBVIOUS
<1>1. CASE Backup!Execute(kind, allowed) /\ active' = 0
  <2> DEFINE r == [kind |-> kind, pc |-> "negotiating", left |-> Backup!Attempts - 1, allowed |-> allowed]
  <2>1. /\ circuit # "open" \/ cooled
        /\ circuit' = (IF circuit = "open" THEN "half-open" ELSE circuit)
        /\ failingOver' = (failingOver \/ kind = "failover")
        /\ dials' = Append(dials, r)
        /\ overlapped' = (overlapped \/ Backup!Busy)
    BY <1>1 DEF Backup!Execute, Backup!Admits, Backup!Call
  <2>2. r \in CallRecord /\ r.kind = kind /\ r.pc = "negotiating"
    <3>1. Backup!Attempts - 1 \in Nat
      BY ConnectionsAssumption DEF Backup!Attempts
    <3> QED BY <3>1 DEF CallRecord
  <2> HIDE DEF r
  <2>3. /\ dials' \in Seq(CallRecord) /\ DOMAIN dials' = DOMAIN dials \cup {z}
        /\ z \notin DOMAIN dials /\ dials'[z] = r
        /\ \A i \in DOMAIN dials : dials'[i] = dials[i]
    BY <1>z, <2>1, <2>2, AddsCall DEF BackupInv
  <2>4. BackupTypeOK'
    BY <2>1, <2>3 DEF BackupInv, BackupTypeOK, Backup!Busy
  <2>5. Backup!FlagIsTrue'
    <3>1. failingOver <=> \E i \in DOMAIN dials : Backup!InProgress(i) /\ dials[i].kind = "failover"
      BY DEF BackupInv, Backup!FlagIsTrue
    <3>2. kind = "failover" => \A i \in DOMAIN dials : ~ (Backup!InProgress(i) /\ dials[i].kind = "failover")
      BY <1>1, <3>1
    <3>3. /\ Backup!InProgress(z)' /\ dials'[z].kind = kind
          /\ \A i \in DOMAIN dials : (Backup!InProgress(i)' <=> Backup!InProgress(i)) /\ dials'[i].kind = dials[i].kind
      BY <2>2, <2>3 DEF Backup!InProgress
    <3>4. failingOver' <=> \E i \in DOMAIN dials' : Backup!InProgress(i)' /\ dials'[i].kind = "failover"
      BY <2>1, <2>3, <3>1, <3>3
    <3>5. ASSUME NEW i \in DOMAIN dials', NEW j \in DOMAIN dials', Backup!InProgress(i)', Backup!InProgress(j)',
                 dials'[i].kind = "failover", dials'[j].kind = "failover"
          PROVE  i = j
      BY <2>3, <3>2, <3>3, <3>5 DEF BackupInv, Backup!FlagIsTrue
    <3> QED BY <3>4, <3>5 DEF Backup!FlagIsTrue
  <2>6. Backup!OpenedForCause'
    BY <2>1 DEF BackupInv, Backup!OpenedForCause
  <2>7. ~ overlapped' => AloneInv'
    <3> SUFFICES ASSUME ~ overlapped' PROVE AloneInv'
      OBVIOUS
    <3>1. \A i \in DOMAIN dials : ~ Backup!InProgress(i)
      BY <2>1 DEF Backup!Busy
    <3>2. \A i \in DOMAIN dials' : Backup!InProgress(i)' => i = z
      BY <2>3, <3>1 DEF Backup!InProgress
    <3> QED BY <1>1, <2>1, <3>2 DEF AloneInv
  <2> QED BY <2>4, <2>5, <2>6, <2>7 DEF BackupInv
<1>2. CASE Backup!Refused(kind) /\ active' \in {0, active}
  <2> DEFINE r == [kind |-> kind, pc |-> "error", left |-> Backup!Attempts - 1, allowed |-> {}]
  <2>1. dials' = Append(dials, r) /\ UNCHANGED <<circuit, failingOver, overlapped>>
    BY <1>2 DEF Backup!Refused, Backup!Call
  <2>2. r \in CallRecord /\ r.pc = "error" /\ r.pc \notin {"negotiating", "sleeping"}
    <3>1. Backup!Attempts - 1 \in Nat
      BY ConnectionsAssumption DEF Backup!Attempts
    <3> QED BY <3>1 DEF CallRecord
  <2> HIDE DEF r
  <2>3. /\ dials' \in Seq(CallRecord) /\ DOMAIN dials' = DOMAIN dials \cup {z}
        /\ z \notin DOMAIN dials /\ dials'[z] = r
        /\ \A i \in DOMAIN dials : dials'[i] = dials[i]
    BY <1>z, <2>1, <2>2, AddsCall DEF BackupInv
  <2>4. /\ ~ Backup!InProgress(z)'
        /\ \A i \in DOMAIN dials : Backup!InProgress(i)' <=> Backup!InProgress(i)
    BY <2>2, <2>3 DEF Backup!InProgress
  <2>5. BackupTypeOK'
    BY <2>1, <2>3 DEF BackupInv, BackupTypeOK
  <2>6. Backup!FlagIsTrue'
    <3>1. failingOver <=> \E i \in DOMAIN dials : Backup!InProgress(i) /\ dials[i].kind = "failover"
      BY DEF BackupInv, Backup!FlagIsTrue
    <3>2. failingOver' <=> \E i \in DOMAIN dials' : Backup!InProgress(i)' /\ dials'[i].kind = "failover"
      BY <2>1, <2>3, <2>4, <3>1
    <3>3. ASSUME NEW i \in DOMAIN dials', NEW j \in DOMAIN dials', Backup!InProgress(i)', Backup!InProgress(j)',
                 dials'[i].kind = "failover", dials'[j].kind = "failover"
          PROVE  i = j
      BY <2>3, <2>4, <3>3 DEF BackupInv, Backup!FlagIsTrue
    <3> QED BY <3>2, <3>3 DEF Backup!FlagIsTrue
  <2>7. Backup!OpenedForCause'
    BY <2>1 DEF BackupInv, Backup!OpenedForCause
  <2>8. ~ overlapped' => AloneInv'
    <3> SUFFICES ASSUME ~ overlapped' PROVE AloneInv'
      OBVIOUS
    <3>1. AloneInv
      BY <2>1 DEF BackupInv
    <3>2. \A i \in DOMAIN dials' : Backup!InProgress(i)' => i \in DOMAIN dials /\ Backup!InProgress(i)
      BY <2>3, <2>4
    <3>3. Backup!Busy' => Backup!Busy
      BY <3>2 DEF Backup!Busy
    <3> QED BY <1>2, <2>1, <3>1, <3>2, <3>3 DEF AloneInv
  <2> QED BY <2>5, <2>6, <2>7, <2>8 DEF BackupInv
<1> QED BY <1>1, <1>2

(* Closing the active transport *)
LEMMA ActiveCloses ==
  ASSUME BackupInv, Backup!CloseActive
  PROVE  /\ active' = 0 /\ transports' \in Seq(Carrying) /\ active' \in 0..Len(transports')
         /\ overlapped' = overlapped \/ overlapped' => Backup!NoneForgotten'
<1>1. /\ active' = 0
      /\ transports' = [n \in DOMAIN transports |-> [transports[n] EXCEPT !.open = @ /\ n # active]]
  BY DEF Backup!CloseActive
<1>2. \A n \in DOMAIN transports : /\ transports'[n] \in Carrying
                                   /\ transports'[n].open => transports[n].open /\ n # active
  <2> SUFFICES ASSUME NEW n \in DOMAIN transports
               PROVE  /\ transports'[n] \in Carrying
                      /\ transports'[n].open => transports[n].open /\ n # active
    OBVIOUS
  <2> DEFINE b == transports[n].open /\ n # active
  <2>1. transports[n] \in Carrying
    BY DEF BackupInv, BackupTypeOK
  <2>2. transports'[n] = [transports[n] EXCEPT !.open = b]
    BY <1>1
  <2>3. b \in BOOLEAN
    OBVIOUS
  <2>4. transports'[n] \in Carrying /\ transports'[n].open = b
    <3> HIDE DEF b
    <3> QED BY <2>1, <2>2, <2>3 DEF Carrying
  <2> QED BY <2>4
<1>3. DOMAIN transports' = DOMAIN transports /\ Len(transports') = Len(transports) /\ transports' \in Seq(Carrying)
  <2>1. DOMAIN transports = 1..Len(transports) /\ Len(transports) \in Nat
    BY DEF BackupInv, BackupTypeOK
  <2>2. transports' \in [1..Len(transports) -> Carrying]
    BY <1>1, <1>2, <2>1
  <2>3. transports' \in Seq(Carrying)
    BY <2>1, <2>2, SeqDef
  <2> QED BY <1>1, <2>1, <2>2, <2>3
<1>4. ASSUME overlapped' = overlapped \/ overlapped' PROVE Backup!NoneForgotten'
  <2>1. ASSUME ~ overlapped', NEW n \in DOMAIN transports', transports'[n].open PROVE n = active'
    <3>1. n \in DOMAIN transports /\ transports[n].open /\ n # active /\ ~ overlapped
      BY <1>2, <1>3, <1>4, <2>1
    <3> QED BY <3>1 DEF BackupInv, Backup!NoneForgotten
  <2> QED BY <1>1, <2>1 DEF Backup!NoneForgotten
<1>5. Len(transports') \in Nat
  BY <1>3 DEF BackupInv, BackupTypeOK
<1> QED BY <1>1, <1>3, <1>4, <1>5

LEMMA FailoverStarts == BackupInv /\ Backup!StartFailover => BackupInv'
<1> SUFFICES ASSUME BackupInv, Backup!StartFailover PROVE BackupInv'
  OBVIOUS
<1> DEFINE allowed == Types \ Backup!FailedNow
<1>1. /\ ~ failingOver /\ Backup!CloseActive /\ failures' = failures
      /\ Backup!Execute("failover", allowed) \/ Backup!Refused("failover")
  BY DEF Backup!StartFailover, Backup!NotFailingOver
<1>2. overlapped' = overlapped \/ overlapped'
  BY <1>1 DEF Backup!Execute, Backup!Refused, BackupInv, BackupTypeOK
<1>3. /\ active' = 0 /\ transports' \in Seq(Carrying) /\ active' \in 0..Len(transports')
      /\ Backup!NoneForgotten'
  BY <1>1, <1>2, ActiveCloses
<1>4. allowed \in SUBSET Types
  OBVIOUS
<1> HIDE DEF allowed
<1> QED BY <1>1, <1>3, <1>4, CallBegins

LEMMA NegotiationStarts == BackupInv /\ Backup!Negotiate => BackupInv'
<1> SUFFICES ASSUME BackupInv, Backup!Negotiate PROVE BackupInv'
  OBVIOUS
<1>1. CASE active # 0 /\ Backup!StartFailover
  BY <1>1, FailoverStarts
<1>2. CASE /\ \/ active = 0 /\ Backup!Connect
              \/ active # 0 /\ Backup!Refused("failover") /\ UNCHANGED <<failures, active, transports>>
  <2>1. /\ failures' = failures /\ active' = active /\ transports' = transports
        /\ \/ Backup!Execute("connect", Types) /\ active = 0
           \/ Backup!Refused("connect")
           \/ Backup!Refused("failover")
    BY <1>2 DEF Backup!Connect
  <2>2. transports' \in Seq(Carrying) /\ active' \in 0..Len(transports')
    BY <2>1 DEF BackupInv, BackupTypeOK
  <2>3. ~ overlapped' => ~ overlapped
    <3>1. ASSUME NEW kind, Backup!Execute(kind, Types) PROVE ~ overlapped' => ~ overlapped
      <4>1. overlapped' = (overlapped \/ Backup!Busy)
        BY <3>1 DEF Backup!Execute
      <4> QED BY <4>1
    <3>2. ASSUME NEW kind, Backup!Refused(kind) PROVE ~ overlapped' => ~ overlapped
      BY <3>2 DEF Backup!Refused
    <3> QED BY <2>1, <3>1, <3>2
  <2>4. Backup!NoneForgotten'
    BY <2>1, <2>3 DEF BackupInv, Backup!NoneForgotten
  <2>5. CASE Backup!Execute("connect", Types) /\ active = 0
    BY <2>1, <2>2, <2>4, <2>5, CallBegins
  <2>6. ASSUME NEW kind \in {"connect", "failover"}, Backup!Refused(kind) PROVE BackupInv'
    <3>1. Backup!Refused(kind) /\ active' \in {0, active}
      BY <2>1, <2>6
    <3>2. ASSUME Backup!Execute(kind, Types) PROVE FALSE
      BY <2>6, <3>2 DEF Backup!Refused, Backup!Execute, Backup!Call
    <3> QED BY <2>1, <2>2, <2>4, <3>1, <3>2, CallBegins
  <2> QED BY <2>1, <2>5, <2>6
<1> QED BY <1>1, <1>2 DEF Backup!Negotiate

(* A call that is in progress goes on or ends. *)
LEMMA CallEnds ==
  ASSUME BackupInv, NEW i \in DOMAIN dials, Backup!InProgress(i),
         NEW k \in CallRecord, dials' = [dials EXCEPT ![i] = k], k.kind = dials[i].kind,
         k.pc \in {"ok", "error"},
         failingOver' = (failingOver /\ dials[i].kind # "failover"), overlapped' = overlapped
  PROVE  /\ dials' \in Seq(CallRecord) /\ Backup!FlagIsTrue' /\ failingOver' \in BOOLEAN
         /\ ~ overlapped' => ~ Backup!Busy'
<1>1. /\ dials' \in Seq(CallRecord) /\ DOMAIN dials' = DOMAIN dials /\ dials'[i] = k
      /\ \A j \in DOMAIN dials : j # i => dials'[j] = dials[j]
  BY ChangesCall DEF BackupInv
<1>2. /\ ~ Backup!InProgress(i)'
      /\ \A j \in DOMAIN dials : j # i => (Backup!InProgress(j)' <=> Backup!InProgress(j)) /\ dials'[j].kind = dials[j].kind
  BY <1>1 DEF Backup!InProgress
<1>3. failingOver' <=> \E j \in DOMAIN dials' : Backup!InProgress(j)' /\ dials'[j].kind = "failover"
  <2>1. failingOver <=> \E j \in DOMAIN dials : Backup!InProgress(j) /\ dials[j].kind = "failover"
    BY DEF BackupInv, Backup!FlagIsTrue
  <2>2. dials[i].kind = "failover" =>
          \A j \in DOMAIN dials : Backup!InProgress(j) /\ dials[j].kind = "failover" => j = i
    BY DEF BackupInv, Backup!FlagIsTrue
  <2> QED BY <1>1, <1>2, <2>1, <2>2
<1>4. Backup!FlagIsTrue'
  <2>1. ASSUME NEW j \in DOMAIN dials', NEW l \in DOMAIN dials', Backup!InProgress(j)', Backup!InProgress(l)',
               dials'[j].kind = "failover", dials'[l].kind = "failover"
        PROVE  j = l
    BY <1>1, <1>2, <2>1 DEF BackupInv, Backup!FlagIsTrue
  <2> QED BY <1>3, <2>1 DEF Backup!FlagIsTrue
<1>5. ~ overlapped' => ~ Backup!Busy'
  BY <1>1, <1>2 DEF BackupInv, AloneInv, Backup!Busy
<1> QED BY <1>1, <1>4, <1>5

LEMMA CallGoesOn ==
  ASSUME BackupInv, NEW i \in DOMAIN dials, Backup!InProgress(i),
         NEW k \in CallRecord, dials' = [dials EXCEPT ![i] = k], k.kind = dials[i].kind,
         k.pc \in {"negotiating", "sleeping"},
         failures' >= failures, failures' \in Nat,
         UNCHANGED <<circuit, active, transports, failingOver, overlapped>>
  PROVE  BackupInv'
<1>1. /\ dials' \in Seq(CallRecord) /\ DOMAIN dials' = DOMAIN dials /\ dials'[i] = k
      /\ \A j \in DOMAIN dials : j # i => dials'[j] = dials[j]
  BY ChangesCall DEF BackupInv
<1>2. \A j \in DOMAIN dials : (Backup!InProgress(j)' <=> Backup!InProgress(j)) /\ dials'[j].kind = dials[j].kind
  BY <1>1 DEF Backup!InProgress
<1>3. BackupTypeOK'
  BY <1>1 DEF BackupInv, BackupTypeOK
<1>4. Backup!NoneForgotten'
  BY DEF BackupInv, Backup!NoneForgotten
<1>5. Backup!FlagIsTrue'
  BY <1>1, <1>2 DEF BackupInv, Backup!FlagIsTrue
<1>6. Backup!OpenedForCause'
  BY ConnectionsAssumption DEF BackupInv, BackupTypeOK, Backup!OpenedForCause
<1>7. ~ overlapped' => AloneInv'
  BY <1>1, <1>2 DEF BackupInv, AloneInv, Backup!Busy
<1> QED BY <1>3, <1>4, <1>5, <1>6, <1>7 DEF BackupInv

LEMMA CallSucceeds ==
  ASSUME BackupInv, NEW i \in DOMAIN dials, NEW t \in Types, Backup!Succeeds(i, t)
  PROVE  BackupInv'
<1> DEFINE k == [dials[i] EXCEPT !.pc = "ok"]
           new == [type |-> t, open |-> TRUE]
           z == Len(transports) + 1
<1>1. /\ dials[i].pc = "negotiating" /\ failures' = 0
      /\ circuit' = (IF circuit = "half-open" THEN "closed" ELSE circuit)
      /\ transports' = Append(transports, new) /\ active' = z
      /\ dials' = [dials EXCEPT ![i].pc = "ok"]
      /\ failingOver' = (failingOver /\ dials[i].kind # "failover") /\ overlapped' = overlapped
  BY Zenon DEF Backup!Succeeds, Backup!Ends
<1>2. dials[i] \in CallRecord
  BY DEF BackupInv, BackupTypeOK
<1>3. k \in CallRecord /\ k.kind = dials[i].kind /\ k.pc = "ok"
  BY <1>2 DEF CallRecord
<1>4. dials' = [dials EXCEPT ![i] = k]
  BY <1>1
<1> HIDE DEF k
<1>5. /\ dials' \in Seq(CallRecord) /\ Backup!FlagIsTrue' /\ failingOver' \in BOOLEAN
      /\ ~ overlapped' => ~ Backup!Busy'
  BY <1>1, <1>3, <1>4, CallEnds DEF Backup!InProgress
<1>6. new \in Carrying /\ new.open = TRUE
  BY DEF Carrying
<1> HIDE DEF new
<1>7. /\ transports' \in Seq(Carrying) /\ Len(transports') = z /\ DOMAIN transports' = DOMAIN transports \cup {z}
      /\ transports'[z] = new /\ \A n \in DOMAIN transports : transports'[n] = transports[n]
      /\ z \in Nat /\ z # 0
  BY <1>1, <1>6 DEF BackupInv, BackupTypeOK
<1> HIDE DEF z
<1>8. BackupTypeOK'
  BY <1>1, <1>5, <1>7 DEF BackupInv, BackupTypeOK
<1>9. ~ overlapped => active = 0 /\ circuit # "open"
  BY <1>1 DEF BackupInv, AloneInv, Backup!Busy, Backup!InProgress
<1>10. Backup!NoneForgotten'
  <2>1. ASSUME ~ overlapped', NEW n \in DOMAIN transports', transports'[n].open PROVE n = active'
    <3>1. CASE n = z
      BY <1>1, <3>1
    <3>2. CASE n \in DOMAIN transports
      <4>1. n \in 1..Len(transports) /\ transports[n].open /\ n = active
        BY <1>1, <1>7, <2>1, <3>2 DEF BackupInv, BackupTypeOK, Backup!NoneForgotten
      <4> QED BY <1>1, <1>9, <2>1, <4>1
    <3> QED BY <1>7, <3>1, <3>2
  <2> QED BY <1>1, <1>6, <1>7, <2>1 DEF Backup!NoneForgotten
<1>11. Backup!OpenedForCause' /\ (~ overlapped' => AloneInv')
  <2>1. circuit \in {"closed", "open", "half-open"}
    BY DEF BackupInv, BackupTypeOK
  <2>2. ~ overlapped' => circuit' = "closed"
    BY <1>1, <1>9, <2>1
  <2>3. Backup!OpenedForCause'
    BY <2>2 DEF Backup!OpenedForCause
  <2>4. ~ overlapped' => AloneInv'
    <3>1. ~ Backup!Busy' => AloneInv'
      BY DEF AloneInv, Backup!Busy
    <3> QED BY <1>5, <3>1
  <2> QED BY <2>3, <2>4
<1> QED BY <1>5, <1>8, <1>10, <1>11 DEF BackupInv

LEMMA CallFails ==
  ASSUME BackupInv, NEW i \in DOMAIN dials, Backup!Fails(i)
  PROVE  BackupInv'
<1>1. /\ dials[i].pc = "negotiating" /\ failures' = failures + 1
      /\ UNCHANGED <<active, transports, overlapped>>
  BY DEF Backup!Fails
<1>2. dials[i] \in CallRecord /\ failures \in Nat /\ MaxRetries \in Nat /\ Backup!InProgress(i)
  BY <1>1, ConnectionsAssumption DEF BackupInv, BackupTypeOK, Backup!InProgress
<1>3. CASE /\ dials[i].left > 0 /\ UNCHANGED <<circuit, failingOver>>
           /\ dials' = [dials EXCEPT ![i].pc = "sleeping", ![i].left = @ - 1]
  <2> DEFINE k == [dials[i] EXCEPT !.pc = "sleeping", !.left = @ - 1]
  <2>1. k \in CallRecord /\ k.kind = dials[i].kind /\ k.pc = "sleeping"
    <3>1. dials[i].left \in Nat /\ dials[i].left - 1 \in Nat
      BY <1>2, <1>3 DEF CallRecord
    <3> QED BY <1>2, <3>1 DEF CallRecord
  <2>2. dials' = [dials EXCEPT ![i] = k]
    BY <1>2, <1>3 DEF BackupInv, BackupTypeOK, CallRecord
  <2> HIDE DEF k
  <2>3. failures' >= failures /\ failures' \in Nat
    BY <1>1, <1>2
  <2>4. /\ k.pc \in {"negotiating", "sleeping"}
        /\ UNCHANGED <<circuit, active, transports, failingOver, overlapped>>
    BY <1>1, <1>3, <2>1
  <2> QED BY <1>2, <2>1, <2>2, <2>3, <2>4, CallGoesOn
<1>4. CASE /\ circuit' = (IF failures + 1 >= MaxRetries THEN "open" ELSE circuit)
           /\ Backup!Ends(i, "error")
  <2> DEFINE k == [dials[i] EXCEPT !.pc = "error"]
  <2>1. k \in CallRecord /\ k.kind = dials[i].kind /\ k.pc = "error"
    BY <1>2 DEF CallRecord
  <2>2. dials' = [dials EXCEPT ![i] = k] /\ failingOver' = (failingOver /\ dials[i].kind # "failover")
    BY <1>4 DEF Backup!Ends
  <2> HIDE DEF k
  <2>3. /\ dials' \in Seq(CallRecord) /\ Backup!FlagIsTrue' /\ failingOver' \in BOOLEAN
        /\ ~ overlapped' => ~ Backup!Busy'
    BY <1>1, <1>2, <2>1, <2>2, CallEnds
  <2>4. BackupTypeOK'
    BY <1>1, <1>2, <1>4, <2>3 DEF BackupInv, BackupTypeOK
  <2>5. Backup!NoneForgotten'
    BY <1>1 DEF BackupInv, Backup!NoneForgotten
  <2>6. Backup!OpenedForCause'
    BY <1>1, <1>2, <1>4 DEF BackupInv, Backup!OpenedForCause
  <2>7. ~ overlapped' => AloneInv'
    BY <2>3 DEF AloneInv, Backup!Busy
  <2> QED BY <2>3, <2>4, <2>5, <2>6, <2>7 DEF BackupInv
<1> QED BY <1>3, <1>4 DEF Backup!Fails

LEMMA BackupStep == BackupInv /\ [Backup!Next]_backup => BackupInv'
<1> SUFFICES ASSUME BackupInv, [Backup!Next]_backup PROVE BackupInv'
  OBVIOUS
<1>1. ASSUME UNCHANGED <<circuit, failures, active, failingOver, dials, transports, overlapped>>
      PROVE  BackupInv'
  <2>1. \A i : Backup!InProgress(i)' <=> Backup!InProgress(i)
    BY <1>1 DEF Backup!InProgress
  <2>2. BackupTypeOK' /\ Backup!NoneForgotten' /\ Backup!OpenedForCause'
    BY <1>1 DEF BackupInv, BackupTypeOK, Backup!NoneForgotten, Backup!OpenedForCause
  <2>3. Backup!FlagIsTrue'
    BY <1>1, <2>1 DEF BackupInv, Backup!FlagIsTrue
  <2>4. ~ overlapped' => AloneInv'
    BY <1>1, <2>1 DEF BackupInv, AloneInv, Backup!Busy
  <2> QED BY <2>2, <2>3, <2>4 DEF BackupInv
<1>2. CASE UNCHANGED backup \/ Backup!Cool
  BY <1>1, <1>2 DEF backup, Backup!Cool
<1>3. CASE Backup!TriggerFailover
  BY <1>3, FailoverStarts DEF Backup!TriggerFailover
<1>4. ASSUME NEW i \in DOMAIN dials, Backup!Wakes(i) PROVE BackupInv'
  <2> DEFINE k == [dials[i] EXCEPT !.pc = "negotiating"]
  <2>1. /\ dials[i].pc = "sleeping" /\ dials' = [dials EXCEPT ![i] = k]
        /\ UNCHANGED <<circuit, failures, active, transports, failingOver, overlapped>>
    BY <1>4 DEF Backup!Wakes
  <2>2. k \in CallRecord /\ k.kind = dials[i].kind /\ k.pc = "negotiating"
    <3>1. dials[i] \in CallRecord
      BY DEF BackupInv, BackupTypeOK
    <3> QED BY <3>1 DEF CallRecord
  <2>3. failures' >= failures /\ failures' \in Nat /\ Backup!InProgress(i)
    BY <2>1 DEF BackupInv, BackupTypeOK, Backup!InProgress
  <2> HIDE DEF k
  <2>4. /\ k.pc \in {"negotiating", "sleeping"}
        /\ UNCHANGED <<circuit, active, transports, failingOver, overlapped>>
    BY <2>1, <2>2
  <2> QED BY <2>1, <2>2, <2>3, <2>4, CallGoesOn
<1> QED BY <1>2, <1>3, <1>4, NegotiationStarts, CallSucceeds, CallFails DEF Backup!Next

-----------------------------------------------------------------------------
(* A behaviour runs one of the components, and the others rest.  What is    *)
(* said of the connection of a client holds until the first connect() that  *)
(* did not wait for a close() under way.                                    *)
TransportInv ==
  /\ crossed \in BOOLEAN
  /\ ~ crossed => ConnInv /\ StreamsInv /\ (run # "wisp" => opened = 0) /\ (run = "websocket" => SendInv)
  /\ AliveInv /\ RtcInv /\ BackupInv

LEMMA TransportInitially == MCInit => TransportInv
<1> SUFFICES ASSUME MCInit PROVE TransportInv
  OBVIOUS
<1>1. Client!TransportInit /\ Client!ClientInit /\ Alive!Init /\ Rtc!Init /\ Backup!Init
  BY DEF MCInit
<1>2. Client!ConnInit /\ opened = 0 /\ crossed \in BOOLEAN
  BY <1>1 DEF Client!ClientInit, Client!ConnInit
<1> QED BY <1>1, <1>2, ConnInitially, SendInitially, StreamsInitially, AliveInitially, RtcInitially,
           BackupInitially DEF TransportInv

LEMMA OthersRest ==
  [MCNext]_all => /\ run' = run /\ [Alive!Next]_alive /\ [Rtc!Next]_rtc /\ [Backup!Next]_backup
                  /\ run \notin {"websocket", "wisp"} => UNCHANGED <<conn, streams>>
                  /\ run = "websocket" => (Client!TransportNext \/ UNCHANGED <<conn, sending>>) /\ UNCHANGED streams
                  /\ run = "wisp" => Client!ClientNext \/ UNCHANGED <<conn, streams>>
BY DEF MCNext, all, alive, rtc, backup

(* Only connect() crosses a close(), and what was crossed stays so.         *)
LEMMA Crossing ==
  ASSUME crossed \in BOOLEAN, [MCNext]_all
  PROVE  crossed' \in BOOLEAN /\ (crossed => crossed') /\ (crossed' => crossed \/ Client!Connect)
<1>1. CASE UNCHANGED conn
  BY <1>1 DEF conn
<1>2. CASE Client!Connect
  BY <1>2 DEF Client!Connect
<1>3. ASSUME Client!TransportNext \/ Client!ClientNext PROVE UNCHANGED crossed \/ Client!Connect
  BY <1>3 DEF Client!TransportNext, Client!ClientNext, Client!CloseTransport, Client!Close, Client!Send,
              Client!Heartbeat, Client!Dispatch, Client!BackoffExpires, Client!StartHeartbeat, Client!Opens,
              Client!TransportOnClose, Client!Drops, Client!Ends, Client!CloseEvent, Client!Fails, Client!FailsLate,
              Client!JitterTimer, Client!conn, Client!CloseClient, Client!OpenStream, Client!CloseStream,
              Client!HandleClose, Client!ClientOnClose
<1> QED BY <1>1, <1>2, <1>3, OthersRest

LEMMA TransportKeeps ==
  TransportInv /\ [MCNext]_all => TransportInv' /\ (run \in {"websocket", "wisp"} => Client!ClosedForGood)
<1> SUFFICES ASSUME TransportInv, [MCNext]_all
             PROVE  TransportInv' /\ (run \in {"websocket", "wisp"} => Client!ClosedForGood)
  OBVIOUS
<1>1. /\ AliveInv' /\ RtcInv' /\ BackupInv' /\ run' = run
      /\ crossed' \in BOOLEAN /\ (crossed => crossed') /\ (crossed' => crossed \/ Client!Connect)
  BY OthersRest, Crossing, AliveStep, RtcStep, BackupStep DEF TransportInv
<1>2. CASE crossed'
  <2>1. ASSUME ~ crossed PROVE calls' > calls
    <3>1. ConnInv /\ Client!Connect
      BY <1>1, <1>2, <2>1 DEF TransportInv
    <3>2. calls' = calls + 1 /\ calls \in Nat
      BY <3>1 DEF ConnInv, ConnTypeOK, Client!Connect
    <3> QED BY <3>2
  <2>2. TransportInv'
    BY <1>1, <1>2 DEF TransportInv
  <2> QED BY <2>1, <2>2 DEF Client!ClosedForGood
<1>3. ASSUME ~ crossed', UNCHANGED conn PROVE ConnInv' /\ Client!ClosedForGood
  BY <1>1, <1>3, SameConn DEF TransportInv, conn, Client!ClosedForGood
<1>4. ASSUME ~ crossed', UNCHANGED <<conn, streams>> PROVE StreamsInv' /\ opened' = opened
  BY <1>1, <1>4, StreamsFollow DEF TransportInv, conn, streams
<1>5. CASE ~ crossed' /\ run \notin {"websocket", "wisp"}
  BY <1>1, <1>3, <1>4, <1>5, OthersRest DEF TransportInv
<1>6. CASE ~ crossed' /\ run = "websocket"
  <2>1. StreamsInv' /\ opened' = 0
    <3>1. UNCHANGED streams /\ opened = 0 /\ StreamsInv
      BY <1>1, <1>6, OthersRest DEF TransportInv
    <3> QED BY <3>1 DEF StreamsInv, streams
  <2>2. CASE Client!TransportNext
    BY <1>1, <1>6, <2>1, <2>2, TransportStep DEF TransportInv
  <2>3. CASE UNCHANGED <<conn, sending>>
    <3>1. SendInv'
      BY <1>1, <1>6, <2>3, SameSending DEF TransportInv, conn, sending
    <3> QED BY <1>1, <1>3, <1>6, <2>1, <2>3, <3>1 DEF TransportInv
  <2> QED BY <1>6, <2>2, <2>3, OthersRest
<1>7. CASE ~ crossed' /\ run = "wisp"
  <2>1. CASE Client!ClientNext
    BY <1>1, <1>7, <2>1, ClientStep DEF TransportInv
  <2>2. CASE UNCHANGED <<conn, streams>>
    BY <1>1, <1>3, <1>4, <1>7, <2>2 DEF TransportInv
  <2> QED BY <1>7, <2>1, <2>2, OthersRest
<1> QED BY <1>1, <1>2, <1>5, <1>6, <1>7

LEMMA TransportHolds == MCSpec => []TransportInv
<1> QED BY TransportInitially, TransportKeeps, PTL DEF MCSpec

(* For any number of sockets, calls, payloads, streams, appearances and     *)
(* failovers: the state a WebSocket transport or a Wisp client reports is   *)
(* the truth about its sockets, and sockets, heartbeat, jittered payloads   *)
(* and proxied streams live no longer than the connection they belong to,   *)
(* as long as no connect() came while a close() was under way, which the    *)
(* code lets through; the timers of a keep-alive live no longer than theirs;*)
(* and a failover forgets no open transport and locks out no later one.     *)
THEOREM TransportStateHolds == MCSpec => []TransportStateIsTrue
<1>1. TransportInv => TransportStateIsTrue
  <2> SUFFICES ASSUME TransportInv PROVE TransportStateIsTrue
    OBVIOUS
  <2>1. Client!StateIsTrue /\ Client!StreamsEndWithSocket /\ (run = "websocket" => Client!SendingFollowsConnection)
    <3>1. CASE ~ crossed
      <4>1. ConnInv /\ StreamsInv /\ (run = "websocket" => SendInv)
        BY <3>1 DEF TransportInv
      <4>2. Client!StreamsEndWithSocket
        BY <4>1 DEF StreamsInv, Client!StreamsEndWithSocket
      <4> QED BY <4>1, <4>2, ConnSafe, SendSafe
    <3>2. CASE crossed
      BY <3>2 DEF Client!StateIsTrue, Client!StreamsEndWithSocket, Client!SendingFollowsConnection
    <3> QED BY <3>1, <3>2
  <2>2. Alive!ChecksAreTracked /\ Backup!FailoverIsSound
    BY AliveSafe, BackupSafe DEF TransportInv
  <2> QED BY <2>1, <2>2 DEF TransportStateIsTrue
<1> QED BY <1>1, TransportHolds, PTL

(* What close() closed stays closed until the user connects again, with the *)
(* same exception; and, of any number of WebRTC connections, a mesh manager *)
(* tracks the one that is not closed, for which alone its timers send       *)
(* offers.                                                                  *)
THEOREM ClosedStays == MCSpec => ClosedStaysClosed
<1> DEFINE Stays == /\ run \in {"websocket", "wisp"} => Client!ClosedForGood
                    /\ run = "rtc" => Rtc!TrackedIsLive /\ Rtc!OffersForTracked
<1>1. TransportInv /\ [MCNext]_all => Stays
  BY TransportKeeps, OthersRest, RtcSafe, RtcOffers DEF TransportInv
<1>2. TransportInv /\ [MCNext]_all => [Stays]_all
  BY <1>1
<1> QED BY <1>2, TransportHolds, PTL DEF MCSpec, ClosedStaysClosed
=============================================================================
