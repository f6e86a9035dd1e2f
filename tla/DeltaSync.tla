------------------------------- MODULE DeltaSync -------------------------------
(***************************************************************************)
(* The delta protocol of browsermesh-sync (delta-sync.mjs): coordinators   *)
(* log their writes and pull each other's logs with SYNC_REQUEST,          *)
(* SYNC_RESPONSE and SYNC_ACK.  Messages may be lost and overtake each     *)
(* other: nothing but its handler looks at a message, so that one which is *)
(* never handled is one that was lost.  Clocks of different pods need not  *)
(* agree.  An entry is known by its origin and number; whether it sets or  *)
(* deletes does not matter here.                                           *)
(***************************************************************************)
EXTENDS Naturals, FiniteSets, Sequences

CONSTANTS
  Pod, Key,
  Behind,        \* the pods whose clock is behind that of the others
  MaxSize,       \* DeltaLog maxSize: the log is compacted beyond it; 0: never
  MaxWrites,     \* bound: set() and delete() calls
  MaxRequests,   \* bound: requestSync() calls
  MaxSnapshots   \* bound: broadcastState() calls

VARIABLES
  log,          \* log[p]: the entries of the DeltaLog, oldest first
  state,        \* state[p][k]: the entry whose value p shows for k
  remoteClock,  \* remoteClock[p][q]: what p's session with q knows q has, by origin
  pendingSend,  \* pendingSend[p][q]: what p last answered q, until it is confirmed
  network,      \* messages under way
  seen,         \* history: seen[p]: entries p ever appended
  late,         \* history: late[p]: those that came after a later one of their origin
  writes, requests, snapshots

vars == <<log, state, remoteClock, pendingSend, network, seen, late, writes, requests, snapshots>>

Clock == [Pod -> 0..MaxWrites]
Entry == [origin : Pod, seq : 1..MaxWrites, key : Key,
          timestamp : 1..2*MaxWrites, vectorClock : Clock]
NoEntry == [seq |-> 0]
Elems(s) == {s[i] : i \in DOMAIN s}

Init ==
  /\ log = [p \in Pod |-> <<>>]
  /\ state = [p \in Pod |-> [k \in Key |-> NoEntry]]
  /\ remoteClock = [p \in Pod |-> [q \in Pod |-> [o \in Pod |-> 0]]]
  /\ pendingSend = [p \in Pod |-> [q \in Pod |-> {}]]
  /\ network = {}
  /\ seen = [p \in Pod |-> {}] /\ late = [p \in Pod |-> {}]
  /\ writes = 0 /\ requests = 0 /\ snapshots = 0

-----------------------------------------------------------------------------
MaxSeq(S) == IF S = {} THEN 0 ELSE CHOOSE n \in S : \A m \in S : m <= n

(* DeltaLog: getVectorClock(), compact() and append() *)
VectorClock(entries) == [o \in Pod |-> MaxSeq({e.seq : e \in {f \in entries : f.origin = o}})]

Compact(s) ==   \* a Map keeps the place of a key's first entry
  LET first == SelectSeq([i \in DOMAIN s |-> i], LAMBDA i : \A j \in 1..(i-1) : s[j].key # s[i].key)
  IN  [n \in DOMAIN first |-> s[MaxSeq({i \in DOMAIN s : s[i].key = s[first[n]].key})]]

RECURSIVE AppendAll(_, _)
AppendAll(s, entries) ==
  IF entries = <<>> THEN s
  ELSE LET t == Append(s, Head(entries))
       IN  AppendAll(IF MaxSize > 0 /\ Len(t) > MaxSize THEN Compact(t) ELSE t, Tail(entries))

(* set() and delete(); sequence numbers only have to grow *)
Write(p, k) ==
  /\ writes < MaxWrites
  /\ LET e == [origin |-> p, seq |-> Cardinality({f \in seen[p] : f.origin = p}) + 1,
               key |-> k,
               timestamp |-> writes + 1 + (IF p \in Behind THEN 0 ELSE MaxWrites),
               vectorClock |-> VectorClock(Elems(log[p]))]
     IN  /\ log' = [log EXCEPT ![p] = AppendAll(@, <<e>>)]
         /\ state' = [state EXCEPT ![p][k] = e]
         /\ seen' = [seen EXCEPT ![p] = @ \cup {e}]
  /\ writes' = writes + 1
  /\ UNCHANGED <<remoteClock, pendingSend, network, late, requests, snapshots>>

(* requestSync() *)
RequestSync(p, q) ==
  /\ requests < MaxRequests
  /\ network' = network \cup {[type |-> "REQUEST", id |-> requests, from |-> p, to |-> q]}
  /\ requests' = requests + 1
  /\ UNCHANGED <<log, state, remoteClock, pendingSend, seen, late, writes, snapshots>>

(* handleMessage(DELTA_SYNC_REQUEST): what the session does not know the peer to have. *)
SinceVectorClock(p, q) == SelectSeq(log[p], LAMBDA e : e.seq > remoteClock[p][q][e.origin])

HandleRequest(m) ==
  LET p == m.to  q == m.from  entries == SinceVectorClock(p, q) IN
  /\ pendingSend' = [pendingSend EXCEPT ![p][q] = Elems(entries)]
  /\ network' = (network \ {m}) \cup
       {[type |-> "RESPONSE", id |-> m.id, from |-> p, to |-> q, entries |-> entries]}
  /\ UNCHANGED <<log, state, remoteClock, seen, late, writes, requests, snapshots>>

(* DeltaDecoder.applyCausal(): by timestamp, then sequence number, then position; *)
(* the last entry of a key decides.                                               *)
Later(entries, i, j) ==
  LET d == entries[i]  e == entries[j] IN
  \/ d.timestamp > e.timestamp
  \/ d.timestamp = e.timestamp /\ (d.seq > e.seq \/ (d.seq = e.seq /\ i >= j))

ApplyCausal(s, entries) ==
  [k \in Key |->
     LET I == {i \in DOMAIN entries : entries[i].key = k}
     IN  IF I = {} THEN s[k] ELSE entries[CHOOSE i \in I : \A j \in I : Later(entries, i, j)]]

(* handleMessage(DELTA_SYNC_RESPONSE) *)
HandleResponse(m) ==
  LET p == m.to IN
  /\ state' = [state EXCEPT ![p] = ApplyCausal(@, m.entries)]
  /\ log' = [log EXCEPT ![p] = AppendAll(@, m.entries)]
  /\ seen' = [seen EXCEPT ![p] = @ \cup Elems(m.entries)]
  /\ late' = [late EXCEPT ![p] = @ \cup
       {e \in Elems(m.entries) : \E f \in seen[p] : f.origin = e.origin /\ f.seq > e.seq}]
  /\ network' = (network \ {m}) \cup
       {[type |-> "ACK", id |-> m.id, from |-> p, to |-> m.from, entries |-> m.entries]}
  /\ UNCHANGED <<remoteClock, pendingSend, writes, requests, snapshots>>

HandleAckPending(m) ==
  LET p == m.to  q == m.from IN
  /\ IF pendingSend[p][q] = {} THEN UNCHANGED <<remoteClock, pendingSend>>
     ELSE /\ remoteClock' = [remoteClock EXCEPT ![p][q] =
               [o \in Pod |-> MaxSeq({@[o], VectorClock(pendingSend[p][q])[o]})]]
          /\ pendingSend' = [pendingSend EXCEPT ![p][q] = {}]
  /\ network' = network \ {m}
  /\ UNCHANGED <<log, state, seen, late, writes, requests, snapshots>>

(* handleMessage(DELTA_SYNC_ACK): confirms the entries the ack names, if any are pending. *)
HandleAck(m) ==
  LET p == m.to  q == m.from IN
  /\ IF pendingSend[p][q] = {} THEN UNCHANGED <<remoteClock, pendingSend>>
     ELSE /\ remoteClock' = [remoteClock EXCEPT ![p][q] =
               [o \in Pod |-> MaxSeq({@[o], VectorClock(Elems(m.entries))[o]})]]
          /\ pendingSend' = [pendingSend EXCEPT ![p][q] = {}]
  /\ network' = network \ {m}
  /\ UNCHANGED <<log, state, seen, late, writes, requests, snapshots>>

(* broadcastState(), and the handler of the snapshot *)
BroadcastState(p) ==
  /\ snapshots < MaxSnapshots
  /\ network' = network \cup {[type |-> "SNAPSHOT", id |-> snapshots, from |-> p, to |-> q,
                               state |-> state[p]] : q \in Pod \ {p}}
  /\ snapshots' = snapshots + 1
  /\ UNCHANGED <<log, state, remoteClock, pendingSend, seen, late, writes, requests>>

HandleSnapshot(m) ==
  /\ state' = [state EXCEPT ![m.to] = m.state]
  /\ network' = network \ {m}
  /\ UNCHANGED <<log, remoteClock, pendingSend, seen, late, writes, requests, snapshots>>

Handle(m) ==
  \/ m.type = "REQUEST" /\ HandleRequest(m)
  \/ m.type = "RESPONSE" /\ HandleResponse(m)
  \/ m.type = "ACK" /\ HandleAck(m)
  \/ m.type = "SNAPSHOT" /\ HandleSnapshot(m)

Next ==
  \/ \E p \in Pod, k \in Key : Write(p, k)
  \/ \E p, q \in Pod : p # q /\ RequestSync(p, q)
  \/ \E p \in Pod : BroadcastState(p)
  \/ \E m \in network : Handle(m)

Spec == Init /\ [][Next]_vars

-----------------------------------------------------------------------------
(* The types of the coordinators' fields. *)
TypeOK ==
  /\ \A p \in Pod : log[p] \in Seq(Entry) /\ Elems(log[p]) \subseteq seen[p]
  /\ state \in [Pod -> [Key -> Entry \cup {NoEntry}]]
  /\ remoteClock \in [Pod -> [Pod -> Clock]]
  /\ \A p, q \in Pod : pendingSend[p][q] \subseteq seen[p]

(* A peer is never told less than it lacks: whatever a session leaves out   *)
(* of its answers because it counts as confirmed did arrive at the peer,    *)
(* however requests, answers and acks were lost or overtook each other.     *)
(* What an answer brought back after a later entry of its origin may be     *)
(* left out, if logs are compacted: the clocks have passed it.              *)
ConfirmedArrived ==
  \A p, q \in Pod : \A e \in Elems(log[p]) :
    e.seq <= remoteClock[p][q][e.origin] => e \in seen[q] \/ (MaxSize > 0 /\ e \in late[p])

(* What a session counts as confirmed is no more than the peer has: the     *)
(* number that a clock holds for an origin is that of an entry the peer got.*)
ClocksAreReal ==
  \A p, q, o \in Pod :
    remoteClock[p][q][o] > 0 => \E e \in seen[q] : e.origin = o /\ e.seq = remoteClock[p][q][o]

(* A pod's knowledge of an origin has no gaps, also when it was relayed;    *)
(* the clocks compare only the highest sequence numbers.                    *)
NoGaps ==
  \A p \in Pod : \A e \in seen[p] : \A f \in seen[e.origin] :
    f.origin = e.origin /\ f.seq < e.seq => f \in seen[p]
================================================================================
