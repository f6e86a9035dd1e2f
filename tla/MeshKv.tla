-------------------------------- MODULE MeshKv --------------------------------
(***************************************************************************)
(* The replicated key-value store of browsermesh-apps (mesh-kv.mjs) over   *)
(* MeshSyncEngine (sync.mjs), LWWMap, LWWRegister and VectorClock          *)
(* (crdt.mjs).  Every pod holds one LWWMap document with a version vector; *)
(* a notified change is pushed, as the full state, to the watched pods,    *)
(* and what arrives is filtered entry by entry before it is merged.        *)
(* Pods are numbers, as node ids are compared.  A value is known by the    *)
(* entry that wrote it.                                                    *)
(***************************************************************************)
EXTENDS Integers, Sequences, FiniteSets, FiniteSetsExt, FiniteSetTheorems, SequenceTheorems,
        WellFoundedInduction, TLAPS

CONSTANTS
  LastPod, Key,
  Writer,      \* pods that write
  Deletes,     \* {FALSE}: only set(); BOOLEAN: set() and delete()
  MaxTime,     \* bound: timestamps
  MaxWrites,   \* bound: writes of a pod
  MaxPushes,   \* bound: syncWith() calls that are not broadcasts
  AclChanges   \* grants and revocations reach the pods' registries, and watches change

Pod == 1..LastPod
NoEntry == [ts |-> 0, node |-> 0, dead |-> FALSE]
Entry == [ts : 1..MaxTime, node : Pod, dead : BOOLEAN]

VARIABLES
  map,      \* map[p][k]: the register of k at p
  version,  \* version[p]: the document's vector clock
  clock,    \* clock[p]: last local timestamp
  writes,   \* writes[p]: writes issued
  watch,    \* watch[p]: watchTargets
  acl,      \* acl[p]: writers p's registry allows
  chan,     \* chan[p][q]: payloads from p to q
  pushes

vars == <<map, version, clock, writes, watch, acl, chan, pushes>>

Init ==
  /\ map = [p \in Pod |-> [k \in Key |-> NoEntry]]
  /\ version = [p \in Pod |-> [q \in Pod |-> 0]]
  /\ clock = [p \in Pod |-> 0] /\ writes = [p \in Pod |-> 0]
  /\ watch = [p \in Pod |-> Pod \ {p}]
  /\ acl = [p \in Pod |-> IF AclChanges THEN {} ELSE Pod]
  /\ chan = [p \in Pod |-> [q \in Pod |-> <<>>]]
  /\ pushes = 0

-----------------------------------------------------------------------------
(* LWWRegister: the later timestamp wins, then the higher node id. *)
Newer(a, b) == a.ts > b.ts \/ (a.ts = b.ts /\ a.node > b.node)

MergeEntry(mine, theirs) == IF Newer(theirs, mine) THEN theirs ELSE mine

(* LWWMap.merge() *)
MergeMap(mine, theirs) == [k \in Key |-> MergeEntry(mine[k], theirs[k])]

(* VectorClock.compare() and merge() *)
Dominates(v, w) == \A q \in Pod : v[q] >= w[q]
MergeClock(v, w) == [q \in Pod |-> Max({v[q], w[q]})]

(* prepareSyncPayload() and the broadcast of a notified change. *)
Payload(m, v) == [map |-> m, version |-> v]

Broadcast(p, m, v, c) ==
  [c EXCEPT ![p] = [q \in Pod |-> IF q \in watch[p] THEN Append(@[q], Payload(m, v)) ELSE @[q]]]

(* set() and delete(): the local clock never looks at what was received. *)
Write(p, k, t, dead) ==
  /\ writes[p] < MaxWrites
  /\ t > clock[p]
  /\ clock' = [clock EXCEPT ![p] = t]
  /\ writes' = [writes EXCEPT ![p] = @ + 1]
  /\ LET e == [ts |-> t, node |-> p, dead |-> dead]
         m == [map[p] EXCEPT ![k] = MergeEntry(@, e)]
         v == [version[p] EXCEPT ![p] = @ + 1]
     IN /\ map' = [map EXCEPT ![p] = m]
        /\ version' = [version EXCEPT ![p] = v]
        /\ chan' = Broadcast(p, m, v, chan)
  /\ UNCHANGED <<watch, acl, pushes>>

(* syncWith() *)
Push(p, q) ==
  /\ pushes < MaxPushes /\ p # q
  /\ pushes' = pushes + 1
  /\ chan' = [chan EXCEPT ![p][q] = Append(@, Payload(map[p], version[p]))]
  /\ UNCHANGED <<map, version, clock, writes, watch, acl>>

(* The filter of handleIncoming(): an entry counts only if its writer is the
   sender and the sender may write. *)
AcceptAnyWriter(p, from, theirs) ==
  [k \in Key |-> IF theirs[k].node = from THEN theirs[k] ELSE NoEntry]

Accept(p, from, theirs) ==
  [k \in Key |-> IF theirs[k].node = from /\ from \in acl[p] THEN theirs[k] ELSE NoEntry]

(* MeshSyncEngine.merge(): the notification, not the merge, depends on the
   version; the whole version is taken over, whatever the filter left. *)
EngineMergeGated(p, from, theirs, v) ==
  LET new == ~Dominates(version[p], v)
      m == IF new THEN MergeMap(map[p], theirs) ELSE map[p]
      w == MergeClock(version[p], v)
      c == [chan EXCEPT ![from][p] = Tail(@)]
  IN /\ map' = [map EXCEPT ![p] = m]
     /\ version' = [version EXCEPT ![p] = w]
     /\ chan' = IF new THEN Broadcast(p, m, w, c) ELSE c

EngineMergeNotifies(p, from, theirs, v) ==
  LET m == MergeMap(map[p], theirs)
      w == MergeClock(version[p], v)
      c == [chan EXCEPT ![from][p] = Tail(@)]
  IN /\ map' = [map EXCEPT ![p] = m]
     /\ version' = [version EXCEPT ![p] = w]
     /\ chan' = Broadcast(p, m, w, c)

EngineMerge(p, from, theirs, v) ==
  LET new == ~Dominates(version[p], v)
      m == MergeMap(map[p], theirs)
      w == MergeClock(version[p], v)
      c == [chan EXCEPT ![from][p] = Tail(@)]
  IN /\ map' = [map EXCEPT ![p] = m]
     /\ version' = [version EXCEPT ![p] = w]
     /\ chan' = IF new THEN Broadcast(p, m, w, c) ELSE c

(* handleIncoming(): nothing is merged when no entry survives the filter. *)
HandleIncoming(p, from) ==
  /\ chan[from][p] # <<>>
  /\ LET payload == Head(chan[from][p])
         theirs == Accept(p, from, payload.map)
     IN IF \A k \in Key : theirs[k] = NoEntry
        THEN /\ chan' = [chan EXCEPT ![from][p] = Tail(@)]
             /\ UNCHANGED <<map, version>>
        ELSE EngineMerge(p, from, theirs, payload.version)
  /\ UNCHANGED <<clock, writes, watch, acl, pushes>>

(* watch() and unwatch() *)
SetWatch(p, q) ==
  /\ AclChanges /\ p # q
  /\ watch' = [watch EXCEPT ![p] = IF q \in @ THEN @ \ {q} ELSE @ \cup {q}]
  /\ UNCHANGED <<map, version, clock, writes, acl, chan, pushes>>

(* The grant log changes what p's registry allows. *)
SetAccess(p, q) ==
  /\ AclChanges /\ p # q
  /\ acl' = [acl EXCEPT ![p] = IF q \in @ THEN @ \ {q} ELSE @ \cup {q}]
  /\ UNCHANGED <<map, version, clock, writes, watch, chan, pushes>>

Next ==
  \/ \E p \in Writer, k \in Key, t \in 1..MaxTime, dead \in Deletes : Write(p, k, t, dead)
  \/ \E p, q \in Pod : Push(p, q) \/ HandleIncoming(p, q) \/ SetWatch(p, q) \/ SetAccess(p, q)

(* As long as payloads are under way some payload is delivered; the
   connections are reliable and ordered. *)
Delivery == \E p, q \in Pod : HandleIncoming(p, q)

Fairness == WF_vars(Delivery)

Spec == Init /\ [][Next]_vars /\ Fairness

-----------------------------------------------------------------------------
(* The types of the store's state. *)
TypeOK ==
  /\ map \in [Pod -> [Key -> Entry \cup {NoEntry}]]
  /\ version \in [Pod -> [Pod -> 0..MaxWrites]]
  /\ clock \in [Pod -> 0..MaxTime]
  /\ watch \in [Pod -> SUBSET Pod] /\ acl \in [Pod -> SUBSET Pod]

Quiet == \A p, q \in Pod : chan[p][q] = <<>>

(* Pods that watch and trust one another agree on every key once nothing is *)
(* under way: the filter of handleIncoming() and the suppressed             *)
(* notifications of merge() never cost an update.                           *)
Convergence == Quiet /\ ~AclChanges => \A p, q \in Pod : map[p] = map[q]

(* "Only entries that pass BOTH checks ever reach engine.merge()": an entry *)
(* appears at a pod that did not write it only when the pod's registry      *)
(* allows its writer.                                                       *)
OnlyGrantedWrites ==
  \A p \in Pod, k \in Key :
    map'[p][k] # map[p][k] => map'[p][k].node = p \/ map'[p][k].node \in acl[p]

(* A register only ever moves to a newer entry: neither a late payload nor  *)
(* a write with an old clock brings a superseded value back.                *)
EntriesAdvance ==
  \A p \in Pod, k \in Key :
    \/ map'[p][k] = map[p][k]
    \/ map'[p][k].ts > map[p][k].ts
    \/ map'[p][k].ts = map[p][k].ts /\ map'[p][k].node > map[p][k].node

-----------------------------------------------------------------------------
(* Proofs, for any pods, keys and bounds with the following.               *)
KvBounds ==
  LastPod \in Nat /\ MaxTime \in Nat /\ Writer \subseteq Pod /\ Deletes \subseteq BOOLEAN

Reg == [ts : Nat, node : Nat, dead : BOOLEAN]
Packet == [map : [Key -> Reg], version : [Pod -> Nat]]

KvTypeOK ==
  /\ map \in [Pod -> [Key -> Reg]] /\ version \in [Pod -> [Pod -> Nat]]
  /\ clock \in [Pod -> Nat]
  /\ watch \in [Pod -> SUBSET Pod] /\ acl \in [Pod -> SUBSET Pod]
  /\ chan \in [Pod -> [Pod -> Seq(Packet)]]

(* The entries of a key that a channel carries, or that are anywhere. *)
Carries(s, k, e) == \E n \in 1..Len(s) : s[n].map[k] = e

Around(e, k, m, c) ==
  (\E p \in Pod : m[p][k] = e) \/ (\E p, q \in Pod : Carries(c[p][q], k, e))

(* No entry is newer than what its writer holds, nor two are of one time.   *)
Genuine(m, c, t) ==
  \A k \in Key, e \in Reg : Around(e, k, m, c) /\ e # NoEntry =>
    e.node \in Pod /\ e.ts >= 1 /\ e.ts =< t[e.node] /\ ~ Newer(e, m[e.node][k])

Distinct(m, c) ==
  \A k \in Key, e, f \in Reg :
    Around(e, k, m, c) /\ Around(f, k, m, c) /\ e.ts = f.ts /\ e.node = f.node => e = f

(* What a pod wrote and still holds has reached every other, or is on its   *)
(* way there.                                                               *)
Reaches(m, c) ==
  \A p, q \in Pod, k \in Key : p # q /\ m[q][k].node = q =>
    ~ Newer(m[q][k], m[p][k]) \/ Carries(c[q][p], k, m[q][k])

KvInv ==
  /\ KvTypeOK
  /\ Genuine(map, chan, clock) /\ Distinct(map, chan)
  /\ \A p \in Pod : chan[p][p] = <<>> /\ p \notin watch[p]
  /\ ~ AclChanges => /\ \A p \in Pod : watch[p] = Pod \ {p} /\ acl[p] = Pod
                     /\ Reaches(map, chan)

LEMMA PodNumbers == KvBounds => \A p \in Pod : p \in Nat /\ p # 0
BY DEF KvBounds, Pod

LEMMA NoEntryIsReg == NoEntry \in Reg /\ NoEntry.ts = 0 /\ NoEntry.node = 0
BY DEF NoEntry, Reg

LEMMA NewerOrder ==
  /\ \A a \in Reg : ~ Newer(a, a)
  /\ \A a, b \in Reg : Newer(a, b) => ~ Newer(b, a)
  /\ \A a, b, c \in Reg : ~ Newer(a, b) /\ ~ Newer(b, c) => ~ Newer(a, c)
  /\ \A a, b, c \in Reg : Newer(a, b) /\ Newer(b, c) => Newer(a, c)
  /\ \A a, b \in Reg : ~ Newer(a, b) /\ ~ Newer(b, a) => a.ts = b.ts /\ a.node = b.node
BY DEF Newer, Reg

LEMMA MergeEntryIs ==
  ASSUME NEW a \in Reg, NEW b \in Reg
  PROVE  /\ MergeEntry(a, b) \in Reg
         /\ MergeEntry(a, b) = a \/ (MergeEntry(a, b) = b /\ Newer(b, a))
         /\ ~ Newer(a, MergeEntry(a, b)) /\ ~ Newer(b, MergeEntry(a, b))
         /\ b = NoEntry => MergeEntry(a, b) = a
<1>1. CASE Newer(b, a)
  <2>1. b # NoEntry
    BY <1>1, NoEntryIsReg DEF Newer, Reg
  <2> QED BY <1>1, <2>1, NewerOrder DEF MergeEntry
<1>2. CASE ~ Newer(b, a)
  BY <1>2, NewerOrder DEF MergeEntry
<1> QED BY <1>1, <1>2

LEMMA MergeClockIs ==
  ASSUME NEW v \in [Pod -> Nat], NEW w \in [Pod -> Nat]
  PROVE  MergeClock(v, w) \in [Pod -> Nat]
<1>1. ASSUME NEW a \in Nat, NEW b \in Nat PROVE Max({a, b}) \in Nat
  <2>1. \E x \in {a, b} : \A y \in {a, b} : x >= y
    OBVIOUS
  <2> QED BY <2>1 DEF Max
<1> QED BY <1>1 DEF MergeClock

LEMMA CarriesAppend ==
  ASSUME NEW s \in Seq(Packet), NEW r \in Packet, NEW k, NEW e
  PROVE  Carries(Append(s, r), k, e) <=> Carries(s, k, e) \/ r.map[k] = e
<1> DEFINE u == Append(s, r)
<1>1. /\ Len(s) \in Nat /\ Len(u) = Len(s) + 1 /\ u[Len(s) + 1] = r
      /\ \A n \in 1..Len(s) : u[n] = s[n]
  BY AppendProperties
<1> HIDE DEF u
<1>2. \A n \in 1..Len(u) : n \in 1..Len(s) \/ n = Len(s) + 1
  BY <1>1
<1>3. ASSUME Carries(u, k, e) PROVE Carries(s, k, e) \/ r.map[k] = e
  BY <1>1, <1>2, <1>3 DEF Carries
<1>4. ASSUME Carries(s, k, e) PROVE Carries(u, k, e)
  <2>1. \A n \in 1..Len(s) : n \in 1..Len(u)
    BY <1>1
  <2> QED BY <1>1, <1>4, <2>1 DEF Carries
<1>5. ASSUME r.map[k] = e PROVE Carries(u, k, e)
  <2>1. Len(s) + 1 \in 1..Len(u)
    BY <1>1
  <2> QED BY <1>1, <1>5, <2>1 DEF Carries
<1> QED BY <1>3, <1>4, <1>5 DEF u

LEMMA CarriesTail ==
  ASSUME NEW s \in Seq(Packet), s # <<>>, NEW k
  PROVE  /\ Head(s) \in Packet /\ Tail(s) \in Seq(Packet)
         /\ Carries(s, k, Head(s).map[k])
         /\ \A e : Carries(Tail(s), k, e) => Carries(s, k, e)
         /\ \A e : Carries(s, k, e) => Carries(Tail(s), k, e) \/ e = Head(s).map[k]
<1> DEFINE u == Tail(s)
<1>1. Len(s) \in Nat /\ Len(s) > 0
  BY EmptySeq
<1>2. /\ u \in Seq(Packet) /\ Len(u) = Len(s) - 1 /\ Head(s) \in Packet /\ Head(s) = s[1]
      /\ \A n \in 1..Len(u) : u[n] = s[n + 1]
  BY <1>1, HeadTailProperties
<1> HIDE DEF u
<1>3. Carries(s, k, Head(s).map[k])
  BY <1>1, <1>2 DEF Carries
<1>4. ASSUME NEW e, Carries(u, k, e) PROVE Carries(s, k, e)
  <2>1. \A n \in 1..Len(u) : n + 1 \in 1..Len(s)
    BY <1>1, <1>2
  <2> QED BY <1>2, <1>4, <2>1 DEF Carries
<1>5. ASSUME NEW e, Carries(s, k, e), e # Head(s).map[k] PROVE Carries(u, k, e)
  <2>1. PICK n \in 1..Len(s) : s[n].map[k] = e
    BY <1>5 DEF Carries
  <2>2. n # 1
    BY <1>2, <1>5, <2>1
  <2>3. n - 1 \in 1..Len(u) /\ u[n - 1] = s[n]
    BY <1>1, <1>2, <2>2
  <2> QED BY <2>1, <2>3 DEF Carries
<1> QED BY <1>2, <1>3, <1>4, <1>5 DEF u

(* A step that moves registers on and brings in no entry but x, of the      *)
(* current time of its writer, who holds it.                                *)
Advances(m, n) == \A p \in Pod, k \in Key : ~ Newer(m[p][k], n[p][k])
Later(t, u) == \A p \in Pod : t[p] =< u[p]
BringsOnly(m, c, n, d, t, u, x, j) ==
  \A k \in Key, e \in Reg : Around(e, k, n, d) =>
    \/ Around(e, k, m, c)
    \/ /\ e = x /\ k = j /\ x.node \in Pod /\ x.ts >= 1 /\ x.ts =< u[x.node]
       /\ t[x.node] < x.ts /\ ~ Newer(x, n[x.node][j])

LEMMA StaysGenuine ==
  ASSUME NEW m \in [Pod -> [Key -> Reg]], NEW n \in [Pod -> [Key -> Reg]], NEW c, NEW d,
         NEW t \in [Pod -> Nat], NEW u \in [Pod -> Nat], NEW x \in Reg, NEW j,
         Genuine(m, c, t), Distinct(m, c),
         Later(t, u), Advances(m, n), BringsOnly(m, c, n, d, t, u, x, j)
  PROVE  Genuine(n, d, u) /\ Distinct(n, d)
<1>0. /\ \A p \in Pod : t[p] =< u[p]
      /\ \A p \in Pod, k \in Key : ~ Newer(m[p][k], n[p][k])
      /\ \A k \in Key, e \in Reg : Around(e, k, n, d) =>
           \/ Around(e, k, m, c)
           \/ /\ e = x /\ k = j /\ x.node \in Pod /\ x.ts >= 1 /\ x.ts =< u[x.node]
              /\ t[x.node] < x.ts /\ ~ Newer(x, n[x.node][j])
  BY DEF Later, Advances, BringsOnly
<1>1. Genuine(n, d, u)
  <2>1. SUFFICES ASSUME NEW k \in Key, NEW e \in Reg, Around(e, k, n, d), e # NoEntry
                 PROVE  e.node \in Pod /\ e.ts >= 1 /\ e.ts =< u[e.node] /\ ~ Newer(e, n[e.node][k])
    BY DEF Genuine
  <2>2. CASE Around(e, k, m, c)
    <3>1. e.node \in Pod /\ e.ts >= 1 /\ e.ts =< t[e.node] /\ ~ Newer(e, m[e.node][k])
      BY <2>1, <2>2 DEF Genuine
    <3>2. ~ Newer(m[e.node][k], n[e.node][k]) /\ m[e.node][k] \in Reg /\ n[e.node][k] \in Reg
      BY <1>0, <3>1
    <3>3. ~ Newer(e, n[e.node][k])
      BY <3>1, <3>2, NewerOrder
    <3>4. e.ts \in Nat /\ t[e.node] \in Nat /\ u[e.node] \in Nat /\ t[e.node] =< u[e.node]
      BY <1>0, <3>1 DEF Reg
    <3> QED BY <3>1, <3>3, <3>4
  <2>3. CASE ~ Around(e, k, m, c)
    BY <1>0, <2>1, <2>3
  <2> QED BY <2>2, <2>3
<1>2. Distinct(n, d)
  <2>1. SUFFICES ASSUME NEW k \in Key, NEW e \in Reg, NEW f \in Reg,
                        Around(e, k, n, d), Around(f, k, n, d), e.ts = f.ts, e.node = f.node
                 PROVE  e = f
    BY DEF Distinct
  <2>2. ASSUME NEW g \in Reg, Around(g, k, m, c), g.node = x.node, g.ts = x.ts,
               x.node \in Pod, x.ts >= 1, t[x.node] < x.ts
        PROVE  FALSE
    <3>1. g # NoEntry
      BY <2>2, NoEntryIsReg DEF Reg
    <3>2. g.ts =< t[x.node]
      BY <2>2, <3>1 DEF Genuine
    <3>3. g.ts \in Nat /\ t[x.node] \in Nat
      BY <2>2 DEF Reg
    <3> QED BY <2>2, <3>2, <3>3
  <2>3. CASE Around(e, k, m, c) /\ Around(f, k, m, c)
    BY <2>1, <2>3 DEF Distinct
  <2>4. CASE ~ Around(e, k, m, c) \/ ~ Around(f, k, m, c)
    BY <1>0, <2>1, <2>2, <2>4
  <2> QED BY <2>3, <2>4
<1> QED BY <1>1, <1>2

(* Channels d are c after p has sent its registers m to those it watches.   *)
Spreads(c, d, p, m) ==
  /\ d \in [Pod -> [Pod -> Seq(Packet)]]
  /\ \A x, y \in Pod, k \in Key : \A e :
       Carries(d[x][y], k, e) <=> Carries(c[x][y], k, e) \/ (x = p /\ y \in watch[p] /\ m[k] = e)
  /\ d[p][p] = c[p][p] /\ \A x, y \in Pod : x # p => d[x][y] = c[x][y]

LEMMA BroadcastIs ==
  ASSUME KvTypeOK, NEW p \in Pod, p \notin watch[p], NEW m \in [Key -> Reg], NEW v \in [Pod -> Nat],
         NEW c \in [Pod -> [Pod -> Seq(Packet)]], NEW d, d = Broadcast(p, m, v, c)
  PROVE  Spreads(c, d, p, m)
<1>1. PICK r \in Packet : r = Payload(m, v) /\ r.map = m
  <2>1. Payload(m, v) \in Packet /\ Payload(m, v).map = m
    BY DEF Payload, Packet
  <2> QED BY <2>1
<1>2. \A x, y \in Pod : d[x][y] = IF x = p /\ y \in watch[p] THEN Append(c[x][y], r) ELSE c[x][y]
  BY <1>1 DEF Broadcast
<1>3. d = [x \in Pod |-> IF x = p THEN [y \in Pod |-> IF y \in watch[p] THEN Append(c[p][y], r) ELSE c[p][y]]
                         ELSE c[x]]
  <2>1. DOMAIN c[p] = Pod
    OBVIOUS
  <2> QED BY <1>1, <2>1 DEF Broadcast
<1>4. \A x, y \in Pod : Append(c[x][y], r) \in Seq(Packet) /\ c[x][y] \in Seq(Packet)
  BY AppendProperties
<1>5. d \in [Pod -> [Pod -> Seq(Packet)]]
  BY <1>3, <1>4
<1>6. ASSUME NEW x \in Pod, NEW y \in Pod, NEW k \in Key, NEW e
      PROVE  Carries(d[x][y], k, e) <=>
               Carries(c[x][y], k, e) \/ (x = p /\ y \in watch[p] /\ m[k] = e)
  <2>1. Carries(Append(c[x][y], r), k, e) <=> Carries(c[x][y], k, e) \/ m[k] = e
    BY <1>1, <1>4, CarriesAppend
  <2> QED BY <1>2, <2>1
<1> QED BY <1>2, <1>5, <1>6 DEF Spreads

LEMMA WriteKeeps ==
  ASSUME KvBounds, KvInv,
         NEW p \in Writer, NEW k \in Key, NEW t \in 1..MaxTime, NEW dead \in Deletes, Write(p, k, t, dead)
  PROVE  KvInv' /\ EntriesAdvance /\ OnlyGrantedWrites
<1>0. p \in Pod /\ p \in Nat /\ p # 0 /\ t \in Nat /\ t >= 1 /\ dead \in BOOLEAN
  BY PodNumbers DEF KvBounds
<1>1. PICK e \in Reg : e = [ts |-> t, node |-> p, dead |-> dead] /\ e.ts = t /\ e.node = p
  <2>1. [ts |-> t, node |-> p, dead |-> dead] \in Reg
    BY <1>0 DEF Reg
  <2> QED BY <2>1
<1>2. PICK x \in Reg : x = MergeEntry(map[p][k], e)
  <2>1. map[p][k] \in Reg
    BY <1>0 DEF KvInv, KvTypeOK
  <2> QED BY <1>1, <2>1, MergeEntryIs
<1>3. PICK m \in [Key -> Reg] : m = [map[p] EXCEPT ![k] = x]
  BY <1>0 DEF KvInv, KvTypeOK
<1>4. PICK v \in [Pod -> Nat] : v = [version[p] EXCEPT ![p] = @ + 1]
  <2>1. version[p] \in [Pod -> Nat] /\ version[p][p] + 1 \in Nat
    BY <1>0 DEF KvInv, KvTypeOK
  <2>2. [version[p] EXCEPT ![p] = @ + 1] \in [Pod -> Nat]
    BY <2>1
  <2> QED BY <2>2
<1>5. /\ t > clock[p] /\ clock' = [clock EXCEPT ![p] = t]
      /\ map' = [map EXCEPT ![p] = m] /\ version' = [version EXCEPT ![p] = v]
      /\ chan' = Broadcast(p, m, v, chan) /\ UNCHANGED <<watch, acl>>
  BY <1>1, <1>2, <1>3, <1>4 DEF Write
<1>6. /\ map[p][k] \in Reg /\ (x = map[p][k] \/ (x = e /\ Newer(e, map[p][k])))
      /\ ~ Newer(map[p][k], x) /\ ~ Newer(e, x)
  BY <1>0, <1>1, <1>2, MergeEntryIs DEF KvInv, KvTypeOK
<1>7. /\ \A q \in Pod, l \in Key : map'[q][l] = IF q = p /\ l = k THEN x ELSE map[q][l]
      /\ \A l \in Key : m[l] = map'[p][l]
  BY <1>0, <1>3, <1>5 DEF KvInv, KvTypeOK
<1>8. /\ chan' \in [Pod -> [Pod -> Seq(Packet)]]
      /\ \A y, z \in Pod, l \in Key : \A f :
           Carries(chan'[y][z], l, f) <=>
             Carries(chan[y][z], l, f) \/ (y = p /\ z \in watch[p] /\ m[l] = f)
      /\ chan'[p][p] = chan[p][p] /\ \A y, z \in Pod : y # p => chan'[y][z] = chan[y][z]
  <2>1. p \notin watch[p] /\ chan \in [Pod -> [Pod -> Seq(Packet)]] /\ KvTypeOK
    BY <1>0 DEF KvInv, KvTypeOK
  <2>2. PICK c \in [Pod -> [Pod -> Seq(Packet)]] : c = chan
    BY <2>1
  <2>3. PICK d : d = chan'
    OBVIOUS
  <2>4. d = Broadcast(p, m, v, c)
    BY <1>5, <2>2, <2>3
  <2>5. Spreads(c, d, p, m)
    BY <1>0, <2>1, <2>4, BroadcastIs
  <2> QED BY <2>2, <2>3, <2>5 DEF Spreads
<1>9. KvTypeOK'
  <2>1. map' \in [Pod -> [Key -> Reg]] /\ version' \in [Pod -> [Pod -> Nat]] /\ clock' \in [Pod -> Nat]
    BY <1>0, <1>5 DEF KvInv, KvTypeOK
  <2> QED BY <1>5, <1>8, <2>1 DEF KvInv, KvTypeOK
<1>10. Advances(map, map')
  <2>1. \A q \in Pod, l \in Key : map[q][l] \in Reg
    BY DEF KvInv, KvTypeOK
  <2>2. ASSUME NEW q \in Pod, NEW l \in Key PROVE ~ Newer(map[q][l], map'[q][l])
    BY <1>6, <1>7, <2>1, NewerOrder
  <2> QED BY <2>2 DEF Advances
<1>11. ASSUME NEW l \in Key, NEW f \in Reg, Around(f, l, map', chan')
       PROVE  Around(f, l, map, chan) \/ (f = e /\ l = k /\ x = e)
  <2>1. \/ \E q \in Pod : map'[q][l] = f
        \/ \E y, z \in Pod : Carries(chan'[y][z], l, f)
    BY <1>11 DEF Around
  <2>2. (\E q \in Pod : map'[q][l] = f) \/ Around(f, l, map, chan)
    <3>1. ASSUME NEW y \in Pod, NEW z \in Pod, Carries(chan'[y][z], l, f)
          PROVE  map'[p][l] = f \/ Carries(chan[y][z], l, f)
      <4>1. Carries(chan[y][z], l, f) \/ m[l] = f
        BY <1>8, <3>1
      <4> QED BY <1>7, <4>1
    <3> QED BY <1>0, <2>1, <3>1 DEF Around
  <2> QED BY <1>0, <1>6, <1>7, <2>2 DEF Around
<1>12. Genuine(map', chan', clock') /\ Distinct(map', chan')
  <2>1. /\ map \in [Pod -> [Key -> Reg]] /\ map' \in [Pod -> [Key -> Reg]]
        /\ clock \in [Pod -> Nat] /\ clock' \in [Pod -> Nat]
        /\ Genuine(map, chan, clock) /\ Distinct(map, chan)
    BY <1>9 DEF KvInv, KvTypeOK
  <2>2. Later(clock, clock')
    BY <1>0, <1>5, <2>1 DEF Later
  <2>3. clock'[p] = t /\ clock[p] < t /\ map'[p][k] = x
    BY <1>0, <1>5, <1>7, <2>1
  <2>4. BringsOnly(map, chan, map', chan', clock, clock', e, k)
    <3>1. e.node \in Pod /\ e.ts >= 1 /\ e.ts =< clock'[e.node] /\ clock[e.node] < e.ts
          /\ ~ Newer(e, map'[e.node][k])
      BY <1>0, <1>1, <1>6, <2>3
    <3> QED BY <1>11, <3>1 DEF BringsOnly
  <2> QED BY <1>10, <2>1, <2>2, <2>4, StaysGenuine
<1>13. \A q \in Pod : chan'[q][q] = <<>> /\ q \notin watch'[q]
  <2>1. ASSUME NEW q \in Pod PROVE chan'[q][q] = <<>> /\ q \notin watch'[q]
    <3>1. chan[q][q] = <<>> /\ q \notin watch[q]
      BY DEF KvInv
    <3>2. chan'[q][q] = chan[q][q]
      BY <1>8
    <3> QED BY <1>5, <3>1, <3>2
  <2> QED BY <2>1
<1>14. ASSUME ~ AclChanges PROVE (\A q \in Pod : watch'[q] = Pod \ {q} /\ acl'[q] = Pod) /\ Reaches(map', chan')
  <2>1. \A q \in Pod : watch'[q] = Pod \ {q} /\ acl'[q] = Pod
    BY <1>5, <1>14 DEF KvInv
  <2>2. ASSUME NEW r \in Pod, NEW q \in Pod, NEW l \in Key, r # q, map'[q][l].node = q,
               Newer(map'[q][l], map'[r][l])
        PROVE  Carries(chan'[q][r], l, map'[q][l])
    <3>1. CASE q = p
      <4>1. r \in watch[p]
        BY <1>0, <1>14, <2>2, <3>1 DEF KvInv
      <4>2. m[l] = map'[p][l]
        BY <1>7
      <4> QED BY <1>0, <1>8, <3>1, <4>1, <4>2
    <3>2. CASE q # p
      <4>1. map'[q][l] = map[q][l] /\ map[q][l] \in Reg /\ map[r][l] \in Reg /\ map'[r][l] \in Reg
        BY <1>7, <1>9, <3>2 DEF KvInv, KvTypeOK
      <4>2. Newer(map[q][l], map[r][l])
        BY <1>10, <2>2, <4>1, NewerOrder DEF Advances
      <4>3. Carries(chan[q][r], l, map[q][l])
        BY <1>14, <2>2, <4>1, <4>2 DEF KvInv, Reaches
      <4> QED BY <1>8, <4>1, <4>3
    <3> QED BY <3>1, <3>2
  <2> QED BY <2>1, <2>2 DEF Reaches
<1>15. EntriesAdvance
  BY <1>6, <1>7 DEF EntriesAdvance, Newer
<1>16. OnlyGrantedWrites
  BY <1>1, <1>6, <1>7 DEF OnlyGrantedWrites
<1> QED BY <1>9, <1>12, <1>13, <1>14, <1>15, <1>16 DEF KvInv

LEMMA PushKeeps ==
  ASSUME KvBounds, KvInv, NEW p \in Pod, NEW q \in Pod, Push(p, q)
  PROVE  KvInv' /\ EntriesAdvance /\ OnlyGrantedWrites
<1>1. /\ p # q /\ UNCHANGED <<map, version, clock, watch, acl>>
      /\ chan' = [chan EXCEPT ![p][q] = Append(@, Payload(map[p], version[p]))]
  BY DEF Push
<1>2. PICK r \in Packet : r = Payload(map[p], version[p]) /\ r.map = map[p]
  <2>1. map[p] \in [Key -> Reg] /\ version[p] \in [Pod -> Nat]
    BY DEF KvInv, KvTypeOK
  <2>2. Payload(map[p], version[p]) \in Packet /\ Payload(map[p], version[p]).map = map[p]
    BY <2>1 DEF Payload, Packet
  <2> QED BY <2>2
<1>3. chan \in [Pod -> [Pod -> Seq(Packet)]] /\ map \in [Pod -> [Key -> Reg]] /\ clock \in [Pod -> Nat]
  BY DEF KvInv, KvTypeOK
<1>4. /\ Append(chan[p][q], r) \in Seq(Packet) /\ chan[p][q] \in Seq(Packet)
      /\ \A x, y \in Pod : chan'[x][y] = IF x = p /\ y = q THEN Append(chan[p][q], r) ELSE chan[x][y]
  BY <1>1, <1>2, <1>3, AppendProperties
<1>5. chan' \in [Pod -> [Pod -> Seq(Packet)]]
  BY <1>1, <1>2, <1>3, <1>4
<1>6. ASSUME NEW x \in Pod, NEW y \in Pod, NEW k \in Key, NEW e
      PROVE  /\ Carries(chan[x][y], k, e) => Carries(chan'[x][y], k, e)
             /\ Carries(chan'[x][y], k, e) => Carries(chan[x][y], k, e) \/ map[p][k] = e
  <2>1. Carries(Append(chan[p][q], r), k, e) <=> Carries(chan[p][q], k, e) \/ map[p][k] = e
    BY <1>2, <1>4, CarriesAppend
  <2> QED BY <1>4, <2>1
<1>7. \A k \in Key, e \in Reg : Around(e, k, map', chan') => Around(e, k, map, chan)
  BY <1>1, <1>6 DEF Around
<1>8. Genuine(map', chan', clock') /\ Distinct(map', chan')
  BY <1>1, <1>7 DEF KvInv, Genuine, Distinct
<1>9. KvTypeOK'
  BY <1>1, <1>5 DEF KvInv, KvTypeOK
<1>10. ~ AclChanges => Reaches(map', chan')
  BY <1>1, <1>6 DEF KvInv, Reaches
<1>11. ASSUME NEW x \in Pod PROVE chan'[x][x] = <<>> /\ x \notin watch'[x]
  BY <1>1, <1>4 DEF KvInv
<1>12. EntriesAdvance /\ OnlyGrantedWrites
  BY <1>1 DEF EntriesAdvance, OnlyGrantedWrites
<1> QED BY <1>1, <1>8, <1>9, <1>10, <1>11, <1>12 DEF KvInv

(* What handleIncoming() does to the registers and channels: a payload of   *)
(* registers h is taken from the channel, what p accepts of it merged.      *)
Absorbs(p, from, h) ==
  /\ from # p /\ \A k \in Key : Carries(chan[from][p], k, h[k])
  /\ map' \in [Pod -> [Key -> Reg]]
  /\ version' \in [Pod -> [Pod -> Nat]] /\ chan' \in [Pod -> [Pod -> Seq(Packet)]]
  /\ \A q \in Pod, k \in Key :
       map'[q][k] = IF q = p THEN MergeEntry(map[p][k], Accept(p, from, h)[k]) ELSE map[q][k]
  /\ \A q \in Pod : chan'[q][q] = <<>>
  /\ \A x, y \in Pod, k \in Key : \A e :
       /\ Carries(chan'[x][y], k, e) => Carries(chan[x][y], k, e) \/ map'[p][k] = e
       /\ Carries(chan[x][y], k, e) =>
            Carries(chan'[x][y], k, e) \/ (x = from /\ y = p /\ e = h[k])

LEMMA IncomingIs ==
  ASSUME KvBounds, KvInv, NEW p \in Pod, NEW from \in Pod, HandleIncoming(p, from)
  PROVE  \E h \in [Key -> Reg] : Absorbs(p, from, h)
<1>1. /\ chan \in [Pod -> [Pod -> Seq(Packet)]] /\ map \in [Pod -> [Key -> Reg]]
      /\ version \in [Pod -> [Pod -> Nat]] /\ p \notin watch[p] /\ KvTypeOK
      /\ chan[from][p] # <<>>
  BY DEF KvInv, KvTypeOK, HandleIncoming
<1>2. from # p
  BY <1>1 DEF KvInv
<1>3. PICK s \in Seq(Packet) : s = chan[from][p] /\ s # <<>>
  BY <1>1
<1>4. Head(s) \in Packet /\ Tail(s) \in Seq(Packet)
  BY <1>3, EmptySeq, HeadTailProperties
<1>5. PICK h \in [Key -> Reg], v \in [Pod -> Nat] : h = Head(s).map /\ v = Head(s).version
  BY <1>4 DEF Packet
<1>6. PICK c \in [Pod -> [Pod -> Seq(Packet)]] : c = [chan EXCEPT ![from][p] = Tail(@)]
  <2>1. [chan EXCEPT ![from][p] = Tail(s)] \in [Pod -> [Pod -> Seq(Packet)]]
    BY <1>1, <1>4
  <2> QED BY <1>3, <2>1
<1>7. \A x, y \in Pod : c[x][y] = IF x = from /\ y = p THEN Tail(s) ELSE chan[x][y]
  BY <1>1, <1>3, <1>6
<1>8. ASSUME NEW x \in Pod, NEW y \in Pod, NEW k \in Key, NEW e
      PROVE  /\ Carries(c[x][y], k, e) => Carries(chan[x][y], k, e)
             /\ Carries(chan[x][y], k, e) => Carries(c[x][y], k, e) \/ (x = from /\ y = p /\ e = h[k])
  <2>1. /\ Carries(Tail(s), k, e) => Carries(s, k, e)
        /\ Carries(s, k, e) => Carries(Tail(s), k, e) \/ e = h[k]
    BY <1>3, <1>5, CarriesTail
  <2> QED BY <1>3, <1>7, <2>1
<1>9. \A k \in Key : Carries(chan[from][p], k, h[k])
  BY <1>3, <1>5, CarriesTail
<1>10. PICK t \in [Key -> Reg] : t = Accept(p, from, h)
  BY NoEntryIsReg DEF Accept
<1>11. PICK m \in [Key -> Reg] : m = MergeMap(map[p], t)
  <2>1. MergeMap(map[p], t) \in [Key -> Reg]
    BY <1>1, MergeEntryIs, SMTT(60) DEF MergeMap
  <2> QED BY <2>1
<1>12. PICK w \in [Pod -> Nat] : w = MergeClock(version[p], v)
  BY <1>1, MergeClockIs
<1>13. \A q \in Pod : c[q][q] = <<>>
  <2> SUFFICES ASSUME NEW q \in Pod PROVE c[q][q] = <<>>
    OBVIOUS
  <2>1. ~ (q = from /\ q = p)
    BY <1>2
  <2>2. chan[q][q] = <<>>
    BY DEF KvInv
  <2> QED BY <1>7, <2>1, <2>2
<1>14. ASSUME (\A k \in Key : t[k] = NoEntry) /\ chan' = c /\ UNCHANGED <<map, version>>
       PROVE  Absorbs(p, from, h)
  <2>1. \A q \in Pod, k \in Key : map'[q][k] = IF q = p THEN MergeEntry(map[p][k], t[k]) ELSE map[q][k]
    BY <1>1, <1>14, NoEntryIsReg, MergeEntryIs
  <2>2. map' \in [Pod -> [Key -> Reg]] /\ version' \in [Pod -> [Pod -> Nat]]
    BY <1>1, <1>14
  <2> QED BY <1>2, <1>6, <1>8, <1>9, <1>10, <1>13, <1>14, <2>1, <2>2 DEF Absorbs
<1>15. ASSUME map' = [map EXCEPT ![p] = m], version' = [version EXCEPT ![p] = w],
              chan' = c \/ chan' = Broadcast(p, m, w, c)
       PROVE  Absorbs(p, from, h)
  <2>1. map' \in [Pod -> [Key -> Reg]] /\ version' \in [Pod -> [Pod -> Nat]]
    BY <1>1, <1>15
  <2>2. \A q \in Pod, k \in Key : map'[q][k] = IF q = p THEN m[k] ELSE map[q][k]
    BY <1>1, <1>15
  <2>3. \A k \in Key : m[k] = MergeEntry(map[p][k], t[k])
    BY <1>11 DEF MergeMap
  <2>4. CASE chan' = c
    BY <1>2, <1>6, <1>8, <1>9, <1>10, <1>13, <2>1, <2>2, <2>3, <2>4 DEF Absorbs
  <2>5. CASE chan' = Broadcast(p, m, w, c)
    <3>1. PICK d : d = chan'
      OBVIOUS
    <3>2. Spreads(c, d, p, m)
      BY <1>1, <2>5, <3>1, BroadcastIs
    <3>3. /\ chan' \in [Pod -> [Pod -> Seq(Packet)]]
          /\ \A x, y \in Pod, k \in Key : \A e :
               Carries(chan'[x][y], k, e) <=>
                 Carries(c[x][y], k, e) \/ (x = p /\ y \in watch[p] /\ m[k] = e)
          /\ chan'[p][p] = c[p][p] /\ \A x, y \in Pod : x # p => chan'[x][y] = c[x][y]
      BY <3>1, <3>2 DEF Spreads
    <3>4. \A q \in Pod : chan'[q][q] = <<>>
      BY <1>13, <3>3
    <3>5. ASSUME NEW x \in Pod, NEW y \in Pod, NEW k \in Key, NEW e
          PROVE  /\ Carries(chan'[x][y], k, e) => Carries(chan[x][y], k, e) \/ map'[p][k] = e
                 /\ Carries(chan[x][y], k, e) =>
                      Carries(chan'[x][y], k, e) \/ (x = from /\ y = p /\ e = h[k])
      <4>1. Carries(chan'[x][y], k, e) <=>
              Carries(c[x][y], k, e) \/ (x = p /\ y \in watch[p] /\ m[k] = e)
        BY <3>3
      <4>2. map'[p][k] = m[k]
        BY <2>2
      <4> QED BY <1>8, <4>1, <4>2
    <3> QED BY <1>2, <1>9, <1>10, <2>1, <2>2, <2>3, <3>3, <3>4, <3>5 DEF Absorbs
  <2> QED BY <1>15, <2>4, <2>5
<1>16. \E f \in [Key -> Reg] : Absorbs(p, from, f)
  <2>1. \/ (\A k \in Key : t[k] = NoEntry) /\ chan' = c /\ UNCHANGED <<map, version>>
        \/ /\ map' = [map EXCEPT ![p] = m] /\ version' = [version EXCEPT ![p] = w]
           /\ chan' = c \/ chan' = Broadcast(p, m, w, c)
    BY <1>3, <1>5, <1>6, <1>10, <1>11, <1>12 DEF HandleIncoming, EngineMerge
  <2>2. Absorbs(p, from, h)
    BY <1>14, <1>15, <2>1
  <2> QED BY <2>2
<1> QED BY <1>16

LEMMA IncomingKeeps ==
  ASSUME KvBounds, KvInv, NEW p \in Pod, NEW from \in Pod, HandleIncoming(p, from)
  PROVE  KvInv' /\ EntriesAdvance /\ OnlyGrantedWrites
<1>1. PICK h \in [Key -> Reg] : Absorbs(p, from, h)
  BY IncomingIs
<1>2. UNCHANGED <<clock, watch, acl>>
  BY DEF HandleIncoming
<1>3. /\ chan \in [Pod -> [Pod -> Seq(Packet)]] /\ map \in [Pod -> [Key -> Reg]] /\ clock \in [Pod -> Nat]
      /\ map' \in [Pod -> [Key -> Reg]] /\ from # p
  BY <1>1 DEF KvInv, KvTypeOK, Absorbs
<1>4. PICK t \in [Key -> Reg] :
        /\ \A k \in Key : t[k] = IF h[k].node = from /\ from \in acl[p] THEN h[k] ELSE NoEntry
        /\ \A k \in Key : map'[p][k] = MergeEntry(map[p][k], t[k])
  <2>1. Accept(p, from, h) \in [Key -> Reg]
    BY NoEntryIsReg DEF Accept
  <2> QED BY <1>1, <2>1 DEF Absorbs, Accept
<1>5. \A q \in Pod, k \in Key : q # p => map'[q][k] = map[q][k]
  BY <1>1 DEF Absorbs
<1>6. ASSUME NEW k \in Key
      PROVE  /\ map'[p][k] = map[p][k] \/ (map'[p][k] = t[k] /\ Newer(t[k], map[p][k]) /\ t[k] # NoEntry)
             /\ ~ Newer(map[p][k], map'[p][k]) /\ ~ Newer(t[k], map'[p][k])
  BY <1>3, <1>4, MergeEntryIs
<1>7. Advances(map, map')
  <2>1. ASSUME NEW q \in Pod, NEW k \in Key PROVE ~ Newer(map[q][k], map'[q][k])
    <3>1. CASE q = p
      BY <1>6, <3>1
    <3>2. CASE q # p
      <4>1. map[q][k] \in Reg /\ map'[q][k] = map[q][k]
        BY <1>3, <1>5, <3>2
      <4> QED BY <4>1, NewerOrder
    <3> QED BY <3>1, <3>2
  <2> QED BY <2>1 DEF Advances
<1>8. ASSUME NEW k \in Key, NEW e \in Reg, Around(e, k, map', chan') PROVE Around(e, k, map, chan)
  <2>1. (\E q \in Pod : map'[q][k] = e) \/ Around(e, k, map, chan)
    <3>1. ASSUME NEW x \in Pod, NEW y \in Pod, Carries(chan'[x][y], k, e)
          PROVE  Carries(chan[x][y], k, e) \/ map'[p][k] = e
      <4>1. \A a, b \in Pod, l \in Key : \A f :
              /\ Carries(chan'[a][b], l, f) => Carries(chan[a][b], l, f) \/ map'[p][l] = f
              /\ Carries(chan[a][b], l, f) =>
                   Carries(chan'[a][b], l, f) \/ (a = from /\ b = p /\ f = h[l])
        BY <1>1, Zenon DEF Absorbs
      <4> QED BY <3>1, <4>1
    <3> QED BY <1>8, <3>1 DEF Around
  <2>2. Around(h[k], k, map, chan)
    BY <1>1 DEF Absorbs, Around
  <2>3. ASSUME NEW q \in Pod, map'[q][k] = e PROVE Around(e, k, map, chan)
    <3>1. map'[q][k] = map[q][k] \/ map'[q][k] = h[k]
      BY <1>4, <1>5, <1>6
    <3> QED BY <2>2, <2>3, <3>1 DEF Around
  <2> QED BY <2>1, <2>3
<1>9. Genuine(map', chan', clock') /\ Distinct(map', chan')
  <2>1. BringsOnly(map, chan, map', chan', clock, clock', NoEntry, 0)
    BY <1>8 DEF BringsOnly
  <2>2. Later(clock, clock') /\ clock' \in [Pod -> Nat]
    BY <1>2, <1>3 DEF Later
  <2> QED BY <1>3, <1>7, <2>1, <2>2, NoEntryIsReg, StaysGenuine DEF KvInv
<1>10. KvTypeOK'
  BY <1>1, <1>2 DEF KvInv, KvTypeOK, Absorbs
<1>11. ASSUME ~ AclChanges, NEW r \in Pod, NEW q \in Pod, NEW k \in Key, r # q, map'[q][k].node = q
       PROVE  ~ Newer(map'[q][k], map'[r][k]) \/ Carries(chan'[q][r], k, map'[q][k])
  <2>1. Reaches(map, chan) /\ acl[p] = Pod
    BY <1>11 DEF KvInv
  <2>2. map'[q][k] = map[q][k]
    <3>1. CASE q = p
      <4>1. t[k] # NoEntry => t[k].node = from
        BY <1>4
      <4> QED BY <1>3, <1>6, <1>11, <3>1, <4>1
    <3>2. CASE q # p
      BY <1>5, <3>2
    <3> QED BY <3>1, <3>2
  <2>3. PICK e \in Reg : e = map[q][k] /\ e = map'[q][k] /\ e.node = q
    BY <1>3, <1>11, <2>2
  <2>4. ~ Newer(e, map[r][k]) \/ Carries(chan[q][r], k, e)
    BY <1>11, <2>1, <2>3 DEF Reaches
  <2>5. CASE ~ Newer(e, map[r][k])
    <3>1. ~ Newer(e, map'[r][k])
      BY <1>3, <1>7, <2>5, NewerOrder DEF Advances
    <3> QED BY <2>3, <3>1
  <2>6. CASE Carries(chan[q][r], k, e)
    <3>1. Carries(chan'[q][r], k, e) \/ (q = from /\ r = p /\ e = h[k])
      BY <1>1, <2>6 DEF Absorbs
    <3>2. ASSUME q = from, r = p, e = h[k] PROVE ~ Newer(e, map'[r][k])
      <4>1. t[k] = e
        BY <1>4, <2>1, <2>3, <3>2
      <4> QED BY <1>6, <3>2, <4>1
    <3> QED BY <2>3, <3>1, <3>2
  <2> QED BY <2>4, <2>5, <2>6
<1>12. \A q \in Pod : chan'[q][q] = <<>> /\ q \notin watch'[q]
  BY <1>1, <1>2 DEF KvInv, Absorbs
<1>13. EntriesAdvance
  BY <1>5, <1>6 DEF EntriesAdvance, Newer
<1>14. OnlyGrantedWrites
  BY <1>4, <1>5, <1>6 DEF OnlyGrantedWrites
<1> QED BY <1>2, <1>9, <1>10, <1>11, <1>12, <1>13, <1>14 DEF KvInv, Reaches

LEMMA KvStep ==
  ASSUME KvBounds, KvInv, [Next]_vars
  PROVE  KvInv' /\ EntriesAdvance /\ OnlyGrantedWrites
<1>1. ASSUME NEW p \in Pod, NEW q \in Pod, SetWatch(p, q) \/ SetAccess(p, q)
      PROVE  KvInv' /\ EntriesAdvance /\ OnlyGrantedWrites
  <2>1. AclChanges /\ p # q /\ UNCHANGED <<map, version, clock, chan>>
    BY <1>1 DEF SetWatch, SetAccess
  <2>2. /\ watch' \in [Pod -> SUBSET Pod] /\ acl' \in [Pod -> SUBSET Pod]
        /\ \A r \in Pod : r \notin watch'[r]
    <3>1. /\ watch \in [Pod -> SUBSET Pod] /\ acl \in [Pod -> SUBSET Pod] /\ p # q
          /\ \A r \in Pod : r \notin watch[r]
      BY <1>1 DEF SetWatch, SetAccess, KvInv, KvTypeOK
    <3>2. CASE SetWatch(p, q)
      <4>1. acl' = acl /\ watch' = [watch EXCEPT ![p] = IF q \in @ THEN @ \ {q} ELSE @ \cup {q}]
        BY <3>2 DEF SetWatch
      <4> QED BY <3>1, <4>1
    <3>3. CASE SetAccess(p, q)
      <4>1. watch' = watch /\ acl' = [acl EXCEPT ![p] = IF q \in @ THEN @ \ {q} ELSE @ \cup {q}]
        BY <3>3 DEF SetAccess
      <4> QED BY <3>1, <4>1
    <3> QED BY <1>1, <3>2, <3>3
  <2> QED BY <2>1, <2>2 DEF KvInv, KvTypeOK, EntriesAdvance, OnlyGrantedWrites
<1>2. CASE UNCHANGED vars
  BY <1>2 DEF vars, KvInv, KvTypeOK, EntriesAdvance, OnlyGrantedWrites
<1> QED BY <1>1, <1>2, WriteKeeps, PushKeeps, IncomingKeeps DEF Next

LEMMA KvInitially == KvBounds /\ Init => KvInv
<1> SUFFICES ASSUME KvBounds, Init PROVE KvInv
  OBVIOUS
<1>1. KvTypeOK
  BY NoEntryIsReg, EmptySeq DEF Init, KvTypeOK
<1>2. /\ \A p, q \in Pod, k \in Key : \A e : ~ Carries(chan[p][q], k, e)
      /\ \A p \in Pod, k \in Key : map[p][k] = NoEntry
  BY EmptySeq DEF Init, Carries
<1>3. Genuine(map, chan, clock) /\ Distinct(map, chan)
  BY <1>2 DEF Genuine, Distinct, Around
<1>4. Reaches(map, chan)
  <2>1. \A p \in Pod, k \in Key : map[p][k] \in Reg
    BY <1>1 DEF KvTypeOK
  <2> QED BY <1>2, <2>1, NewerOrder DEF Reaches
<1>5. \A p \in Pod : chan[p][p] = <<>> /\ p \notin watch[p]
  BY DEF Init
<1>6. ~ AclChanges => \A p \in Pod : watch[p] = Pod \ {p} /\ acl[p] = Pod
  BY DEF Init
<1> QED BY <1>1, <1>3, <1>4, <1>5, <1>6 DEF KvInv

(* Among the registers of a key one is the newest: the one that the fewest  *)
(* are newer than.                                                          *)
LEMMA Newest ==
  ASSUME KvBounds, KvTypeOK, NEW k \in Key, NEW o \in Pod
  PROVE  \E p \in Pod : \A q \in Pod : ~ Newer(map[q][k], map[p][k])
<1> DEFINE Over(p) == {q \in Pod : Newer(map[q][k], map[p][k])}
           D == {Cardinality(Over(p)) : p \in Pod}
<1>0. \A p \in Pod : map[p][k] \in Reg
  BY DEF KvTypeOK
<1>1. IsFiniteSet(Pod)
  BY FS_Interval DEF KvBounds, Pod
<1>2. ASSUME NEW p \in Pod PROVE IsFiniteSet(Over(p)) /\ Cardinality(Over(p)) \in Nat
  BY <1>1, FS_Subset, FS_CardinalityType
<1>3. D \in SUBSET Nat /\ D # {}
  BY <1>2
<1>4. PICK d \in D : \A e \in D : ~ (<<e, d>> \in OpToRel(<, Nat))
  <2> HIDE DEF D
  <2> QED BY <1>3, WFMin, NatLessThanWellFounded, Zenon
<1>5. PICK p \in Pod : d = Cardinality(Over(p))
  BY <1>4
<1>6. ASSUME NEW q \in Pod, Newer(map[q][k], map[p][k]) PROVE FALSE
  <2>1. Over(q) \in SUBSET Over(p) /\ q \in Over(p) /\ q \notin Over(q)
    <3>1. \A r \in Pod : Newer(map[r][k], map[q][k]) => Newer(map[r][k], map[p][k])
      BY <1>0, <1>6, NewerOrder
    <3>2. ~ Newer(map[q][k], map[q][k])
      BY <1>0, NewerOrder
    <3> QED BY <1>6, <3>1, <3>2
  <2>2. Cardinality(Over(q)) =< Cardinality(Over(p)) /\ Cardinality(Over(p)) # Cardinality(Over(q))
    <3> HIDE DEF Over
    <3> QED BY <1>2, <2>1, FS_Subset
  <2>3. Cardinality(Over(q)) < d /\ Cardinality(Over(q)) \in Nat /\ d \in Nat /\ Cardinality(Over(q)) \in D
    <3>1. Cardinality(Over(q)) \in Nat /\ Cardinality(Over(p)) \in Nat
      BY <1>2
    <3>2. Cardinality(Over(q)) \in D
      OBVIOUS
    <3> HIDE DEF Over, D
    <3> QED BY <1>5, <2>2, <3>1, <3>2
  <2> QED BY <1>4, <2>3 DEF OpToRel
<1> QED BY <1>6

(* The newest register of a key is its writer's own, who holds it, so it    *)
(* has reached everybody.                                                   *)
LEMMA KvConverges == KvBounds /\ KvInv => Convergence
<1> SUFFICES ASSUME KvBounds, KvInv, Quiet, ~ AclChanges, NEW o \in Pod, NEW k \in Key,
                    NEW r \in Pod
             PROVE  map[o][k] = map[r][k]
  <2>1. ASSUME KvInv, NEW p \in Pod, NEW q \in Pod, \A l \in Key : map[p][l] = map[q][l]
        PROVE  map[p] = map[q]
    <3>1. map[p] \in [Key -> Reg] /\ map[q] \in [Key -> Reg]
      BY <2>1 DEF KvInv, KvTypeOK
    <3> QED BY <2>1, <3>1
  <2> QED BY <2>1 DEF Convergence
<1>1. \A p \in Pod : map[p][k] \in Reg
  BY DEF KvInv, KvTypeOK
<1>2. PICK p \in Pod : \A q \in Pod : ~ Newer(map[q][k], map[p][k])
  BY Newest DEF KvInv
<1>3. PICK e \in Reg : e = map[p][k]
  BY <1>1
<1>4. \A q \in Pod : Around(map[q][k], k, map, chan)
  BY DEF Around
<1>5. ASSUME NEW q \in Pod, ~ Newer(e, map[q][k]) PROVE map[q][k] = e
  <2>1. ~ Newer(map[q][k], e)
    BY <1>2, <1>3
  <2>2. map[q][k].ts = e.ts /\ map[q][k].node = e.node
    BY <1>1, <1>5, <2>1, NewerOrder
  <2> QED BY <1>1, <1>3, <1>4, <2>2 DEF KvInv, Distinct
<1>6. CASE e = NoEntry
  <2>1. \A q \in Pod : ~ Newer(e, map[q][k])
    BY <1>1, <1>6, NoEntryIsReg DEF Newer, Reg
  <2> QED BY <1>5, <2>1
<1>7. CASE e # NoEntry
  <2>1. e.node \in Pod /\ ~ Newer(e, map[e.node][k])
    BY <1>3, <1>4, <1>7 DEF KvInv, Genuine
  <2>2. map[e.node][k] = e
    BY <1>5, <2>1
  <2>3. ASSUME NEW q \in Pod PROVE map[q][k] = e
    <3>1. CASE q = e.node
      BY <2>2, <3>1
    <3>2. CASE q # e.node
      <4>1. ~ Newer(e, map[q][k]) \/ Carries(chan[e.node][q], k, e)
        BY <2>1, <2>2, <3>2 DEF KvInv, Reaches
      <4>2. ~ Carries(chan[e.node][q], k, e)
        <5>1. chan[e.node][q] = <<>>
          BY <2>1 DEF Quiet
        <5> QED BY <5>1, EmptySeq DEF Carries
      <4> QED BY <1>5, <4>1, <4>2
    <3> QED BY <3>1, <3>2
  <2> QED BY <2>3
<1> QED BY <1>6, <1>7
==============================================================================
