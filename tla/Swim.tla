---------------------------------- MODULE Swim ----------------------------------
(***************************************************************************)
(* SwimMembership of browsermesh-discovery (swarm.mjs): pods ping each     *)
(* other, ask relays to ping for them, suspect and declare dead, and       *)
(* piggyback these verdicts on their messages.  Timers fire in any order,  *)
(* messages overtake each other and get lost, pods crash.                  *)
(***************************************************************************)
EXTENDS Naturals, FiniteSets

CONSTANTS
  Pod,
  Newcomer,            \* pods that the others do not know at the start
  IndirectPingCount,   \* relays asked per failed ping
  MaxInFlight,         \* bound: messages under way
  MaxSpurious,         \* bound: pings of running pods that time out
  MaxLost,             \* bound: messages lost
  MaxCrashes,          \* bound: pods that crash
  MaxLeaves,           \* bound: removeMember() calls
  MaxStops             \* bound: stop() calls

ASSUME SwimAssumption ==
  /\ Newcomer \subseteq Pod
  /\ {IndirectPingCount, MaxInFlight, MaxSpurious, MaxLost, MaxCrashes, MaxLeaves, MaxStops} \subseteq Nat

MaxIncarnation == 2 * MaxSpurious   \* a suspicion and the death after it are both refuted
State == {"alive", "suspect", "dead", "left"}
Priority == [alive |-> 0, suspect |-> 1, dead |-> 2, left |-> 3]
Entry(s, i) == [state |-> s, incarnation |-> i]
Unknown == [state |-> "unknown"]
None == [state |-> "none"]
NoUpdates == [q \in Pod |-> None]

VARIABLES
  members,       \* members[p][q]: p's entry of q, Unknown if it has none
  incarnation,   \* incarnation[p]: #localIncarnation
  updates,       \* updates[p][q]: the update about q in p's buffer; at most one per pod
  pingQueue,     \* pingQueue[p]: the targets left of this shuffle
  pending,       \* pending[p]: timers of #pendingPings
  network,
  crashed,
  stopped,       \* pods whose ping interval is cleared; they still answer
  accused,       \* history: <<pod, incarnation>> somebody suspected for want of an answer
  answered,      \* history: <<relay, seq>> pings for another pod that were answered
  spurious, lost, leaves, stops

counters == <<spurious, lost, leaves, stops>>
lifecycle == <<crashed, stopped, stops>>
vars == <<members, incarnation, updates, pingQueue, pending, network, crashed, stopped,
          accused, answered, counters>>

Init ==
  /\ members = [p \in Pod |-> [q \in Pod |->
       IF p # q /\ {p, q} \cap Newcomer # {} THEN Unknown ELSE Entry("alive", 0)]]
  /\ incarnation = [p \in Pod |-> 0]
  /\ updates = [p \in Pod |-> NoUpdates]
  /\ pingQueue = [p \in Pod |-> {}]
  /\ pending = [p \in Pod |-> {}]
  /\ network = {}
  /\ crashed = {} /\ stopped = {}
  /\ accused = {}
  /\ answered = {}
  /\ spurious = 0 /\ lost = 0 /\ leaves = 0 /\ stops = 0

-----------------------------------------------------------------------------
AliveMembers(p) == {q \in Pod \ {p} : members[p][q].state = "alive"}

(* A sequence number of p that no timer and no message uses: those of the   *)
(* code are never reused, and which number it is does not matter.           *)
InUse(p) ==
  {t.seq : t \in pending[p]} \cup {m.seq : m \in {n \in network : n.owner = p}}
    \cup UNION {{t.requestSeq : t \in {u \in pending[q] : u.kind = "relay" /\ u.requester = p}} : q \in Pod}
Fresh(p) == CHOOSE n \in 1..100 : n \notin InUse(p) /\ \A k \in 1..(n-1) : k \in InUse(p)

Message(type, from, to, owner, seq, ups) ==
  [type |-> type, from |-> from, to |-> to, owner |-> owner, seq |-> seq, updates |-> ups, target |-> to]

Room(n) == Cardinality(network) + n <= MaxInFlight

(* addMember() *)
AddMember(p, q) ==
  /\ p # q /\ members[p][q] = Unknown
  /\ members' = [members EXCEPT ![p][q] = Entry("alive", 0)]
  /\ updates' = [updates EXCEPT ![p][q] = Entry("alive", 0)]
  /\ UNCHANGED <<incarnation, pingQueue, pending, network, lifecycle, accused, answered, counters>>

(* removeMember() *)
RemoveMember(p, q) ==
  /\ members[p][q] # Unknown /\ leaves < MaxLeaves
  /\ members' = [members EXCEPT ![p][q].state = "left"]
  /\ updates' = [updates EXCEPT ![p][q] = Entry("left", members[p][q].incarnation)]
  /\ leaves' = leaves + 1
  /\ UNCHANGED <<incarnation, pingQueue, pending, network, lifecycle, accused, answered, spurious, lost>>

(* #pingRound() *)
PingRound(p) ==
  LET queue == IF pingQueue[p] = {} THEN AliveMembers(p) ELSE pingQueue[p]
      seq == Fresh(p)
  IN
  /\ p \notin stopped
  /\ Room(1) /\ ~\E t \in pending[p] : t.kind = "ping"   \* the interval is above the timeout
  /\ \E q \in queue :
       /\ pingQueue' = [pingQueue EXCEPT ![p] = queue \ {q}]
       /\ IF members[p][q].state \in {"dead", "left"} THEN UNCHANGED <<network, pending, updates>>
          ELSE /\ network' = network \cup {Message("PING", p, q, p, seq, updates[p])}
               /\ pending' = [pending EXCEPT ![p] = @ \cup {[seq |-> seq, kind |-> "ping", target |-> q]}]
               /\ updates' = [updates EXCEPT ![p] = NoUpdates]
  /\ UNCHANGED <<members, incarnation, lifecycle, accused, answered, counters>>

-----------------------------------------------------------------------------
(* #processUpdate() of an update about another pod *)
ProcessedNotOlder(entry, u) ==
  CASE u = None -> entry
    [] entry = Unknown -> IF u.state \in {"alive", "suspect"} THEN u ELSE entry
    [] OTHER -> IF u.incarnation >= entry.incarnation THEN u ELSE entry

Processed(entry, u) ==
  CASE u = None -> entry
    [] entry = Unknown -> IF u.state \in {"alive", "suspect"} THEN u ELSE entry
    [] OTHER -> IF \/ u.incarnation > entry.incarnation
                   \/ u.incarnation = entry.incarnation /\ Priority[u.state] > Priority[entry.state]
                THEN u ELSE entry

(* ... and of one about p itself: a suspicion is refuted *)
Refutes(p, u) == u.state \in {"suspect", "dead"}

Refuted(p, u) ==
  IF ~Refutes(p, u) THEN incarnation[p]
  ELSE (IF u.incarnation > incarnation[p] THEN u.incarnation ELSE incarnation[p]) + 1

ProcessUpdates(p, ups) ==
  /\ members' = [members EXCEPT ![p] = [q \in Pod |-> IF q = p THEN @[p] ELSE Processed(@[q], ups[q])]]
  /\ incarnation' = [incarnation EXCEPT ![p] = Refuted(p, ups[p])]

Buffered(p, ups) ==   \* p's buffer after ProcessUpdates
  IF Refutes(p, ups[p]) THEN [updates[p] EXCEPT ![p] = Entry("alive", Refuted(p, ups[p]))] ELSE updates[p]

(* #handlePing() *)
HandlePing(m) ==
  LET p == m.to IN
  /\ ProcessUpdates(p, m.updates)
  /\ network' = (network \ {m}) \cup {Message("ACK", p, m.from, m.owner, m.seq, Buffered(p, m.updates))}
  /\ updates' = [updates EXCEPT ![p] = NoUpdates]
  /\ UNCHANGED <<pingQueue, pending, lifecycle, accused, answered, counters>>

(* #handleAck(): the timer is cleared; a relay does not forward the answer *)
HandleAck(m) ==
  LET p == m.to IN
  /\ ProcessUpdates(p, m.updates)
  /\ pending' = [pending EXCEPT ![p] = {t \in @ : t.seq # m.seq}]
  /\ answered' = answered \cup {<<p, t.requester, t.requestSeq>> :
                                 t \in {u \in pending[p] : u.seq = m.seq /\ u.kind = "relay"}}
  /\ updates' = [updates EXCEPT ![p] = Buffered(p, m.updates)]
  /\ network' = network \ {m}
  /\ UNCHANGED <<pingQueue, lifecycle, accused, counters>>

(* #handlePingReq() *)
HandlePingReq(m) ==
  LET p == m.to  seq == Fresh(p) IN
  /\ network' = (network \ {m}) \cup {Message("PING", p, m.target, p, seq, updates[p])}
  /\ updates' = [updates EXCEPT ![p] = NoUpdates]
  /\ pending' = [pending EXCEPT ![p] = @ \cup
       {[seq |-> seq, kind |-> "relay", target |-> m.target, requester |-> m.from, requestSeq |-> m.seq]}]
  /\ UNCHANGED <<members, incarnation, pingQueue, lifecycle, accused, answered, counters>>

(* #handlePingAck(); a relay's message carries no updates *)
HandlePingAck(m) ==
  /\ pending' = [pending EXCEPT ![m.to] = {t \in @ : t.seq # m.seq}]
  /\ network' = network \ {m}
  /\ UNCHANGED <<members, incarnation, updates, pingQueue, lifecycle, accused, answered, counters>>

Handle(m) ==
  /\ m.to \notin crashed
  /\ \/ m.type = "PING" /\ HandlePing(m)
     \/ m.type = "ACK" /\ HandleAck(m)
     \/ m.type = "PING_REQ" /\ HandlePingReq(m)
     \/ m.type = "PING_ACK" /\ HandlePingAck(m)

(* A message to a crashed pod, or one that the transport loses *)
Vanish(m) ==
  /\ m.to \in crashed \/ lost < MaxLost
  /\ lost' = IF m.to \in crashed THEN lost ELSE lost + 1
  /\ network' = network \ {m}
  /\ UNCHANGED <<members, incarnation, updates, pingQueue, pending, lifecycle, accused, answered, spurious, leaves>>

-----------------------------------------------------------------------------
(* #onIndirectTimeout(): a member that is still alive becomes suspect, with a timer. *)
Suspect(p, q, rest) ==
  IF members[p][q].state # "alive"
  THEN /\ pending' = [pending EXCEPT ![p] = rest]
       /\ UNCHANGED <<members, updates, accused>>
  ELSE /\ members' = [members EXCEPT ![p][q].state = "suspect"]
       /\ updates' = [updates EXCEPT ![p][q] = Entry("suspect", members[p][q].incarnation)]
       /\ accused' = accused \cup {<<q, members[p][q].incarnation>>}
       /\ pending' = [pending EXCEPT ![p] = rest \cup
            {[seq |-> Fresh(p), kind |-> "suspect", target |-> q]}]

PingTimeoutNoFallback(p, t) ==   \* waits for relays although there are none
  /\ t.kind = "ping" /\ t.target \in crashed
  /\ pending' = [pending EXCEPT ![p] = @ \ {t}]
  /\ UNCHANGED <<members, updates, accused, network, incarnation, pingQueue, lifecycle, answered, counters>>

(* #onPingTimeout(): ask relays, or suspect at once if there are none. *)
PingTimeout(p, t) ==
  LET rest == pending[p] \ {t}
      candidates == AliveMembers(p) \ {t.target}
      seq == Fresh(p)
  IN
  /\ t.kind = "ping"
  /\ t.target \in crashed \/ spurious < MaxSpurious
  /\ spurious' = IF t.target \in crashed THEN spurious ELSE spurious + 1
  /\ \E relays \in SUBSET candidates :
       /\ \/ Cardinality(relays) = IndirectPingCount
          \/ Cardinality(relays) < IndirectPingCount /\ relays = candidates
       /\ IF relays = {} THEN Suspect(p, t.target, rest) /\ UNCHANGED network
          ELSE /\ Room(Cardinality(relays))
               /\ network' = network \cup
                    {[Message("PING_REQ", p, r, p, seq, NoUpdates) EXCEPT !.target = t.target] : r \in relays}
               /\ pending' = [pending EXCEPT ![p] = rest \cup
                    {[seq |-> seq, kind |-> "indirect", target |-> t.target]}]
               /\ UNCHANGED <<members, updates, accused>>
  /\ UNCHANGED <<incarnation, pingQueue, lifecycle, answered, lost, leaves>>

IndirectTimeout(p, t) ==
  /\ t.kind = "indirect"
  /\ Suspect(p, t.target, pending[p] \ {t})
  /\ UNCHANGED <<incarnation, pingQueue, network, lifecycle, answered, counters>>

(* The relay's timer: the target did not answer, and PING_ACK is sent. *)
RelayTimeout(p, t) ==
  /\ t.kind = "relay"
  /\ t.target \in crashed \/ spurious < MaxSpurious
  /\ spurious' = IF t.target \in crashed THEN spurious ELSE spurious + 1
  /\ Room(1)
  /\ pending' = [pending EXCEPT ![p] = @ \ {t}]
  /\ network' = network \cup
       {Message("PING_ACK", p, t.requester, t.requester, t.requestSeq, NoUpdates)}
  /\ UNCHANGED <<members, incarnation, updates, pingQueue, lifecycle, accused, answered, lost, leaves>>

(* #onSuspectTimeout(); the timer's record stays in #pendingPings in the    *)
(* code, where only stop() would find it.                                   *)
SuspectTimeoutUnchecked(p, t) ==
  /\ t.kind = "suspect"
  /\ pending' = [pending EXCEPT ![p] = @ \ {t}]
  /\ members' = [members EXCEPT ![p][t.target].state = "dead"]
  /\ updates' = [updates EXCEPT ![p][t.target] = Entry("dead", members[p][t.target].incarnation)]
  /\ UNCHANGED <<incarnation, pingQueue, network, lifecycle, accused, answered, counters>>

SuspectTimeout(p, t) ==
  /\ t.kind = "suspect"
  /\ pending' = [pending EXCEPT ![p] = @ \ {t}]
  /\ IF members[p][t.target].state # "suspect" THEN UNCHANGED <<members, updates>>
     ELSE /\ members' = [members EXCEPT ![p][t.target].state = "dead"]
          /\ updates' = [updates EXCEPT ![p][t.target] = Entry("dead", members[p][t.target].incarnation)]
  /\ UNCHANGED <<incarnation, pingQueue, network, lifecycle, accused, answered, counters>>

Timeout(p) == \E t \in pending[p] :
  PingTimeout(p, t) \/ IndirectTimeout(p, t) \/ RelayTimeout(p, t) \/ SuspectTimeout(p, t)

Crash(p) ==
  /\ Cardinality(crashed) < MaxCrashes
  /\ crashed' = crashed \cup {p}
  /\ pending' = [pending EXCEPT ![p] = {}]
  /\ UNCHANGED <<members, incarnation, updates, pingQueue, network, stopped, accused, answered, counters>>

(* start() and stop() *)
Start(p) ==
  /\ p \in stopped
  /\ stopped' = stopped \ {p}
  /\ UNCHANGED <<members, incarnation, updates, pingQueue, pending, network, crashed, accused, answered, counters>>

Stop(p) ==
  /\ p \notin stopped /\ stops < MaxStops
  /\ stopped' = stopped \cup {p}
  /\ stops' = stops + 1
  /\ pending' = [pending EXCEPT ![p] = {}]
  /\ UNCHANGED <<members, incarnation, updates, pingQueue, network, crashed, accused, answered, spurious, lost, leaves>>

Next ==
  \/ \E p \in Pod \ crashed :
       \/ PingRound(p) \/ Timeout(p) \/ Crash(p) \/ Start(p) \/ Stop(p)
       \/ \E q \in Pod : AddMember(p, q) \/ RemoveMember(p, q)
  \/ \E m \in network : Handle(m) \/ Vanish(m)

Spec == Init /\ [][Next]_vars

(* What goes on by itself: ping rounds and timers run on setInterval() and  *)
(* setTimeout(); a message that is not lost arrives, whatever the other     *)
(* pods send meanwhile.                                                     *)
Rounds(p) == p \notin crashed /\ PingRound(p)

Timers(p) ==
  /\ p \notin crashed
  /\ \E t \in pending[p] : \/ IndirectTimeout(p, t) \/ RelayTimeout(p, t)
                           \/ SuspectTimeout(p, t)
                           \/ t.target \in crashed /\ PingTimeout(p, t)

Arrivals(p) == \E m \in network : m.owner = p /\ (Handle(m) \/ (m.to \in crashed /\ Vanish(m)))

FairSpec == Spec /\ \A p \in Pod : SF_vars(Rounds(p)) /\ WF_vars(Timers(p)) /\ WF_vars(Arrivals(p))

-----------------------------------------------------------------------------
Entries == [state : State, incarnation : 0..MaxIncarnation]

(* The types of the members' tables and buffers. *)
TypeOK ==
  /\ members \in [Pod -> [Pod -> Entries \cup {Unknown}]]
  /\ incarnation \in [Pod -> 0..MaxIncarnation]
  /\ updates \in [Pod -> [Pod -> Entries \cup {None}]]
  /\ \A p \in Pod : pingQueue[p] \subseteq Pod \ {p} /\ \A t \in pending[p] : t.target # p

(* "Higher incarnation always wins; same incarnation: dead > suspect >      *)
(* alive": a pod's verdict on another never goes back.                      *)
VerdictAdvances ==
  \A p, q \in Pod : members[p][q] # Unknown =>
    \/ members'[p][q].incarnation > members[p][q].incarnation
    \/ /\ members'[p][q].incarnation = members[p][q].incarnation
       /\ Priority[members'[p][q].state] >= Priority[members[p][q].state]

(* Only a pod itself raises its incarnation: no entry, buffered update or   *)
(* message speaks of a later one; and nobody holds a pod for dead in an     *)
(* incarnation in which nobody had waited for its answer in vain.           *)
DeadWasAccused ==
  /\ \A q \in Pod :
       LET known == {members[p][q] : p \in Pod} \cup {updates[p][q] : p \in Pod}
                      \cup {m.updates[q] : m \in network}
       IN  \A e \in known \ {Unknown, None} : e.incarnation <= incarnation[q]
  /\ \A p, q \in Pod : members[p][q].state \in {"suspect", "dead"}
       => <<q, members[p][q].incarnation>> \in accused

(* "If the target still does not respond it is marked suspect": sooner or   *)
(* later no running pod holds a crashed one for alive, and that stays so,   *)
(* whatever old updates are still gossiped.                                 *)
CrashIsNoticed ==
  <>[](\A p, q \in Pod : p # q /\ q \in crashed
         => p \in crashed \cup stopped \/ members[p][q].state # "alive")

(* "the indirect ping succeeded": a PING_ACK is sent by a relay that had an *)
(* answer from the target.                                                  *)
PingAckMeansAnswer ==
  \A m \in network : m.type = "PING_ACK" => <<m.from, m.to, m.seq>> \in answered
=================================================================================
