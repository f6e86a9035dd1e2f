-------------------------------- MODULE MCSync --------------------------------
(***************************************************************************)
(* What pods agree on, model-checked.  Their data (browsermesh-primitives, *)
(* browsermesh-sync): an observed-remove set and an RGA at two replicas    *)
(* each, the delta protocol among three pods whose logs are unbounded or   *)
(* compacted, and between two pods that compact their logs and broadcast   *)
(* snapshots.                                                              *)
(* Their members (browsermesh-discovery): three pods that know each other, *)
(* where a ping or a relayed ping of a running pod may time out; three     *)
(* pods of which one joins late, members are removed and pods stop and     *)
(* start; and the swarm that one pod keeps on top of its table.  And three *)
(* pods of one browser (browsermesh-pod), one of them in an iframe of      *)
(* another, that boot and shut down; and the sessions of a node with two   *)
(* peers (browsermesh-apps).  A behaviour runs one of the ten; the        *)
(* variables of the others stay as they are initially.                     *)
(***************************************************************************)
EXTENDS ORSet, TLC

CONSTANTS p1, p2, p3, q1, q2, q3, k

VARIABLES
  run,                                            \* which of the ten, fixed
  nodes, deleted, vclock, copies, history,        \* Rga
  log, state, remoteClock, pendingSend, network, seen, late, writes, requests, snapshots,
  members, incarnation, updates, pingQueue, pending, mail, crashed, stopped,
  accused, answered, spurious, lost, leaves, stops,     \* Swim
  swim, swarm, candidates, leader, leaveHandled, forced,  \* SwarmService
  phase, pc, listening, discovery, channel, role, peers, inbox, greetings,  \* PodBoot
  nodeState, boots, booting, stopping, auditing, known, connecting, sessions, used, open  \* PeerNode

rga == <<nodes, deleted, vclock, copies, history>>
delta == <<log, state, remoteClock, pendingSend, network, seen, late, writes, requests, snapshots>>
membership == <<members, incarnation, updates, pingQueue, pending, mail, crashed, stopped,
                accused, answered, spurious, lost, leaves, stops>>
service == <<swim, swarm, candidates, leader, leaveHandled, forced>>
browser == <<phase, pc, listening, discovery, channel, role, peers, inbox, greetings>>
node == <<nodeState, boots, booting, stopping, auditing, known, connecting, sessions, used, open>>
all == <<run, vars, rga, delta, membership, service, browser, node>>

Rga == INSTANCE Rga WITH Replica <- {1, 2}, MaxOps <- 4, wire <- copies

Mesh == INSTANCE DeltaSync WITH
  Pod <- {p1, p2, p3}, Key <- {k}, Behind <- {},
  MaxSize <- 0, MaxWrites <- 2, MaxRequests <- 3, MaxSnapshots <- 0

Compacting == INSTANCE DeltaSync WITH
  Pod <- {q1, q2}, Key <- {k}, Behind <- {q1},
  MaxSize <- 1, MaxWrites <- 3, MaxRequests <- 2, MaxSnapshots <- 1

Triangle == INSTANCE DeltaSync WITH
  Pod <- {p1, p2, p3}, Key <- {k}, Behind <- {},
  MaxSize <- 1, MaxWrites <- 2, MaxRequests <- 3, MaxSnapshots <- 0

Alarm == INSTANCE Swim WITH
  Pod <- {p1, p2, p3}, Newcomer <- {}, IndirectPingCount <- 1, MaxInFlight <- 2, MaxSpurious <- 1,
  MaxLost <- 0, MaxCrashes <- 0, MaxLeaves <- 0, MaxStops <- 0, network <- mail

Churn == INSTANCE Swim WITH
  Pod <- {q1, q2, q3}, Newcomer <- {q3}, IndirectPingCount <- 1, MaxInFlight <- 1, MaxSpurious <- 0,
  MaxLost <- 0, MaxCrashes <- 0, MaxLeaves <- 1, MaxStops <- 1, network <- mail

Service == INSTANCE SwarmService WITH
  Pods <- {1, 2, 3}, Local <- 2, MaxIncarnation <- 2, members <- swarm

ParentOf == [p \in {1, 2, 3} |-> IF p = 3 THEN 1 ELSE 0]

Boot == INSTANCE PodBoot WITH
  Pods <- {1, 2, 3}, None <- 0, Parent <- ParentOf, Silent <- {2}, state <- phase

Node == INSTANCE PeerNode WITH
  Peers <- {1, 2}, MaxBoots <- 2, MaxSessions <- 2, state <- nodeState, peers <- known

Symmetry == Permutations({p2, p3})

MCInit ==
  /\ Init /\ Rga!Init /\ Service!Init /\ Boot!Init /\ Node!Init
  /\ \/ run \in {"or_set", "rga", "mesh", "triangle", "alarm", "service", "boot", "node"} /\ Mesh!Init /\ Alarm!Init
     \/ run = "compacting" /\ Compacting!Init /\ Alarm!Init
     \/ run = "churn" /\ Mesh!Init /\ Churn!Init

MCNext ==
  \/ run = "or_set" /\ Next /\ UNCHANGED <<run, rga, delta, membership, service, browser, node>>
  \/ run = "rga" /\ Rga!Next /\ UNCHANGED <<run, vars, delta, membership, service, browser, node>>
  \/ run = "mesh" /\ Mesh!Next /\ UNCHANGED <<run, vars, rga, membership, service, browser, node>>
  \/ run = "triangle" /\ Triangle!Next /\ UNCHANGED <<run, vars, rga, membership, service, browser, node>>
  \/ run = "compacting" /\ Compacting!Next /\ UNCHANGED <<run, vars, rga, membership, service, browser, node>>
  \/ run = "alarm" /\ Alarm!Next /\ UNCHANGED <<run, vars, rga, delta, service, browser, node>>
  \/ run = "churn" /\ Churn!Next /\ UNCHANGED <<run, vars, rga, delta, service, browser, node>>
  \/ run = "service" /\ Service!Next /\ UNCHANGED <<run, vars, rga, delta, membership, browser, node>>
  \/ run = "boot" /\ Boot!Next /\ UNCHANGED <<run, vars, rga, delta, membership, service, node>>
  \/ run = "node" /\ Node!Next /\ UNCHANGED <<run, vars, rga, delta, membership, service, browser>>

MCSpec == MCInit /\ [][MCNext]_all

-----------------------------------------------------------------------------
(* "CRDTs that merge deterministically across peers": a copy of an RGA      *)
(* holds every node it knows of exactly once, hides for good those deleted  *)
(* by a call it knows of, and two replicas that know of the same calls show *)
(* the same array.                                                          *)
RgaConvergence == run = "rga" => Rga!HoldsItsCalls /\ Rga!Convergence

(* "preserving local order": a merge never swaps two nodes of the replica's *)
(* own sequence.                                                            *)
RgaLocalOrderKept == [][run = "rga" => Rga!LocalOrderKept]_all

(* A peer is never told less than it lacks: whatever a SyncSession leaves   *)
(* out of its answers because it counts as confirmed did arrive, however    *)
(* requests, answers and acks were lost or overtook each other.  In a       *)
(* compacted log this does not hold for an entry that a third pod brought   *)
(* back after a later one of its origin; but what the session counts as     *)
(* confirmed is always the number of an entry the peer got.  Without        *)
(* compaction a pod's knowledge of an origin has no gaps either, also when  *)
(* a third pod relayed it.                                                  *)
DeltaNothingMissing ==
  /\ run = "mesh" => Mesh!ConfirmedArrived /\ Mesh!ClocksAreReal /\ Mesh!NoGaps
  /\ run = "triangle" => Triangle!ConfirmedArrived /\ Triangle!ClocksAreReal
  /\ run = "compacting" => Compacting!ConfirmedArrived /\ Compacting!ClocksAreReal

(* Nobody holds a pod for dead in an incarnation in which nobody had waited *)
(* for its answer in vain, and only a pod itself raises its incarnation.    *)
DeadWasAccused ==
  /\ run = "alarm" => Alarm!DeadWasAccused
  /\ run = "churn" => Churn!DeadWasAccused

(* "Higher incarnation always wins; same incarnation: dead > suspect >      *)
(* alive": a pod's verdict on another never goes back.                      *)
VerdictsAdvance ==
  [][/\ run = "alarm" => Alarm!VerdictAdvances
     /\ run = "churn" => Churn!VerdictAdvances]_all

(* The swarm that mesh-swarm keeps is what SWIM's table says.  The peers    *)
(* that a booted pod lists are the pods on its channel: "Broadcast goodbye, *)
(* close channels, clear peers", however boots and shutdowns overlap.  The  *)
(* peers that a registry calls connected are those its node has sessions    *)
(* with.                                                                    *)
MembershipIsTrue ==
  /\ run = "service" => Service!SwarmFollowsSwim
  /\ run = "boot" => Boot!PeersAreExact
  /\ run = "node" => Node!SessionsFollowRegistry
==============================================================================
