-------------------------------- MODULE MCPods --------------------------------
(***************************************************************************)
(* Hosted pods and what pods share, model-checked: a supervisor with one   *)
(* pod that fails often, and with a pod and its child; the host of a pod;  *)
(* an escrow; the keys of a group; a log of grants with the hand-over of   *)
(* the resource's key; the replicas of a bucket's chunks; a monitor of     *)
(* peers that migrates from those that fail; two copies of an audit chain; *)
(* a page that hosts pods of two names.  A behaviour runs one of the nine; *)
(* the variables of the others stay as they are initially.  GroupKeys is   *)
(* extended.                                                               *)
(***************************************************************************)
EXTENDS GroupKeys

CONSTANTS h1, h2, pa, ch, None, a, b, c,
  Hosts, MaxRestarts, MaxConcurrent, MaxTasks, MaxEvents,    \* PodSupervisor
  NPods, Bootstrappers, MaxAt, MaxRecords,                   \* GrantLog
  Watched, Preference, MaxMissed, Items, MaxRuns,            \* PeerHealth
  Auditors, MaxAppends,                                      \* AuditChain
  Contracts, Payer, Payee, Amount, Funds,                    \* Escrow
  Writer, Reader, Chunks, MaxFetches,                        \* ChunkReplication
  MaxCalls, MaxSpawns, Names, MaxPageSpawns                  \* PodHost

(* An escrow lies between two pods; the ledger takes positive amounts only. *)
ASSUME EscrowAssumption ==
  IsFiniteSet(Contracts) /\ Payer # Payee /\ Amount \in Nat \ {0} /\ Funds \in Nat

ASSUME SupervisorAssumption ==
  MaxRestarts \in Nat \ {0} /\ MaxConcurrent \in Nat \ {0} /\ MaxTasks \in Nat \ {0}

ASSUME MonitorAssumption == IsFiniteSet(Watched) /\ MaxMissed \in Nat \ {0}

ASSUME ChunksAssumption == Writer \in Pods /\ Reader \in Pods

(* No outcome of a spawn is the None that stands for the lack of one. *)
ASSUME PageAssumption == MaxPageSpawns \in Nat /\ None \notin {"ok", "failed", "timeout"}

VARIABLES
  run,                                                       \* which of the nine, fixed
  entry, listed, childrenOf, parentOf, armed, held, tasks, active, restartQueue,
  up, online, refusing, exits, spawned, events,              \* PodSupervisor
  rec, granted, calls, outcome, interested, heard,           \* PodHost: a host
  status, balance, proven, expired, awaiting, paid, raced,   \* Escrow
  log, effective, registry, announcing, known, hasKey, mail, \* GrantLog
  store, connected, replicas, put, fetch, net, requests,     \* ChunkReplication
  peers, health, missed, silent, enabled, moves, settled,    \* PeerHealth
  chain, signing, appends, overlapped,                       \* AuditChain
  record, spawns, alive, announced, channel, waiting, ended  \* PodHost: a page

supervisor == <<entry, listed, childrenOf, parentOf, armed, held, tasks, active, restartQueue,
                up, online, refusing, exits, spawned, events>>
host == <<rec, granted, calls, outcome, interested, heard>>
escrow == <<status, balance, proven, expired, awaiting, paid, raced>>
grants == <<log, effective, registry, announcing, known, hasKey, mail>>
chunks == <<store, connected, replicas, put, fetch, net, requests>>
monitor == <<peers, health, missed, silent, enabled, moves, settled>>
audit == <<chain, signing, appends, overlapped>>
page == <<record, spawns, alive, announced, channel, waiting, ended>>
all == <<run, vars, supervisor, host, escrow, grants, chunks, monitor, audit, page>>

(* One pod, or a pod and its child, which have less of a budget.            *)
Podspec(policy, restarts, parent) == [policy |-> policy, maxRestarts |-> restarts, parent |-> parent]
Podspecs ==
  {[p \in {pa} |-> Podspec("always", MaxRestarts, None)],
   [p \in {pa, ch} |-> Podspec("on-failure", MaxRestarts - 1, IF p = ch THEN pa ELSE None)]}

Supervisor == INSTANCE PodSupervisor WITH
  Pods <- {pa, ch}, Home <- [p \in {pa, ch} |-> h1], Specs <- Podspecs

Host == INSTANCE PodHost

Contract == INSTANCE Escrow

Grants == INSTANCE GrantLog WITH wire <- mail

Bucket == INSTANCE ChunkReplication WITH
  online <- connected, granted <- replicas, wire <- net

Monitor == INSTANCE PeerHealth WITH
  Pods <- Watched, Preferred <- <<Preference>>, status <- health

Audit == INSTANCE AuditChain WITH Pods <- Auditors

MCInit ==
  /\ Init /\ Supervisor!Init /\ Host!Init /\ Contract!Init /\ Grants!Init /\ Bucket!Init
  /\ Monitor!Init /\ Audit!Init /\ Host!PageInit
  /\ run \in {"supervisor", "host", "escrow", "keys", "grants", "chunks", "monitor", "audit", "page"}
  /\ run # "supervisor" => DOMAIN entry = {pa}
  /\ IF run = "chunks" THEN store[Writer] # {"k2"}   \* the chunks are alike
     ELSE store = [p \in Pods |-> {}]

MCNext ==
  \/ run = "supervisor" /\ Supervisor!Next
     /\ UNCHANGED <<run, vars, host, escrow, grants, chunks, monitor, audit, page>>
  \/ run = "host" /\ Host!Next
     /\ UNCHANGED <<run, vars, supervisor, escrow, grants, chunks, monitor, audit, page>>
  \/ run = "escrow" /\ Contract!Next
     /\ UNCHANGED <<run, vars, supervisor, host, grants, chunks, monitor, audit, page>>
  \/ run = "keys" /\ Next
     /\ UNCHANGED <<run, supervisor, host, escrow, grants, chunks, monitor, audit, page>>
  \/ run = "grants" /\ Grants!Next
     /\ UNCHANGED <<run, vars, supervisor, host, escrow, chunks, monitor, audit, page>>
  \/ run = "chunks" /\ Bucket!Next
     /\ UNCHANGED <<run, vars, supervisor, host, escrow, grants, monitor, audit, page>>
  \/ run = "monitor" /\ Monitor!Next
     /\ UNCHANGED <<run, vars, supervisor, host, escrow, grants, chunks, audit, page>>
  \/ run = "audit" /\ Audit!Next
     /\ UNCHANGED <<run, vars, supervisor, host, escrow, grants, chunks, monitor, page>>
  \/ run = "page" /\ Host!PageNext
     /\ UNCHANGED <<run, vars, supervisor, host, escrow, grants, chunks, monitor, audit>>

(* Started calls go on, and a network that is not down delivers. *)
MCFairness ==
  /\ \A i \in 1..MaxTasks : WF_supervisor(run = "supervisor" /\ Supervisor!Step(i))
  /\ WF_grants(run = "grants" /\ Grants!Steps)

MCSpec == MCInit /\ [][MCNext]_all /\ MCFairness

-----------------------------------------------------------------------------
(* "exceeding maxRestarts": crashes, losses of hosts, reconciles and failed *)
(* restarts of one pod overlap, and still use up one budget; no more        *)
(* restarts than MaxConcurrent run at a time.  A peer of the monitor counts *)
(* as failed after maxMissedHeartbeats silent ticks and no earlier, and is  *)
(* not migrated from twice without a sign of life in between.               *)
RestartsAndFailoversAreDue ==
  /\ run = "supervisor" => Supervisor!RestartBudget
  /\ run = "monitor" => Monitor!VerdictsAreEarned

(* A name has one pod, and an exec that outlives its pod does not touch the *)
(* successor; answers and timeouts of a client's calls race, drains and     *)
(* crashes race the calls in progress, but the first outcome stays, and     *)
(* gone pods stay gone.  A page holds the one child of each name it has     *)
(* spawned, whatever announcement comes late or of a predecessor.           *)
HostsHoldTheirPods ==
  [][Host!OnePodPerName /\ Host!EndsAreFinal /\ Host!ChildrenAreHeld']_all

(* Balances and open contracts hold all the credits there were, whatever    *)
(* the ledger refuses, and no more as long as no two payments overlap.      *)
EscrowBalances == Contract!CreditsBalance

(* The registry follows the log, in whatever order its records arrive.      *)
(* verify() accepts a copy of an audit chain exactly when no two of its     *)
(* append() calls overlapped; detectFork() finds where two copies part; the *)
(* Merkle proof of an entry holds for that entry and for no other.          *)
LogsAreTrue ==
  /\ run = "grants" => Grants!RegistryFollowsLog
  /\ run = "audit" => Audit!AuditIsTrue

(* A pod in restart comes back or is given up: no restart is forgotten at   *)
(* the gate, under an overwritten timer or after a failed spawn.  Whoever   *)
(* is admitted to a resource gets its key.                                  *)
RestartsEndAndKeysArrive ==
  Supervisor!RestartsEnd /\ Grants!AdmittedGetsKey

(* What replicatePut() and fetchChunk() report is so. *)
ChunkReportsAreTrue == run = "chunks" => Bucket!ReportsAreTrue
==============================================================================
