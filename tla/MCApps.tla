-------------------------------- MODULE MCApps --------------------------------
(***************************************************************************)
(* The replicated store, the payment channels, the scheduler, the remote   *)
(* calls and the votes of browsermesh-apps and the migration engine,       *)
(* model-checked: three pods that trust and watch one another; two pods    *)
(* whose grants and watches change; two plans for one migration slot;      *)
(* unsigned channels whose updates arrive more than once; a signed         *)
(* channel; three tasks, one of which fits one of the two nodes only; two  *)
(* callers of one server; three voters, one of whom has a fast clock or    *)
(* changes whom it admits.  A behaviour runs one of the eight; the         *)
(* variables of the others stay as they are initially, where none of their *)
(* fair actions is enabled.                                                *)
(***************************************************************************)
EXTENDS Integers, FiniteSets

CONSTANTS
  Keys, Authors,                                               \* MeshKv
  TrustPods, TrustTime,                                        \* ... pods that trust one another
  GrantPods, GrantTime,                                        \* ... pods whose grants change
  MaxWrites, MaxPushes,
  PlanSet, MaxPlans,                                           \* Migration
  Parties, Deposit, MaxPays, UnsignedOpens, SignedOpens,       \* Payments
  TaskSet, NodeSet, Choosy, Few,                               \* MeshScheduler: Choosy tasks fit
  MaxTasks, MaxTries, MaxReports, MaxRestarts,                 \* Few nodes
  CallerSet, Busy,                                             \* MeshRpc: the callers that call twice
  MaxInflight, MaxIncoming, MaxIncomingPerPeer,
  VoterSet, Proposer, Heavy, Fickle, Choices, Quorums, MaxChanges  \* Consensus: Heavy votes weigh 2,
                                                               \* Fickle pods change

ASSUME StoreAssumption ==
  /\ TrustPods \in Nat /\ TrustTime \in Nat /\ GrantPods \in Nat /\ GrantTime \in Nat
  /\ Authors \subseteq 1..TrustPods /\ Authors \subseteq 1..GrantPods

ASSUME PaymentsAssumption == (\E a, b \in Parties : a # b /\ Parties = {a, b}) /\ Deposit \in Nat

(* Tasks are numbered in the order of the queue. *)
ASSUME TasksAssumption == TaskSet \subseteq Nat /\ IsFiniteSet(TaskSet) /\ MaxTasks \in Nat

ASSUME CallersAssumption ==
  /\ IsFiniteSet(CallerSet) /\ "server" \notin CallerSet
  /\ MaxIncoming \in Nat /\ MaxIncomingPerPeer \in Nat

ASSUME VotersAssumption ==
  /\ IsFiniteSet(VoterSet) /\ Choices \in Nat /\ Quorums \subseteq Nat \ {0}

VARIABLES
  run,                                                         \* which of the eight, fixed
  map, version, clock, writes, watch, acl, chan, pushes,       \* MeshKv
  state, step, pc, altered, received, hashOk, cancelled,       \* Migration
  channel, awaiting, network, disputed, attested, settled, opens, pays,  \* Payments
  status, retries, copies, nodes, reports, restarts,           \* MeshScheduler
  call, counts, handler, served, toServer, toCaller, torn,     \* MeshRpc
  known, quorum, verdict, ballots, validators, past, sent, changes  \* Consensus

kv == <<map, version, clock, writes, watch, acl, chan, pushes>>
migration == <<state, step, pc, altered, received, hashOk, cancelled>>
payments == <<channel, awaiting, network, disputed, attested, settled, opens, pays>>
scheduler == <<status, retries, copies, nodes, reports, restarts>>
rpc == <<call, counts, handler, served, toServer, toCaller, torn>>
votes == <<known, quorum, verdict, ballots, validators, past, sent, changes>>
vars == <<run, kv, migration, payments, scheduler, rpc, votes>>

Trust == INSTANCE MeshKv WITH
  LastPod <- TrustPods, Key <- Keys, Writer <- Authors, Deletes <- {FALSE},
  MaxTime <- TrustTime, AclChanges <- FALSE

Grants == INSTANCE MeshKv WITH
  LastPod <- GrantPods, Key <- Keys, Writer <- Authors, Deletes <- {TRUE},
  MaxTime <- GrantTime, AclChanges <- TRUE

Plans == INSTANCE Migration WITH Plan <- PlanSet, MaxConcurrent <- MaxPlans

Unsigned == INSTANCE Payments WITH
  Pod <- Parties, Signs <- FALSE, Redelivers <- TRUE, MaxOpens <- UnsignedOpens

Signed == INSTANCE Payments WITH
  Pod <- Parties, Signs <- TRUE, Redelivers <- FALSE, MaxOpens <- SignedOpens

FitsOf == [t \in TaskSet |-> IF t \in Choosy THEN Few ELSE NodeSet]

Tasks == INSTANCE MeshScheduler WITH
  Task <- TaskSet, Node <- NodeSet, Fits <- FitsOf, MaxConcurrent <- MaxTasks, MaxRetries <- MaxTries

CallSet == {i \in CallerSet \X {1, 2} : i[2] = 1 \/ i[1] \in Busy}

Rpc == INSTANCE MeshRpc WITH Callers <- CallerSet, Ids <- CallSet, closed <- torn

Voters == INSTANCE Consensus WITH
  Pods <- VoterSet, Author <- Proposer, Options <- [i \in 1..Choices |-> i],
  WeightOf <- [p \in VoterSet |-> IF p \in Heavy THEN 2 ELSE 1],
  Changing <- Fickle, status <- verdict

Init ==
  /\ Plans!Init /\ Signed!Init /\ Tasks!Init /\ Rpc!Init /\ Voters!Init
  /\ \/ run = "trust" /\ Trust!Init
     \/ /\ run \in {"grants", "plans", "unsigned", "signed", "tasks", "rpc", "votes"}
        /\ Grants!Init

Next ==
  \/ run = "trust" /\ Trust!Next
     /\ UNCHANGED <<run, migration, payments, scheduler, rpc, votes>>
  \/ run = "grants" /\ Grants!Next
     /\ UNCHANGED <<run, migration, payments, scheduler, rpc, votes>>
  \/ run = "plans" /\ Plans!Next
     /\ UNCHANGED <<run, kv, payments, scheduler, rpc, votes>>
  \/ run = "unsigned" /\ Unsigned!Next
     /\ UNCHANGED <<run, kv, migration, scheduler, rpc, votes>>
  \/ run = "signed" /\ Signed!Next
     /\ UNCHANGED <<run, kv, migration, scheduler, rpc, votes>>
  \/ run = "tasks" /\ Tasks!Next
     /\ UNCHANGED <<run, kv, migration, payments, rpc, votes>>
  \/ run = "rpc" /\ Rpc!Next
     /\ UNCHANGED <<run, kv, migration, payments, scheduler, votes>>
  \/ run = "votes" /\ Voters!Next
     /\ UNCHANGED <<run, kv, migration, payments, scheduler, rpc>>

(* Payloads under way are delivered; a settled promise's continuation runs; *)
(* somebody calls schedule() again and again, and running tasks end; the    *)
(* timer of a request fires.                                                *)
Fairness ==
  /\ WF_kv(run = "trust" /\ Trust!Delivery)
  /\ WF_kv(run = "grants" /\ Grants!Delivery)
  /\ WF_migration(run = "plans" /\ \E p \in PlanSet : Plans!Execution(p))
  /\ WF_scheduler(run = "tasks" /\ Tasks!Schedule)
  /\ WF_scheduler(run = "tasks" /\ Tasks!TaskEnds)
  /\ WF_rpc(run = "rpc" /\ Rpc!Timers)

Spec == Init /\ [][Next]_vars /\ Fairness

-----------------------------------------------------------------------------
(* Pods that watch and trust one another agree on every key once nothing is *)
(* under way: the filter of handleIncoming() and the suppressed             *)
(* notifications of MeshSyncEngine.merge() never cost an update.            *)
KvConvergence == run = "trust" => Trust!Convergence

(* "Only entries that pass BOTH checks ever reach engine.merge()": an entry *)
(* appears at a pod that did not write it only when the pod's registry      *)
(* allows its writer at that moment; and a register only ever moves to a    *)
(* newer entry, so neither a late payload nor a write with an old clock     *)
(* brings a superseded value back.                                          *)
KvWritesGrantedAndNewer ==
  [][/\ run = "trust" => Trust!EntriesAdvance
     /\ run = "grants" => Grants!EntriesAdvance /\ Grants!OnlyGrantedWrites]_vars

(* A plan that executePlan() reports completed ran every one of its steps,  *)
(* and its checkpoint matched its hash when it was read, whatever cancels,  *)
(* writes to the data and received checkpoints came in between.             *)
CompletedWasVerified == run = "plans" => Plans!CompletedWasVerified

(* No payment counts twice: the two views of one channel never hold more    *)
(* than was deposited, however updates of both directions cross, overtake   *)
(* each other or a close, or, unsigned, arrive again.  "never accept the    *)
(* wire message's numbers unconditionally": a settlement that               *)
(* finalizeClose() returns was co-signed by the other pod against a view of *)
(* its own that mirrors it, and divides the whole deposit.  No vote counts  *)
(* twice: whatever votes are late or lost and whoever closes first, two     *)
(* pods decide for different options only with different supporters, and    *)
(* never when a majority of the quorum is a majority of the voters.         *)
PaymentsAndVotesAddUp ==
  /\ run \in {"unsigned", "signed"} => Signed!NoCreditCreated /\ Signed!SettlementAttested
  /\ run = "votes" => Voters!DecisionsAgree

(* schedule() takes no more tasks than there is room for, and none that     *)
(* another one that could run comes before.                                 *)
TasksWithinLimits == [][run = "tasks" => Tasks!WithinLimits]_vars

(* A remote call is answered only by a handler that ran for it and was not  *)
(* aborted, its first outcome stays, and the limits on requests in progress *)
(* are exact.                                                               *)
CallsAreExact == [][run = "rpc" => Rpc!SettledOnce /\ Rpc!AnswersAndTablesAreTrue']_vars

(* The mutual broadcasts of mesh-kv die down: no "unbounded broadcast ->    *)
(* merge -> notify -> broadcast cycle", and everything sent is handled.     *)
(* executePlan() always ends, with its plan in a terminal state.  No task   *)
(* waits for ever, and every remote call settles, whatever comes late,      *)
(* twice or never.                                                          *)
AppsSettle ==
  /\ <>[](/\ run = "trust" => Trust!Quiet
          /\ run = "grants" => Grants!Quiet)
  /\ Plans!ExecutionEnds /\ Tasks!EveryTaskIsServed /\ Rpc!EveryRequestSettles
==============================================================================
