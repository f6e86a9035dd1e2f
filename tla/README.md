# A TLA+ model of browsermesh

browsermesh connects browser tabs, workers and servers ("pods") into a mesh. The
repository is a set of packages; the parts with protocol logic of their own are
modelled here, one module per component, translated from the source. `PROJECT.json`
says which definition models which lines, which runs check which properties, and
which hazards of the code each property is about.

## 1. Inventory

| Package | Part | State | Operations | Talks to |
|---|---|---|---|---|
| transport | stream multiplexer (`streams.mjs`) | per stream: state, credits, sequence, send queue; map of streams | open, write, end, cancel, grantCredits, dispatch of seven message types, closeAll | the multiplexer at the other end, in order |
| transport | WebSocket transport, Wisp client | socket, state, attempts, heartbeat, jitter queue, proxied streams | connect, send, close, socket events, backoff | a server |
| transport | WebRTC connections and mesh manager (`webrtc.mjs`) | per connection: state, channel, negotiation; map, timers, attempts | connectToPeer, offers and answers, state changes, reconnect, close | the browser's WebRTC, the peer |
| transport | relay, gateway, cross-origin, negotiation | routes, tables of pending requests | | |
| priority-mux | scheduler, mux, reassembler | queue per tier, slot counter, pending chunks | enqueue, dequeue, send, drainTick, accept, close | an adapter that may throw |
| sync | migration | plans, their steps and checkpoints | initiate, execute, cancel, receive checkpoint | awaited hashing and transfers |
| sync | delta protocol | log, clocks, sessions, pending sends | append, request, answer, confirm, compact, snapshot | the other pods' logs |
| sync | file transfer (`files.mjs`) | per transfer: status, chunks received, store | offer, accept, reject, cancel, sendChunks, receiveChunk | the other pod |
| sync | MeshSyncEngine, collaboration, memory, storage | documents | create, update, merge, save, load | the CRDTs and storage |
| primitives | CRDTs | ORSet, RGA, LWW registers and maps, counters | add, remove, insert, delete, merge, toJSON, fromJSON | copies are exchanged by the callers |
| netway | gateway backend and operation queue | queue, pending operations, sockets, listeners | connect, listen, resolve, drain, close, gateway messages | a remote gateway |
| netway | loopback backend, listeners, sockets | port tables, accept queues, buffers, readers | listen, connect, accept, read, write, close | itself |
| kernel | pipes (`byte-stream.mjs`) | buffer, waiting readers, two ends | read, write, close, pipe | |
| kernel | resource table, tenants, services | handles | | |
| discovery | SWIM membership, swarm coordinator | member table, incarnation, update buffer, timers; members, candidates, leader | ping round, handlers, timeouts, add, remove, start, stop; join, leave, elect | the other pods |
| discovery | DHT, service discovery, naming | routing table, leases, names | lookups, announcements | the other pods |
| core | handshake coordinator | calls in progress, transports per peer | connect, handle offer, answer, timeouts | signalling server, WebRTC |
| core | hardening | circuit breaker, active and failed transports, health checks, windows | execute, connect, failover, ping, pong | the negotiator |
| core | group keys | keys by epoch, members | initGroup, add, remove, rotate, distribute, accept | the managers of the other members |
| core | identity, capabilities, keyring, ACL | keys, tables | | |
| pod | pod, discovery and transport of a browser (`pod.mjs`) | state, channel, peers | boot, shutdown, greetings, goodbyes | BroadcastChannel, window messages |
| pod | host protocol and drivers | records by name, calls, interests | spawn, exec, drain, snapshot, exit events | children of the page, remote clients |
| apps | peer node and registry | state, sessions, peers | boot, shutdown, connectToPeer, adoptIncomingSession, disconnectPeer, removePeer | negotiator, discovery, audit chain |
| apps | key-value store (`mesh-kv.mjs`) | a document per store, watch targets, grants | set, delete, push, handleIncoming | MeshSyncEngine, the peers' stores |
| apps | payment channels, escrow | balances, sequence, disputes; contracts, ledger | open, pay, close, claim; create, fund, release, refund, expire | the counterparty, the ledger |
| apps | scheduler, remote calls, consensus | queue, nodes, retries; pending tables, limits; ballots, status | submit, schedule, fail, complete; call, cancel, handle; propose, vote, close | the other pods |
| apps | tunnels and WebSockets over the mesh | sockets, pumps, sessions | connect, send, close, detach | netway sockets, the peer node |
| apps | supervisor, pod host service, health monitor | entries, timers, gate; calls and interests; missed heartbeats, migrations | supervise, drain, onExit, onHostLost, reconcile; tick, migrate | hosts, pods |
| apps | grant log, key distribution, chunk replication, audit chain | signed records, registry; chunks, acks; entries | grant, revoke, receive, announce; replicatePut, fetchChunk; append, load, verify | the other pods |
| apps | swarm service, keep-alive | what SWIM and the coordinator keep; a check per peer | callbacks of both; connect, disconnect, ping | SWIM, the health check |
| apps, embed, meshctl | orchestration, chat, torrents, tools, user interface, command line | application data | | |

What is hard in this code: nearly every operation is asynchronous, so other calls,
messages and `close()` come between the lines of one function; both ends of a
connection act at once; messages meet timeouts, and late answers reach a successor of
what they were meant for; copies of replicated data are merged in any order, more than
once and after reloads. The `hazards` of `PROJECT.json` name these places; each says
which properties are about it.

What makes the components correct, in short: what was accepted is delivered, once, in
order, within the limits that were agreed (streams, priority-mux, loopback, tunnels,
pipes); a close reaches the other side; the state that is reported is the truth about
what is open (transports, sessions, hosts); callers get an answer and it is true (gateway,
remote calls, migration, replication); nothing is counted twice or lost (payments,
escrow, votes, restarts); replicas that know the same agree, and nothing confirmed is
missing (ORSet, RGA, key-value store, delta protocol, grant log); verdicts about other
pods follow the evidence and end (SWIM, keep-alive, monitor); keys stay with their members.

## 2. Modules and runs

| Module | Source | Scenario of run |
|---|---|---|
| `StreamMux` | transport `streams.mjs` | `streams`: one, two |
| `FileTransfer` | sync `files.mjs` | `streams`: file |
| `PriorityScheduler` | priority-mux `scheduler.mjs` | `transport`: scheduler |
| `PriorityMux` | priority-mux, the rest; refines `PriorityScheduler` | `transport`: mux |
| `ReconnectingClients` | transport `websocket.mjs` (WebSocketTransport), `wisp-client.mjs` | `transport`: websocket, wisp |
| `RtcMesh` | transport `webrtc.mjs` | `transport`: rtc |
| `Handshake` | core `handshake.mjs`, transport `websocket.mjs` (WebRTCTransport) | `transport`: glare |
| `Keepalive` | apps `mesh-keepalive.mjs`, core `hardening.mjs` (TransportHealthCheck) | `transport`: alive |
| `Failover` | apps `mesh-hardening.mjs`, core `hardening.mjs` (TransportFailover, RetryWithBackoff) | `transport`: failover |
| `ORSet`, `Rga` | primitives `crdt.mjs` | `sync`: or_set, rga; `rga_three` |
| `DeltaSync` | sync `delta-sync.mjs` | `sync`: mesh, triangle, compacting |
| `Swim` | discovery `swarm.mjs` (SwimMembership) | `sync`: alarm, churn; `swim_crash`, `swim_relay` |
| `SwarmService` | apps `mesh-swarm.mjs`, discovery `swarm.mjs` (SwarmCoordinator) | `sync`: service |
| `PodBoot` | pod `pod.mjs`, `discovery.mjs`, `transport.mjs` | `sync`: boot |
| `PeerNode` | apps `peer-node.mjs`, `peer-registry.mjs` | `sync`: node |
| `MeshKv` | apps `mesh-kv.mjs`, sync `sync.mjs`, primitives LWW register | `apps`: trust, grants |
| `Migration` | sync `migration.mjs` | `apps`: plans; `migration_cancel` |
| `Payments` | apps `payments.mjs` (channels) | `apps`: unsigned, signed |
| `MeshScheduler`, `MeshRpc`, `Consensus` | apps `scheduler.mjs`, `mesh-rpc.mjs`, `consensus.mjs` | `apps`: tasks, rpc, votes |
| `GatewayBackend` | netway `gateway-backend.mjs`, `queue.mjs` | `netway`: calls, replay |
| `Loopback` | netway `loopback-backend.mjs`, `listener.mjs`, `stream-socket.mjs` | `netway`: ports, accepts, streams |
| `MeshRelay`, `MeshWebSocket` | apps `mesh-relay-*.mjs`, `mesh-websocket.mjs` | `netway`: tunnel, websocket |
| `KernelPipe` | kernel `byte-stream.mjs` | `netway`: pipe; `pipe_eof` |
| `PodSupervisor` | apps `pod-supervisor.mjs` | `pods`: supervisor |
| `PodHost` | pod `host-protocol.mjs`, apps `pod-host-service.mjs`; pod `browser-host-driver.mjs`, `browser-host-child.mjs` | `pods`: host; page |
| `Escrow` | apps `peer-escrow.mjs` | `pods`: escrow; `escrow_overlap` |
| `GroupKeys` | core `group-keys.mjs` | `pods`: keys |
| `GrantLog` | apps `grant-log.mjs`, `key-distribution.mjs` | `pods`: grants |
| `ChunkReplication`, `PeerHealth`, `AuditChain` | apps `chunk-replication.mjs`, `peer-health.mjs`, `audit.mjs` | `pods`: chunks, monitor, audit |
| `StreamMuxProofs`, `TransportProofs`, `NetwayProofs`, `AppsProofs`, `PodsProofs` | proofs; the lemmas about `ORSet`, `MeshKv` and `Payments` stand at the end of those modules | section 3 |

An MC module gathers the scenarios of related components. Its variable `run` says which
scenario a behaviour runs and never changes: the components gathered there share no
state in the code either, so the product of their states would show nothing more. The
variables of the other scenarios keep their initial values, with which none of their fair
actions is enabled. A property of an MC module is a conjunction of properties of
components, each stated in its module. The constants of an MC module are those of its
components; the `.cfg` sets them, an `INSTANCE ... WITH` passes them on, and the assumptions
that the proofs need are stated where they are declared.

A definition that no action uses, and that stands before one with a similar name
(`PickHighest` before `Pick`), is a deliberately wrong variant of it. Replacing the one
by the other must break the property named with it under `mutants` in `PROJECT.json`.

Deadlock is not checked: in every scenario a bounded number of calls is made, and then
everything has settled. Where something must not stay behind, a property says so.

### Run `streams`

*StreamMux.* Two ends `Peer` with a FIFO wire to each other. Per end and stream the
variables are the private fields of `MeshStream` (`state`, `sendCredits`, `recvCredits`,
`sendSeq`, `sendQueue`) and `tracked`, the keys of the multiplexer's map; `written` and
`delivered` are histories. Each public call is an action; `Deliver` handles the head of a
wire and puts the answers on the other. Payloads are numbers in the order of their writing.
*FileTransfer.* One transfer between the pod that offers and the pod that takes it; each
chunk is verified across an await, with control messages, repeated and corrupted chunks
and further accepts in between.

* `FlowControl`: an end never sends more data frames than the other has granted, and the
  grants stay within `maxCredits`. `DeliveredInOrderAndWhole`: the data handed to `onData`
  were written in that order, and none is handed out twice (what a queue held when it was
  dropped is missing); a file is announced only when all its chunks were verified and stored. `NoOrphanStream`: the map and the streams' states agree.
  `CloseReachesPeer` (liveness): a closed stream is closed at the other end too.
  Fairness: the transport delivers, that is weak fairness of `Deliver` for each end;
  nothing is assumed of the application.
* Bounds: one stream that starts without credits and two writes per end let queues
  form, drain and cross a close; two streams against a limit of one exercise refusal
  (streams interact only through that limit); two chunks, of which one may arrive twice, and
  two accepts.

### Run `transport`

*PriorityScheduler* is the abstract specification: queue lengths, the slot counter modulo
the guard interval, and how long the head of the lowest tier has waited. *PriorityMux* has
the queues themselves, the drain loop (`draining`, scheduled `ticks`), an adapter that may
throw, the frames under way and the receiving `Reassembler`; it refines the scheduler. The
transport may deliver a frame again, after later ones too; `arrivals` counts how often each came.
*ReconnectingClients*: the connection that `WebSocketTransport` and `WispClient` keep with the same
code, sockets one after another, each with its events still to come, and the backoffs
that wait; with heartbeat and jitter queue in the one and proxied streams in the other.
As in the code, `connect()` does not wait for a `close()` under way; `crossed` remembers that it happened.
*RtcMesh* follows the connections of one manager to one peer: negotiation, ICE failure and
restart, the manager's map, its timer and its attempts. *Handshake*: two pods call each
other; the one with the lower id makes the offers, signalling loses and delays.
*Keepalive*: a peer connects and disconnects while its health check is being imported.
*Failover*: `negotiate()` calls and the failovers of the keep-alive overlap at their
awaits; they share a circuit breaker, a list of failed types and one active transport.

* `StarvationBound`: the head of the lowest tier is served within `guardInterval`
  dequeues. `ImplementsScheduler`: the mux refines the scheduler. `WholeOnceInOrder`:
  messages arrive whole, each no more often than every one of its frames arrived (once, unless
  the transport repeats all of them), in the order of their tier unless repeated, and no partial
  message outlives a close. `TransportStateIsTrue`: a transport is connected exactly when its last
  socket is open and watched; heartbeat, queued payloads, proxied streams and health
  checks live no longer than what they belong to (of the reconnecting clients both are said until
  a `connect()` crosses a `close()`: section 4); a verdict of the health check has its
  cause; failover forgets no transport while its calls do not overlap, its flag is true,
  and the circuit opens for cause. `ClosedStaysClosed`: what `close()` closed stays
  closed until the user connects, with the same exception; the manager tracks exactly the connection that is not
  closed, and reconnect offers go out for it only. `SessionsMatch`: two pods that call each other
  hold the two ends of one connection.
* `TransportsSettle` (liveness): what `send()` accepted is delivered; reconnect loops end
  and `close()` resolves; a WebRTC failure whose repair is scheduled is followed by new
  checks or the end of the connection; silence is noticed. Fairness: `scheduleFn` runs its
  callback, frames arrive, sockets opened or closed report it, timers fire.
* Bounds: three tiers and a guard interval of four for the scheduler, so that a slot
  passes with every tier busy; two messages of up to two chunks in two tiers for the
  mux, each frame delivered at most twice, so that their chunks interleave, in one tier or in both,
  and a finished message is started or delivered again. Three user calls, three sockets and
  two attempts leave old sockets, old backoffs and a new connection side by side, also when a
  `connect()` crosses a `close()`. Two
  connections and four faults suffice for a timer of a connection that was replaced. Three
  offers and two waiting calls give a late answer for each of two given-up calls. Three
  connections of the kept-alive peer overlap two imports. Two transport types, two attempts
  and three calls open, cool and half open the circuit.

### Run `sync`

*ORSet, Rga.* Replicas call and exchange serialised copies; a copy stays on the wire, so
it may arrive late and repeatedly. `Reload` is `fromJSON(toJSON())`. In `ORSet` elements
are primitive values (the code keys them by their JSON text). `Rga` models the physical
list with its deleted nodes and `_mergeSequences`. *DeltaSync.* Pods pull each other's
logs: request, answer, confirmation. The network is a set of messages delivered in
any order, or never: such a message is a lost one. The code has no retransmission, a later
request takes its place.
*Swim.* `members[p][q]` is p's entry of q; `updates[p]` the buffer of updates to piggyback;
`pending[p]` the timers. A message is lost, late or overtaken; pods crash. A ping that
times out although its target runs counts as `spurious`, which is bounded.
*SwarmService* composes SWIM's table, reduced to what one pod hears, with the
coordinator's members and election through the callbacks of `mesh-swarm.mjs`. *PodBoot*:
pods boot, greet each other on a channel and by window messages, and shut down.
*PeerNode*: `boot()` and `shutdown()` of a node overlap with the calls that make and end
its sessions.

* `UniqueTags`, `Convergence` (replicas that know of the same calls hold the same copy),
  `ObservedRemove` (an element is present exactly when some known add was not observed by
  a known remove). `RgaConvergence`: each known node once, deleted ones hidden for good,
  and equal knowledge gives equal arrays. `RgaLocalOrderKept`: a merge never swaps two
  nodes of the replica. `DeltaNothingMissing`: what a session no longer sends, the peer has
  seen, except what a third pod brought back after a later write of the same origin, where logs are
  compacted (`late`; section 4); a clock is that of an entry the peer got; and as long as nothing is
  compacted, a pod has a prefix of each origin's writes.
  `DeadWasAccused`: nobody is dead in an incarnation in which no ping went unanswered, and
  only a pod raises its own incarnation. `VerdictsAdvance`: a verdict never goes back.
  `MembershipIsTrue`: the swarm is what SWIM's table says; a booted pod's peers are the pods
  on its channel; a registry calls connected exactly the peers its node has sessions with,
  and their transports are open.
* Bounds: two replicas and three calls for ORSet, four for RGA; the two-replica case is the one the repository
  tests. Three pods, two writes and three requests, because entries that arrive through a
  third pod need three; two pods with logs of one entry, three writes and a snapshot for
  compaction; three pods with logs of one entry, two writes and three requests for what
  compaction and a third pod do together. Three pods for SWIM, the fewest for a relay, with one false alarm; one late
  joiner, one removal and one stop. Three pods, one in an iframe of another and one that
  leaves silently. Two boots and two sessions with two peers. The pods p2 and p3 are
  interchangeable, and the run has no liveness property, so the symmetry is sound.

Run `swim_crash`: without relays every running pod stops holding a crashed pod for alive
(`CrashIsNoticed`). Fairness: interval and timers fire, messages arrive; strong fairness of the
ping round only makes up for the bound on messages under way.

### Run `apps`

*MeshKv.* `map[p][k]` is the LWW register of a key at a pod, `version` the document's
vector clock, `chan` the payloads between two pods. `HandleIncoming` is the whole
handler: filter by grants, merge, notify, push on. *Migration.* Per plan its `state`, the
status of its steps, and `pc`, the await at which `executePlan` is suspended. *Payments.*
`channel[p]` is p's view of its channel (`state`, `local`, `remote`, `sequence`);
`awaiting` the handlers suspended at a verification or co-signature; `attested` and `settled`
the closes that a pod co-signed and the settlements it was returned, by channel. *MeshScheduler*: the queue is
known by how often it holds each task; reports about tasks come late and twice.
*MeshRpc*: the caller's pending requests and the server's table of handlers, which may
ignore their abort. *Consensus*: one proposal at three pods, of which one changes its
voters or passes the deadline, with the default quorum of 1 or one of 2; a `PROPOSE` arrives at most once (what a second does is in section 4).

* `KvConvergence`: when no payload is under way, pods that watch and trust each other
  agree. `KvWritesGrantedAndNewer`: an entry is only replaced by a newer one, and enters a
  foreign store only with a grant. `CompletedWasVerified`: a completed plan ran all
  its steps and had its checkpoint verified. `PaymentsAndVotesAddUp`: two views of a
  channel never hold more than was deposited and none shows a debt; a settlement was
  co-signed against a view that mirrors it; two pods with a quorum decide for
  different options only with different supporters, and never if a majority of the quorum is a
  majority of the voters. `TasksWithinLimits`: `schedule()` takes no more tasks than there is
  room for, and none that another that could run comes before. `CallsAreExact`: a call is
  answered by a handler that ran for it and was not aborted, once, and the counts
  behind the limits are exact.
* `AppsSettle` (liveness): broadcasts die down, plans end in a terminal state, no task waits
  for ever, every call settles. Fairness: payloads arrive, awaited promises settle,
  `schedule()` is called again and tasks end, the timer of a request fires.
* Bounds: three pods of which two write, for relayed merges; two pods whose grants and
  watches change; two plans for one slot; a deposit of two and three payments, so that a payment
  can be returned and spent again; three tasks on two nodes, of which one fits only one
  node; three requests of two callers with a limit of one per caller.

### Run `netway`

*GatewayBackend.* Operations go directly or through the queue; `phase` says at which
await each stands. The gateway answers, refuses, announces inbound connections and
disconnects in any order; an answer that comes before `sendControl()` has resolved is dropped
(`early`), and a UDP operation sends its datagram in an await of its own (`datagrams`) while
its timer runs on. *Loopback*: two port tables that share the position of the
search, listeners with an accept queue, socket pairs with a buffer and a pending reader
per direction. *MeshRelay*: on each side of a tunnel a socket pair and a pump.
*MeshWebSocket*: a client and the session at the accepting pod. *KernelPipe*: a producer,
`pipe()` between two pipes, a consumer.

* `GatewayAnswerDecides`: a caller that was told "ok" has a channel at the gateway, an
  operation that was answered does not time out (unless the answer was early, or its datagram is
  still being sent), sockets have a successful call
  behind them, and each drain replays a contiguous segment of what was queued, in order, and no
  two drains the same. `LoopbackExact`: a port is in
  its table exactly while its owner is open, an accept queue holds exactly what was
  connected, not accepted and not dropped, and no reader waits on a closed connection; the order
  of what is read is part of `ChannelsKeepOrder`.
  `ChannelsKeepOrder`: in all four kinds of channel what is read is a prefix of what was
  written.
* Liveness: `GatewaySettles` (every caller gets an answer) and `ClosesCross` (a close
  reaches the other end). Fairness: timers fire and awaited sends settle; pumps and
  envelopes go on.
* Bounds: one gateway with four operations, of which a connect and a listen with one inbound
  connection run against answers and `close()`, and a datagram and a resolve under two overlapping
  drains, where a connect may meet the full queue; two ephemeral ports, enough for every position of the
  wrap-around; an accept queue of one and three connections; one write more than a buffer's high
  water mark.

### Run `pods`

*PodSupervisor*: a call of the supervisor that awaits something is a task; exits, lost
hosts, reconciles and drains come between its steps; a drain descends through the children as it finds them, one generation
after the other. *PodHost*: the pods of one name, the
service that gates the verbs of remote clients, their calls with timeouts; and the children
of a page, which announce themselves by name, late. *Escrow*: the ledger is changed before, the
status after an await; the ledger may refuse. *GroupKeys*: a key is named by its maker and
number; making, wrapping and unwrapping are awaited. *GrantLog*: a pod replays all its
records after every change. *ChunkReplication*: a put waits for acks, a fetch asks who has
the chunk. *PeerHealth*: ticks and heartbeats come while a migration awaits. *AuditChain*:
a hash is the value it was taken of; copies are loaded and appended to.

* `RestartsAndFailoversAreDue`: a pod is spawned at most once per unit of its budget after the
  first time, at most `MaxConcurrent` restarts run at a time, and a peer counts as failed only
  after its ticks and is not migrated from twice for one failure. `HostsHoldTheirPods`: one
  pod per name, first outcomes stay, gone pods stay gone, and each child of a page is held by
  its record. `EscrowBalances`: the balances and the contracts that hold
  credits make up at least all the credits there were, whatever the ledger refuses, and exactly
  these as long as no two payments of one contract overlap.
  `KeysStayWithMembers`: a key reaches its members only. `LogsAreTrue`: the registry grants
  what the log does; `verify()`, `detectFork()` and Merkle proofs are exact.
  `ChunkReportsAreTrue`: pods in `replicatedTo` have the chunks, and a fetch leaves its own
  chunk.
* `RestartsEndAndKeysArrive` (liveness): a pod in restart comes back or is given up, and
  who is admitted gets the key. Fairness: started calls go on, messages arrive.
* Bounds: a pod with a budget of two, or a pod and its child with a budget of one each, with three
  disturbances and two tasks; three calls and two incarnations of a hosted pod; two contracts on one
  ledger; three pods and four keys; three pods and three records with time stamps up to
  two; two chunks; two monitored peers; four appends to two copies; two names spawned twice.

## 3. Proofs

The theorems hold for every value of the constants that satisfies the `ASSUME`s; nothing
else is assumed. Each safety theorem rests on an inductive invariant, whose parts TLC
checked on small instances before they were proved. Why the property alone does not do,
and what the invariant adds:

* `StreamMuxProofs` (finite sets of streams, that of scenario one part of that of scenario two;
  `InitialCredits <= MaxCredits`; any number of chunks, arrivals and accepts). For
  `FlowControl`: credits on the wire have left the receiver and not reached the sender, so a
  stream is opened at most once on the wire (`OpenOnce`), and the grants of an end, those on
  the wire included, form a chain from what the other end has to what it was promised
  (`GrantChain`). Steps that move no credits are handled together (`QuietOpens`,
  `QuietGrants`). `NoOrphanStream` follows from the states that each step can leave a
  stream in. For `DeliveredInOrderAndWhole`: what was handed out, what is on the wire and what
  is queued stand in one line (`PayloadsInLine`), and only an end without credit has a queue
  (`QueueWaits`), so no write overtakes what waits; the streams that compete carry no payload
  (`NothingWritten`); and a transfer counts each chunk once, the taker's only chunks it has
  stored (`CountsAreTrue`), so its full count means that all are there. Theorems
  `TypeCorrect`, `FlowControlHolds`, `NoOrphans`, `DeliveredInOrderAndWholeHolds`.
* `TransportProofs`. *Scheduler* (at least one tier, a positive interval): `SchedulerInv` ties
  the wait of the lowest tier to the slot counter; `StarvationBoundHolds`. *Mux* (`MuxAssumption`: positive numbers of tiers and slots):
  the chunks of a tier stand in queue and wire in the order of their sending, each once (`InOrder`);
  what has arrived of a tier precedes what is to come of it for the first time, and one chunk of a
  message damaged by a throwing adapter never comes (`Coming`); and what the
  reassembler holds and has emitted of a message is paid for by arrivals of its frames, repeated
  ones included (`Counted`). `MuxDeliversWhole` follows, for any number of redeliveries.
  `MuxImplementsScheduler` maps queues to their lengths: each step of `PriorityMux` is a
  step of `PriorityScheduler` or a stutter. *Handshake*: `GlareInv` relates the offers,
  answers, transports and calls of both pods (`InStep`: offers are made in turn, each is answered
  at most once, an entry in the table of transports is that of a live connection, none is
  left behind); `OneSession` holds for any number of offers. *What transports report*
  (`ConnectionsAssumption`: limits are natural numbers, those on misses and retries positive): the property speaks of the newest
  socket or connection, the invariant of all of them, since a late event of an old one finds its
  handlers still in place. `TransportInv` is the conjunction of: `ConnInv`, `SendInv` and
  `StreamsInv` for the reconnecting clients (as long as nothing has crossed, a connected client has an
  open, watched socket and its heartbeat, and payloads and streams live no longer); `RtcInv` for the mesh manager (the tracked
  connection is the one that is not closed, and a closed one has a closed channel, so no later event
  reopens it); `AliveInv` for the keep-alive (a place is a reservation during the import or a check whose
  timers run, and no more pings count as missed than went unanswered: `Earned`); `BackupInv` for the
  failover (its flag is true exactly during a failover, and while no calls have overlapped
  the call in progress runs without an open transport). Theorems `TransportStateHolds` and, from
  the same invariant about every step, `ClosedStays`.
* `ORSet`: every copy, at a replica or under way, is what the calls it knows of produce
  (`CopyOf`), and a replica's counter is above its own tags wherever they are. Theorems
  `TagsAreUnique`, `ReplicasConverge`, `AddWins`.
* `AppsProofs`. *Scheduler* (tasks numbered, finitely many): `schedule()` runs through a sorted
  queue; the proof finds how many of it start, so that `LimitsHold` says of each step what starts
  and what it comes before. *Remote calls* (finitely many callers): `RpcInv` relates a request's
  outcome, its handler and the messages about it, and the two counters to the set of
  handlers; `CallsHold` is an action property, that a first outcome stays included. *Plans*:
  what executePlan() has done when it waits before each step, and that a completed plan has
  no execution that could still change it (`MigrationInv`); `PlansHold`. *Store*
  (`MeshKv!KvInv`): every entry, stored or under way, is one that its writer wrote
  (`Genuine`), two entries of one writer and time are the same (`Distinct`), and where pods
  trust one another an entry that its writer still holds has reached the others or is on its way
  there (`Reaches`). `StoresAgree` needs in addition that among finitely many registers
  one is newest; `StoresAdvance` is an action property about every step. *Payments* (two
  parties, any deposit): the two views of a channel are not enough, because an update under
  way is credit that nobody holds. The invariant bounds the worth of a channel, its two shares and the
  updates that may still be applied, each counted with its amount, by the deposit (`Solvent`);
  where updates are delivered again, those with a sequence number not above the
  receiver's count nothing. And an ack or co-signature under way stands for an entry in
  `attested`. *Votes* (finitely many voters, any quorum, the default of 1 included): a ballot is
  counted once per voter and as its voter counted it (`VotesInv`), so supporters of different
  decisions are different pods, and each decision has a majority of the quorum behind it. Theorem `PaymentsAndVotesHold`; it is about signed
  updates delivered once and unsigned ones delivered any number of times, for the reason
  that section 4 gives (`payments.mjs:651`).
* `PodsProofs`. *Keys* (the founder is one of the pods): over all states of epochs that are held,
  being made or on their way, a key has one set of members, since makers number their keys,
  and a pod that holds it is its maker or a member (`KeysInv`); `KeysStay` holds for any overlap of
  rotations. *Escrow* (two parties, finitely many contracts, positive amounts): `EscrowInv` is
  double entry. The balances and the contracts charged and not paid out, each with the amount, make up
  at least the funds, and exactly the funds as long as no call has paid a contract that was paid
  before (`EscrowSum`); a status says whether its contract is paid (`EscrowStatuses`).
  `EscrowKeepsCredits`.
  *Chunks*: an ack and a report under way have a chunk behind them (`ChunksInv`),
  `ChunkReportsHold`. *Hosts*: `PageInv` (which incarnation of a child is the one its record
  holds) and `HostInv` (records and the stages of calls that refer to them); `HostsHold` covers
  a state and an action property of both. *Grants*: `GrantsInv`, in which every registry is the
  replay of its pod's log, holds for records in any order. *Audit chain*: the
  invariant (`AuditInv`, in `AuditChain`) adds to the verdict of `verify()` that a call that is hashing
  follows an entry its copy holds, and that no two calls append the same. Merkle proofs are functions
  over the levels of a tree; their exactness is shown without induction, by a least level at which
  the path would part from the tree (`ProofsExact`). `LogsHold`. *Supervisor*: spawns, armed
  timers and restarts in flight together stay within the restarts that were counted and one first spawn
  (`BudgetInv`), and the gate's count is the number of tasks that hold a place (`GateInv`). *Monitor*: no
  more heartbeats count as missed than ticks were silent, and a peer that was migrated from is one
  that counts as failed (`MonitorInv`). `RestartsAreDue`.
* `NetwayProofs` (`NetwayAssumption`: an operation is of one kind, ports and limits are natural numbers). *Gateway* (any number of operations and drains): `GatewayInv` says that a
  success has an answer behind it and an answer a request, and that an answer has decided its operation,
  came early, or granted a UDP channel whose datagram is under way (`AnswersInv`), and that the lines in
  which operations stand do not cross: an operation is in the queue or in one drain at one
  place (`PlacesInv`), what a drain has replayed and has yet to replay is one segment of the order of enqueuing
  (`FifoInv`), and segments of different drains are disjoint (`ReplayedInv`). `GatewayAnswers`.
  *Loopback*: `LoopInv` holds the tables with the search for a free port (`TablesInv`), the
  accept queues (`QueuesInv`), and for each direction of a socket pair that what was read and what is
  buffered continue one another, and make up what was written unless the direction is shut (`Flow` in
  `SocketsInv`). `LoopbackTrue` states `LoopbackExact` and the order of what is read
  (`Loop!InOrder`, the loopback's part of `ChannelsKeepOrder`).

Only model-checked. Liveness and its fairness: every property called liveness above; TLAPS
has no rule for ENABLED. The properties of run `sync` other than those of `ORSet`
(`RgaConvergence`, `RgaLocalOrderKept`, `DeltaNothingMissing`, `DeadWasAccused`, `VerdictsAdvance`,
`MembershipIsTrue`): `Rga` (`_mergeSequences`) and `DeltaSync` declare RECURSIVE operators, and
what these compute for every input needs induction over data; the other modules of the run
are composed with them in `MCSync`, which the provers therefore cannot read. Of `ChannelsKeepOrder`
in run `netway` the parts about tunnels, WebSockets and pipes are not proved yet; no obstacle known.

## 4. Where the code falls short of its documentation

Five runs show what the code does against what the repository says of it. TLC prints
the shortest trace; the `findings` of `PROJECT.json` quote both sides.

* `rga_three`: with three replicas the order in which copies are merged shows
  (`crdt.mjs:659`): `_mergeSequences` is not associative.
* `swim_relay`: a relay confirms exactly the pods that did not answer it (`swarm.mjs:1192`).
* `migration_cancel`: a cancelled plan is carried on (`migration.mjs:803`).
* `escrow_overlap`: two calls about one contract that overlap at the ledger both pay
  out (`peer-escrow.mjs:403`).
* `pipe_eof`: a write that meets the high-water mark closes the writer end but not the
  buffer, and `close()` then sends no EOF (`byte-stream.mjs:154`).

Seen while modelling; no run's property states them:

* `streams.mjs:260`: credits that arrive after `end()` send queued data after `STREAM_END`.
  `:174`: `maxSize` does not count what is queued. `:239`: `#recvCredits` is a lifetime total,
  so a stream that has received `maxCredits` frames can be granted no more. `:525`: `STREAM_ERROR`
  for an unknown stream is answered by `STREAM_ERROR`, by both ends in turn.
* `scheduler.mjs:82`: the guard slot serves the lowest tier only; a middle tier may starve.
  `reassembler.mjs:47`: "can never be double-delivered or leak memory" holds while a message is
  pending. A frame delivered again after its message is complete restarts it: the message is delivered
  again if all its frames come again, else an entry stays until the transport closes.
  `WholeOnceInOrder` states what remains true. `frame.mjs:42`: a tier without a wire code is accepted and cannot be sent.
* `migration.mjs:879`: the concurrency limit is checked when a plan is made and does not count
  idle plans, so more than `maxConcurrent` may run.
* `queue.mjs:79`: a second `drain()` may overtake the first. `gateway-backend.mjs:136`:
  operations that await during `close()` survive it. `:134`: an answer dispatched before
  `sendControl()` has resolved is dropped, so that the operation times out. `:309`: the timer of a UDP
  operation goes on while its datagram is sent, so an operation that was granted may time out.
  `AnsweredInTime` makes exceptions of these two.
* `mesh-kv.mjs:335`, `:356`: some merges change a document without an event, and some events
  announce no change. `delta-sync.mjs:775`: an answer brings back a pod's own older write.
  `:143`, `:172`, `:778`: an older entry that a third pod brings back, and that compaction then leaves alone in
  the log, is never sent to a peer whose clock has passed it (`late`).
* `payments.mjs:800`: a pod may pay between its check of a claim and the co-signature, and then
  closes with other balances than it attested. `:651`: an update delivered again while it is
  being verified is applied twice. `:621`: payments of both pods at once are refused by both as
  stale, and their amounts are lost to both. `:1460`: a `PAYMENT_OPEN` delivered again after
  the close makes a channel in which old updates count anew.
* `stream-socket.mjs:88`: `close()` takes back written data that was not read.
  `listener.mjs:121`: closing a listener leaves its queued clients open.
* `swarm.mjs:1359`: a suspicion learnt from others starts no timer and may never end.
  `:1411`: an update is sent once and not passed on. `:1302`: the timer of a refuted suspicion
  ends the next one.
* `websocket.mjs`, `wisp-client.mjs`: `close()` while a reconnect waits for its backoff
  returns early and the reconnect goes on. `connect()` during "closing" goes ahead, and the old
  socket's close handler overwrites the new state: a client calls itself closed while its socket
  is connecting or open, a "closed" one becomes connected without a further call, heartbeat
  and streams end with the wrong socket, and a later `close()` may wait for ever. The models contain
  the step; `StateIsTrue`, `SendingFollowsConnection`, `StreamsEndWithSocket` and `ClosedForGood`
  say nothing of a client after it, and `Settles` no longer that `close()` resolves. A retry loop that outlives the user's own
  `connect()` uses up attempts. `WispStream.write()` ignores `CONTINUE` credits.
* `webrtc.mjs:1013`: a data channel does not reopen, so after a failure that an ICE restart
  repaired the state stays "failed". `:1163`: a channel error closes without releasing the
  peer connection, whose late failure then takes the timer of its replacement (`:1381`).
* `handshake.mjs:1199`: an accept whose data channel never opens never settles and blocks
  later offers. The transports of `websocket.mjs` have no `onClose()`, so
  `#forgetPeerConnectionOnClose` never forgets; a late answer is taken by every waiting
  transport; an answer after the 30 s timeout still connects. `:514` against `:678`: at exactly
  `TOKEN_TTL_MS` a single-use token is accepted twice.
* `hardening.mjs:1105`: failed types are never forgotten (`resetFailedTypes()` has no
  caller), so with a single endpoint every second reconnect of the hardened negotiator fails;
  `connect()` in turn does not look at them. Overlapping `negotiate()` calls leave the
  first transport open and unreferenced. A success that overlaps with a last failure leaves an open
  circuit open. The transport that a failover of the keep-alive made is not adopted by the
  node's session.
* `peer-node.mjs:210`: "Remove registry event listeners to prevent accumulation on re-boot",
  but `PeerRegistry` has no `offPeerConnect()`, so they accumulate. A `shutdown()` during
  `boot()` or `connectToPeer()` does not stop them; `shutdown()` and `removePeer()` leave the
  transports open; a discovery that throws in `stop()` leaves sessions and peers as they were.
* `pod.mjs:146`: the same for `boot()` of a pod. A parent answers its child's window greeting
  on the channel, where the child does not listen yet, so the handshake times out; a child
  that leaves before its greeting arrives stays among its parent's peers.
* `mesh-swarm.mjs:355`: a join request of a pod that SWIM lists as dead or left is granted,
  and `swim.addMember()` ignores it; a pod wrongly declared dead cannot come back.
* `files.mjs`: `addChunk()` revives a cancelled transfer; equal chunks of a file have one
  id, so such a file never completes; late accepts and rejects overwrite "completed";
  `FILE_COMPLETE` sets it whatever was received.
* `scheduler.mjs:535`: `fail()` of a waiting or ended task queues it again, and one
  `schedule()` may assign it twice.
* `mesh-rpc.mjs`: a handler that ignores its abort keeps its slot for ever; a request
  delivered again after its completion runs again.
* `consensus.mjs:564`: with the default quorum of 1, two pods may decide for different options,
  each with votes the other has not received. A `PROPOSE` delivered again resets the tally and reopens it; votes that
  arrive before the proposal are lost; any pod may close, without a quorum; removing the last
  validator admits everyone; a weighted winner is chosen by the number of votes first.
* `mesh-relay-backend.mjs`, `mesh-relay-host.mjs`: a `connect()` that timed out leaves the
  host's tunnel open; `close()` of the backend and `detach()` of the host tell nobody; an
  overflow ends the tunnel while the user's socket stays open. `mesh-websocket.mjs`: a
  `ws-close` that arrives while `onConnection()` is awaited is dropped, an open timeout does
  not tell the server, and messages sent before the ack are dropped.
* `pod-supervisor.mjs:571`: a pod drained while its restart is in flight runs afterwards
  (`docs/hosted-pods.md:712`); an exit event and a reconcile schedule two restarts; a failed
  re-placement is tried again on the lost host; `rekey()` leaves children that name the old key.
* `host-protocol.mjs`: the `finally` of `exec()` throws when the pod was drained meanwhile; a
  snapshotted pod cannot be drained. `pod-host-service.mjs:444`: the exit of a previous
  incarnation clears an interest noted for the next. `browser-host-driver.mjs:185`: after a
  spawn timeout the name can be neither drained nor spawned until a late `READY`, and the
  `READY` of a previous incarnation counts for the next.
* `peer-escrow.mjs`: `dispute()` does not look at the status. `group-keys.mjs:474`: a rotation
  fixes its members before it awaits, so an overlapping one loses a removal; the current
  epoch can go back and be pruned. `grant-log.mjs:690`: a pod whose own bootstrap is displaced never
  announces itself again. `chunk-replication.mjs:476`: a query ends with its first responder.
* `audit.mjs:261`: overlapping `append()` calls, as overlapping `connectToPeer()` calls make
  them (`peer-node.mjs:1042`), leave a chain that `verify()` rejects for good.
  `peer-health.mjs`: the target of a migration may fail in the same tick, and a flapping
  peer gets overlapping migrations.
* Read, not modelled: `capabilities.mjs:613` (`revokeTree()` stops at tokens that are revoked already),
  `dht.mjs` (`GossipProtocol.set()` does not raise its version past those received, so
  writers of one key need not converge), `memory-sync.mjs` (equal time stamps do not converge),
  `gateway.mjs` of transport (`findRoute()` uses expired routes).

## 5. Plan

In this order. A component joins the MC module of its package, as a scenario of its own:

1. Proofs of the safety properties that section 3 lists as not proved yet: the order of the
   four channels (`ChannelsKeepOrder`); and, in an MC module without the recursive
   operators, `Swim`, `SwarmService`, `PodBoot` and `PeerNode`.
2. Service discovery and leases, cross-origin requests and expiring routes, quotas and rate
   limits under a moving clock, the resource table, the collaboration bridge.
3. Capability delegation and revocation, the keyring's link graph, DHT lookups: a first
   attempt at gossip needed more states than a run can visit, so the abstraction has to be
   coarser.
4. Compositions: `PriorityMux` over a `Loopback` connection; `MeshKv` over `Swim`'s
   membership; `PeerNode` over `Failover` and `Keepalive`.

## 6. Not modelled

Cryptography, encodings, storage adapters, user interface, command line, generated type
declarations and test doubles: they keep no state whose interleavings matter, or are
adapters to something outside the repository. The applications of the apps package
(chat, torrents, marketplace, orchestration, agents) keep data of their own on top of what is
modelled here and add no protocol between pods. `components` in `PROJECT.json` lists every
part with its reason.

Within the modelled components, what is left out is named in the header of each module and
in the component's note: contents of messages, encryption and padding, statistics, logging
and events that only inform the user interface.
