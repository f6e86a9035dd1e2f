----------------------------- MODULE PriorityMux -----------------------------
(***************************************************************************)
(* PriorityMux of browsermesh-priority-mux (priority-mux.mjs, frame.mjs,   *)
(* reassembler.mjs), one direction: a mux that sends, a message transport  *)
(* that delivers in order but may deliver a frame again later, and the mux *)
(* at the other end that reassembles.  A message is its ordinal; a chunk   *)
(* is its message and its position, as in the frame header.  The           *)
(* scheduler's state is kept so that the sending side can be shown to      *)
(* implement PriorityScheduler.                                            *)
(***************************************************************************)
EXTENDS Naturals, Sequences, FiniteSets, SequencesExt

CONSTANTS
  LastTier, GuardInterval, MaxBatch,
  MaxMessages,      \* bound: messages sent
  MaxArrivals       \* bound: deliveries of one frame

Tier == 1..LastTier

VARIABLES
  queues,     \* queues[t]: chunks waiting in tier t
  slot, waited, served,   \* as in PriorityScheduler
  draining,   \* #draining
  ticks,      \* drainTick callbacks handed to scheduleFn and not yet run
  closed,     \* #closed of the sending mux
  sent,       \* history: tier and chunk count of every accepted message
  lost,       \* history: messages a chunk of which failed to be sent
  wire,       \* frames under way
  peer,       \* receiving end: "open", "closing" after close(), "closed" after the event
  pending,    \* #pending of the Reassembler: chunks[m] received so far
  delivered,  \* history: messages emitted, in order
  arrivals    \* history: arrivals[m][seq]: how often that frame came in

vars == <<queues, slot, waited, served, draining, ticks, closed, sent, lost,
          wire, peer, pending, delivered, arrivals>>

sched == <<queues, slot, waited, served>>
receiver == <<peer, pending, delivered, arrivals>>

Sched == INSTANCE PriorityScheduler WITH
  qlen <- [t \in Tier |-> Len(queues[t])],
  QueueCap <- MaxMessages * MaxBatch

Init ==
  /\ queues = [t \in Tier |-> <<>>]
  /\ slot = 0 /\ waited = 0 /\ served = 0
  /\ draining = FALSE
  /\ ticks = 0
  /\ closed = FALSE
  /\ sent = <<>>
  /\ lost = {}
  /\ wire = <<>>
  /\ peer = "open"
  /\ pending = [m \in 1..MaxMessages |-> {}]
  /\ delivered = <<>>
  /\ arrivals = [m \in 1..MaxMessages |-> [seq \in 1..MaxBatch |-> 0]]

-----------------------------------------------------------------------------
(* #scheduleDrain(): one loop at a time. *)
ScheduleDrain ==
  /\ draining' = TRUE
  /\ ticks' = IF draining THEN ticks ELSE ticks + 1

(* splitIntoChunks(), each chunk under message m. *)
Chunks(m, total) == [i \in 1..total |-> [m |-> m, seq |-> i, total |-> total]]

EnqueueAll(queue, chunks) == queue \o chunks

(* send(): a message of `total' chunks under tier t. *)
Send(t, total) ==
  /\ ~ closed
  /\ Len(sent) < MaxMessages
  /\ sent' = Append(sent, [tier |-> t, total |-> total])
  /\ queues' = [queues EXCEPT ![t] = EnqueueAll(@, Chunks(Len(sent) + 1, total))]
  /\ ScheduleDrain
  /\ UNCHANGED <<slot, waited, served, closed, lost, wire, receiver>>

NonEmpty == {t \in Tier : queues[t] # <<>>}

(* PriorityScheduler.dequeue() finds nothing: the slot advances all the    *)
(* same.                                                                   *)
DequeueNothing ==
  /\ NonEmpty = {}
  /\ slot' = Sched!NextSlot(slot)
  /\ UNCHANGED <<queues, waited, served>>

DequeueItemFreezesSlot(t) ==
  /\ NonEmpty # {}
  /\ t = Sched!Pick(NonEmpty, Sched!NextSlot(slot) = 0)
  /\ queues' = [queues EXCEPT ![t] = Tail(@)]
  /\ served' = t
  /\ waited' = IF LastTier \in NonEmpty /\ t # LastTier THEN waited + 1 ELSE 0
  /\ UNCHANGED slot

(* ... or shifts the head of the tier it picks. *)
DequeueItem(t) ==
  /\ NonEmpty # {}
  /\ slot' = Sched!NextSlot(slot)
  /\ t = Sched!Pick(NonEmpty, slot' = 0)
  /\ queues' = [queues EXCEPT ![t] = Tail(@)]
  /\ served' = t
  /\ waited' = IF LastTier \in NonEmpty /\ t # LastTier THEN waited + 1 ELSE 0

(* #drainTick() that stops the loop: closed, or nothing to send. *)
DrainStops ==
  /\ ticks > 0
  /\ \/ closed /\ UNCHANGED sched
     \/ ~ closed /\ DequeueNothing
  /\ ticks' = ticks - 1
  /\ draining' = FALSE
  /\ UNCHANGED <<closed, sent, lost, wire, receiver>>

(* #drainTick() that sends one chunk and re-arms itself. *)
DrainSends ==
  /\ ticks > 0
  /\ ~ closed
  /\ \E t \in Tier :
       /\ DequeueItem(t)
       /\ wire' = Append(wire, Head(queues[t]))
  /\ UNCHANGED <<draining, ticks, closed, sent, lost, receiver>>

(* #drainTick() whose encodeChunkFrame() or adapter.send() throws: the     *)
(* chunk is gone and the loop is not re-armed.                             *)
DrainThrows ==
  /\ ticks > 0
  /\ ~ closed
  /\ \E t \in Tier :
       /\ DequeueItem(t)
       /\ lost' = lost \cup {Head(queues[t]).m}
  /\ ticks' = ticks - 1
  /\ draining' = FALSE
  /\ UNCHANGED <<closed, sent, wire, receiver>>

(* close() of the sending mux: draining stays set, the loop ends at its    *)
(* next tick.                                                              *)
SenderClose ==
  /\ ~ closed
  /\ closed' = TRUE
  /\ UNCHANGED <<sched, draining, ticks, sent, lost, wire, receiver>>

(* #handleClose() of the sending mux. *)
SenderHandleClose ==
  /\ closed' = TRUE
  /\ draining' = FALSE
  /\ UNCHANGED <<sched, ticks, sent, lost, wire, receiver>>

-----------------------------------------------------------------------------
(* Reassembler.receive(): what is pending once a chunk is recorded, and    *)
(* whether that completes the message.                                     *)
RecordChunk(chunk) == pending[chunk.m] \cup {chunk.seq}

CompletesEarly(chunk) == TRUE

Completes(chunk) == RecordChunk(chunk) = 1..chunk.total

(* #handleIncoming(), in whatever state the mux is: it has no closed check *)
(* of its own.                                                             *)
Receive(chunk) ==
  /\ peer # "closed"
  /\ arrivals' = [arrivals EXCEPT ![chunk.m][chunk.seq] = @ + 1]
  /\ IF Completes(chunk)
     THEN /\ pending' = [pending EXCEPT ![chunk.m] = {}]
          /\ delivered' = Append(delivered, chunk.m)
     ELSE /\ pending' = [pending EXCEPT ![chunk.m] = RecordChunk(chunk)]
          /\ UNCHANGED delivered
  /\ UNCHANGED <<sched, draining, ticks, closed, sent, lost, peer>>

HandleIncoming ==
  /\ wire # <<>>
  /\ Receive(Head(wire))
  /\ wire' = Tail(wire)

(* The transport delivers again a frame that came in before.               *)
HandleRedelivered(m, seq) ==
  /\ arrivals[m][seq] \in 1..(MaxArrivals - 1)
  /\ Receive([m |-> m, seq |-> seq, total |-> sent[m].total])
  /\ UNCHANGED wire

Reset == pending' = [m \in 1..MaxMessages |-> {}]

(* close() of the receiving mux; frames may still come in until the event. *)
ReceiverClose ==
  /\ peer = "open"
  /\ peer' = "closing"
  /\ Reset
  /\ UNCHANGED <<sched, draining, ticks, closed, sent, lost, wire, delivered, arrivals>>

(* #handleClose() of the receiving mux: no frame comes in after it. *)
ReceiverHandleClose ==
  /\ peer # "closed"
  /\ peer' = "closed"
  /\ Reset
  /\ wire' = <<>>
  /\ UNCHANGED <<sched, draining, ticks, closed, sent, lost, delivered, arrivals>>

DrainTick == DrainStops \/ DrainSends \/ DrainThrows

Next ==
  \/ \E t \in Tier, total \in 1..MaxBatch : Send(t, total)
  \/ DrainTick
  \/ SenderClose
  \/ SenderHandleClose
  \/ HandleIncoming
  \/ \E m \in 1..MaxMessages, seq \in 1..MaxBatch : HandleRedelivered(m, seq)
  \/ ReceiverClose
  \/ ReceiverHandleClose

Spec == Init /\ [][Next]_vars

(* scheduleFn runs what it is given and the transport delivers. *)
Fairness == WF_vars(DrainTick) /\ WF_vars(HandleIncoming)

-----------------------------------------------------------------------------
Chunk == [m : 1..MaxMessages, seq : 1..MaxBatch, total : 1..MaxBatch]

(* Types of the fields of PriorityMux, PriorityScheduler and Reassembler.  *)
(* At most one drainTick is ever outstanding, so `ticks' is 0 or 1.        *)
TypeOK ==
  /\ queues \in [Tier -> Seq(Chunk)]
  /\ slot \in 0..(GuardInterval - 1)
  /\ draining \in BOOLEAN /\ closed \in BOOLEAN
  /\ ticks \in 0..1
  /\ sent \in Seq([tier : Tier, total : 1..MaxBatch])
  /\ lost \subseteq 1..Len(sent)
  /\ wire \in Seq(Chunk)
  /\ peer \in {"open", "closing", "closed"}
  /\ pending \in [1..MaxMessages -> SUBSET (1..MaxBatch)]
  /\ delivered \in Seq(1..Len(sent))
  /\ arrivals \in [1..MaxMessages -> [1..MaxBatch -> 0..MaxArrivals]]

Times(m) == Cardinality({i \in DOMAIN delivered : delivered[i] = m})

Redelivered(m) == \E seq \in 1..MaxBatch : arrivals[m][seq] > 1

(* `A message is never delivered partially': whatever was emitted has no   *)
(* chunk left behind in a queue, on the wire or lost to a throwing         *)
(* adapter, through closes in mid-message and redelivered frames.  A       *)
(* redelivered frame is `a no-op, not a duplicate-count bump' while its    *)
(* message is pending; but the Reassembler forgets a message it has handed *)
(* back, so that this one comes once more when every frame of it does, and *)
(* no sooner.  Messages of one tier arrive in the order they were sent,    *)
(* however chunks of other tiers are interleaved with theirs: none whose   *)
(* frames came once is overtaken by a later one.                           *)
WholeOnceInOrder ==
  /\ \A m \in Range(delivered) :
       /\ m \notin lost
       /\ \A t \in Tier : \A i \in DOMAIN queues[t] : queues[t][i].m # m
       /\ \A i \in DOMAIN wire : wire[i].m # m
  /\ \A m \in DOMAIN sent : \A seq \in 1..sent[m].total : Times(m) =< arrivals[m][seq]
  /\ \A i, j \in DOMAIN delivered :
       i < j /\ sent[delivered[i]].tier = sent[delivered[j]].tier
         => delivered[i] < delivered[j] \/ Redelivered(delivered[j])

(* `Closing the underlying adapter mid-flight discards all pending         *)
(* reassembly state', also when frames arrive between close() and the      *)
(* close event.                                                            *)
NothingPendingAfterClose ==
  peer = "closed" => \A m \in 1..MaxMessages : pending[m] = {}

(* Unless something is closed or the adapter threw, every message that     *)
(* send() accepted is delivered (there is a time when all of the up to      *)
(* MaxMessages messages are).                                               *)
EverythingArrives ==
  []<>(1..Len(sent) \subseteq Range(delivered) \/ closed \/ peer # "open" \/ lost # {})

(* The scheduler inside the mux behaves as PriorityScheduler. *)
ImplementsScheduler == Sched!Spec
=============================================================================
