------------------------------ MODULE StreamMux ------------------------------
(***************************************************************************)
(* Two StreamMultiplexers of browsermesh-transport (streams.mjs) joined by *)
(* a reliable FIFO wire: the stream state machine, credit-based flow       *)
(* control, half-close, cancellation and inbound dispatch.                 *)
(*                                                                         *)
(* A payload is the ordinal of the write that produced it and has unit     *)
(* length, so bytesSent = framesSent = sendSeq.  A MeshStream object that  *)
(* left the multiplexer's map stays in `state', since the application may  *)
(* still hold it.                                                          *)
(***************************************************************************)
EXTENDS Naturals, Sequences, FiniteSets

CONSTANTS
  Stream,          \* stream identifiers (generateStreamId: never reused)
  InitialCredits,  \* credits both ends start with (STREAM_OPEN carries them)
  MaxCredits,      \* STREAM_DEFAULTS.maxCredits
  MaxConcurrent,   \* #maxConcurrent
  MaxSize,         \* #maxSize, in payload units
  MaxWrites        \* bound: writes the application attempts per end and stream

ASSUME StreamMuxAssumption ==
  /\ IsFiniteSet(Stream)
  /\ InitialCredits \in Nat
  /\ MaxCredits \in Nat
  /\ InitialCredits <= MaxCredits
  /\ MaxConcurrent \in Nat
  /\ MaxSize \in Nat
  /\ MaxWrites \in Nat

Peer == {"A", "B"}

Other(p) == IF p = "A" THEN "B" ELSE "A"

VARIABLES
  state,        \* state[p][s]: #state of p's MeshStream object, "NONE" before it exists
  tracked,      \* tracked[p]: keys of p's #streams map
  sendCredits,  \* #sendCredits
  recvCredits,  \* #recvCredits
  sendSeq,      \* #sendSeq
  sendQueue,    \* #sendQueue: payloads waiting for credits
  written,      \* history: writes accepted by write(), sent or queued
  delivered,    \* history: payloads handed to onData, in order
  chan          \* chan[p]: messages on the wire to p

vars == <<state, tracked, sendCredits, recvCredits, sendSeq, sendQueue,
          written, delivered, chan>>

flow == <<sendCredits, recvCredits, sendSeq, sendQueue, written, delivered>>

StreamState ==
  {"NONE", "OPEN", "HALF_CLOSED_LOCAL", "HALF_CLOSED_REMOTE", "CLOSED"}

-----------------------------------------------------------------------------
(* Wire messages.  `upto' is a history field of STREAM_WINDOW_UPDATE: the  *)
(* granter's #recvCredits once this grant is counted.                      *)

OpenMsg(s, n) == [t |-> "OPEN", s |-> s, n |-> n, upto |-> 0]
DataMsg(s, payload) == [t |-> "DATA", s |-> s, n |-> payload, upto |-> 0]
EndMsg(s) == [t |-> "END", s |-> s, n |-> 0, upto |-> 0]
ErrorMsg(s) == [t |-> "ERROR", s |-> s, n |-> 0, upto |-> 0]
WindowMsg(s, n, upto) == [t |-> "WINDOW", s |-> s, n |-> n, upto |-> upto]

Message == [t : {"OPEN", "DATA", "END", "ERROR", "WINDOW"}, s : Stream,
            n : Nat, upto : Nat]

Emit(p, msgs) == chan' = [chan EXCEPT ![Other(p)] = @ \o msgs]

(* p consumes the head of its wire and answers with msgs. *)
Reply(p, msgs) ==
  chan' = [chan EXCEPT ![p] = Tail(@), ![Other(p)] = @ \o msgs]

-----------------------------------------------------------------------------

Init ==
  /\ state = [p \in Peer |-> [s \in Stream |-> "NONE"]]
  /\ tracked = [p \in Peer |-> {}]
  /\ sendCredits = [p \in Peer |-> [s \in Stream |-> InitialCredits]]
  /\ recvCredits = [p \in Peer |-> [s \in Stream |-> InitialCredits]]
  /\ sendSeq = [p \in Peer |-> [s \in Stream |-> 0]]
  /\ sendQueue = [p \in Peer |-> [s \in Stream |-> <<>>]]
  /\ written = [p \in Peer |-> [s \in Stream |-> 0]]
  /\ delivered = [p \in Peer |-> [s \in Stream |-> <<>>]]
  /\ chan = [p \in Peer |-> <<>>]

(* activeCount: tracked streams that are not CLOSED. *)
Active(p) == {s \in tracked[p] : state[p][s] # "CLOSED"}

SetState(p, s, st) == state' = [state EXCEPT ![p][s] = st]

-----------------------------------------------------------------------------
(* The application's operations. *)

(* StreamMultiplexer.open() under a fresh identifier. *)
Open(p, s) ==
  /\ \A q \in Peer : state[q][s] = "NONE"
  /\ Cardinality(Active(p)) < MaxConcurrent
  /\ SetState(p, s, "OPEN")
  /\ tracked' = [tracked EXCEPT ![p] = @ \cup {s}]
  /\ Emit(p, <<OpenMsg(s, InitialCredits)>>)
  /\ UNCHANGED flow

HasCredit(p, s) == sendCredits[p][s] > 0

EnqueueFirst(queue, payload) == <<payload>> \o queue

Enqueue(queue, payload) == Append(queue, payload)

(* MeshStream.write(): send on a credit, queue without one, throw past the *)
(* size limit (which counts what was sent, not what is queued).            *)
Write(p, s) ==
  /\ state[p][s] \in {"OPEN", "HALF_CLOSED_REMOTE"}
  /\ written[p][s] < MaxWrites
  /\ sendSeq[p][s] + 1 <= MaxSize
  /\ written' = [written EXCEPT ![p][s] = @ + 1]
  /\ \/ /\ HasCredit(p, s)
        /\ sendCredits' = [sendCredits EXCEPT ![p][s] = @ - 1]
        /\ sendSeq' = [sendSeq EXCEPT ![p][s] = @ + 1]
        /\ Emit(p, <<DataMsg(s, written[p][s] + 1)>>)
        /\ UNCHANGED sendQueue
     \/ /\ ~ HasCredit(p, s)
        /\ sendQueue' = [sendQueue EXCEPT ![p][s] = Enqueue(@, written[p][s] + 1)]
        /\ UNCHANGED <<sendCredits, sendSeq, chan>>
  /\ UNCHANGED <<state, tracked, recvCredits, delivered>>

(* The map forgets a stream that reached CLOSED. *)
ForgetAlways(p, s, st) == [tracked EXCEPT ![p] = @ \ {s}]

ForgetClosed(p, s, st) ==
  IF st = "CLOSED" THEN [tracked EXCEPT ![p] = @ \ {s}] ELSE tracked

AfterEnd(st) == IF st = "OPEN" THEN "HALF_CLOSED_LOCAL" ELSE "CLOSED"

(* MeshStream.end(): half-close.  Queued payloads stay queued. *)
End(p, s) ==
  /\ state[p][s] \in {"OPEN", "HALF_CLOSED_REMOTE"}
  /\ SetState(p, s, AfterEnd(state[p][s]))
  /\ Emit(p, <<EndMsg(s)>>)
  /\ UNCHANGED <<tracked, flow>>

(* StreamMultiplexer.close(id): end() and forget the stream once CLOSED. *)
Close(p, s) ==
  /\ s \in tracked[p]
  /\ \/ /\ state[p][s] \in {"OPEN", "HALF_CLOSED_REMOTE"}
        /\ SetState(p, s, AfterEnd(state[p][s]))
        /\ Emit(p, <<EndMsg(s)>>)
     \/ /\ state[p][s] = "CLOSED"
        /\ UNCHANGED <<state, chan>>
  /\ tracked' = ForgetClosed(p, s, state'[p][s])
  /\ UNCHANGED flow

(* MeshStream.cancel(): drop the queue, tell the peer, leave the map. *)
Cancel(p, s) ==
  /\ state[p][s] \notin {"NONE", "CLOSED"}
  /\ SetState(p, s, "CLOSED")
  /\ sendQueue' = [sendQueue EXCEPT ![p][s] = <<>>]
  /\ tracked' = [tracked EXCEPT ![p] = @ \ {s}]
  /\ Emit(p, <<ErrorMsg(s)>>)
  /\ UNCHANGED <<sendCredits, recvCredits, sendSeq, written, delivered>>

Orderings(S) ==
  {f \in [1..Cardinality(S) -> S] : \A x \in S : \E i \in DOMAIN f : f[i] = x}

(* StreamMultiplexer.closeAll(): cancel every stream, empty the map. *)
CloseAll(p) ==
  /\ tracked[p] # {}
  /\ state' = [state EXCEPT ![p] =
                 [s \in Stream |-> IF s \in tracked[p] THEN "CLOSED" ELSE @[s]]]
  /\ sendQueue' = [sendQueue EXCEPT ![p] =
                     [s \in Stream |-> IF s \in Active(p) THEN <<>> ELSE @[s]]]
  /\ tracked' = [tracked EXCEPT ![p] = {}]
  /\ \E order \in Orderings(Active(p)) :
       Emit(p, [i \in 1..Cardinality(Active(p)) |-> ErrorMsg(order[i])])
  /\ UNCHANGED <<sendCredits, recvCredits, sendSeq, written, delivered>>

(* MeshStream.grantCredits(n): refused once #recvCredits would pass the    *)
(* maximum; nothing ever lowers #recvCredits.                              *)
GrantCredits(p, s, n) ==
  /\ state[p][s] \notin {"NONE", "CLOSED"}
  /\ recvCredits[p][s] + n <= MaxCredits
  /\ recvCredits' = [recvCredits EXCEPT ![p][s] = @ + n]
  /\ Emit(p, <<WindowMsg(s, n, recvCredits[p][s] + n)>>)
  /\ UNCHANGED <<state, tracked, sendCredits, sendSeq, sendQueue, written, delivered>>

(* StreamMultiplexer.fromJSON(toJSON()): everything survives but the send  *)
(* queues, which toJSON leaves out.                                        *)
Reload(p) ==
  /\ \E s \in tracked[p] : sendQueue[p][s] # <<>>
  /\ sendQueue' = [sendQueue EXCEPT ![p] =
                     [s \in Stream |-> IF s \in tracked[p] THEN <<>> ELSE @[s]]]
  /\ UNCHANGED <<state, tracked, sendCredits, recvCredits, sendSeq, written, delivered, chan>>

-----------------------------------------------------------------------------
(* dispatch(): the head of p's wire. *)

Incoming(p, type) == chan[p] # <<>> /\ Head(chan[p]).t = type

(* STREAM_OPEN: duplicate, over the concurrency limit, or a new stream. *)
RecvOpen(p) ==
  /\ Incoming(p, "OPEN")
  /\ LET s == Head(chan[p]).s
         n == Head(chan[p]).n
     IN \/ /\ s \in tracked[p] \/ Cardinality(Active(p)) >= MaxConcurrent
           /\ Reply(p, IF s \in tracked[p] THEN <<>> ELSE <<ErrorMsg(s)>>)
           /\ UNCHANGED <<state, tracked, flow>>
        \/ /\ s \notin tracked[p]
           /\ Cardinality(Active(p)) < MaxConcurrent
           /\ SetState(p, s, "OPEN")
           /\ tracked' = [tracked EXCEPT ![p] = @ \cup {s}]
           /\ sendCredits' = [sendCredits EXCEPT ![p][s] = n]
           /\ recvCredits' = [recvCredits EXCEPT ![p][s] = n]
           /\ Reply(p, <<>>)
           /\ UNCHANGED <<sendSeq, sendQueue, written, delivered>>

(* Any other message for a stream that is not in the map, STREAM_ERROR     *)
(* included, is answered with STREAM_ERROR.                                *)
RecvUnknown(p) ==
  /\ chan[p] # <<>>
  /\ Head(chan[p]).t # "OPEN"
  /\ Head(chan[p]).s \notin tracked[p]
  /\ Reply(p, <<ErrorMsg(Head(chan[p]).s)>>)
  /\ UNCHANGED <<state, tracked, flow>>

(* _receiveData(): dropped unless this end still reads. *)
RecvData(p) ==
  /\ Incoming(p, "DATA")
  /\ LET s == Head(chan[p]).s
     IN /\ s \in tracked[p]
        /\ delivered' = IF state[p][s] \in {"OPEN", "HALF_CLOSED_LOCAL"}
                        THEN [delivered EXCEPT ![p][s] = Append(@, Head(chan[p]).n)]
                        ELSE delivered
  /\ Reply(p, <<>>)
  /\ UNCHANGED <<state, tracked, sendCredits, recvCredits, sendSeq, sendQueue, written>>

AfterRecvEndStuck(st) == IF st = "OPEN" THEN "HALF_CLOSED_REMOTE" ELSE st

AfterRecvEnd(st) == IF st = "OPEN" THEN "HALF_CLOSED_REMOTE" ELSE "CLOSED"

(* _receiveEnd(), and the map forgets a stream that is now CLOSED. *)
RecvEnd(p) ==
  /\ Incoming(p, "END")
  /\ LET s == Head(chan[p]).s
     IN /\ s \in tracked[p]
        /\ SetState(p, s, AfterRecvEnd(state[p][s]))
        /\ tracked' = ForgetClosed(p, s, AfterRecvEnd(state[p][s]))
  /\ Reply(p, <<>>)
  /\ UNCHANGED flow

(* _receiveError(): CLOSED, queue dropped, stream forgotten. *)
RecvError(p) ==
  /\ Incoming(p, "ERROR")
  /\ LET s == Head(chan[p]).s
     IN /\ s \in tracked[p]
        /\ SetState(p, s, "CLOSED")
        /\ sendQueue' = IF state[p][s] = "CLOSED" THEN sendQueue
                        ELSE [sendQueue EXCEPT ![p][s] = <<>>]
        /\ tracked' = [tracked EXCEPT ![p] = @ \ {s}]
  /\ Reply(p, <<>>)
  /\ UNCHANGED <<sendCredits, recvCredits, sendSeq, written, delivered>>

ClampUp(n) == IF n < MaxCredits THEN MaxCredits ELSE n

Clamp(n) == IF n > MaxCredits THEN MaxCredits ELSE n

(* _receiveCredits(): clamp, then drain the queue in order, whatever the   *)
(* state of the stream.                                                    *)
RecvCredits(p) ==
  /\ Incoming(p, "WINDOW")
  /\ LET s == Head(chan[p]).s
         credits == Clamp(sendCredits[p][s] + Head(chan[p]).n)
         queue == sendQueue[p][s]
         k == IF Len(queue) < credits THEN Len(queue) ELSE credits
     IN /\ s \in tracked[p]
        /\ sendCredits' = [sendCredits EXCEPT ![p][s] = credits - k]
        /\ sendSeq' = [sendSeq EXCEPT ![p][s] = @ + k]
        /\ sendQueue' = [sendQueue EXCEPT ![p][s] = SubSeq(queue, k + 1, Len(queue))]
        /\ Reply(p, [i \in 1..k |-> DataMsg(s, queue[i])])
  /\ UNCHANGED <<state, tracked, recvCredits, written, delivered>>

Deliver(p) ==
  \/ RecvOpen(p)
  \/ RecvUnknown(p)
  \/ RecvData(p)
  \/ RecvEnd(p)
  \/ RecvError(p)
  \/ RecvCredits(p)

App(p) ==
  \/ CloseAll(p)
  \/ Reload(p)
  \/ \E s \in Stream :
       \/ Open(p, s)
       \/ Write(p, s)
       \/ End(p, s)
       \/ Close(p, s)
       \/ Cancel(p, s)
       \/ \E n \in 1..MaxCredits : GrantCredits(p, s, n)

Next == \E p \in Peer : App(p) \/ Deliver(p)

Spec == Init /\ [][Next]_vars

(* The wire delivers what it carries; the application owes nothing. *)
FairSpec == Spec /\ \A p \in Peer : WF_vars(Deliver(p))

-----------------------------------------------------------------------------
(* Every variable has its type (the fields of MeshStream and the #streams  *)
(* map).                                                                   *)
TypeOK ==
  /\ state \in [Peer -> [Stream -> StreamState]]
  /\ tracked \in [Peer -> SUBSET Stream]
  /\ sendCredits \in [Peer -> [Stream -> Nat]]
  /\ recvCredits \in [Peer -> [Stream -> Nat]]
  /\ sendSeq \in [Peer -> [Stream -> Nat]]
  /\ sendQueue \in [Peer -> [Stream -> Seq(Nat)]]
  /\ written \in [Peer -> [Stream -> Nat]]
  /\ delivered \in [Peer -> [Stream -> Seq(Nat)]]
  /\ chan \in [Peer -> Seq(Message)]

(* Flow control: the frames an end has sent plus the credits it still      *)
(* holds never exceed what the other end has granted, and that never       *)
(* exceeds maxCredits, however writes, grants and drains interleave.       *)
FlowControl ==
  \A p \in Peer, s \in Stream :
    /\ sendSeq[p][s] + sendCredits[p][s] <= recvCredits[Other(p)][s]
    /\ recvCredits[Other(p)][s] <= MaxCredits

(* onData sees payloads in the order write() accepted them, none twice,    *)
(* although some leave at once and some wait in the send queue.            *)
DeliveredInOrder ==
  \A p \in Peer, s \in Stream :
    LET d == delivered[p][s]
    IN /\ \A i, j \in DOMAIN d : i < j => d[i] < d[j]
       /\ \A i \in DOMAIN d : d[i] <= written[Other(p)][s]

(* A stream that is not CLOSED is in its multiplexer's map, so dispatch()  *)
(* can still reach it and closeAll() will still cancel it.                 *)
NoOrphanStream ==
  \A p \in Peer, s \in Stream :
    state[p][s] \notin {"NONE", "CLOSED"} => s \in tracked[p]

(* When one end of a stream is CLOSED the other end becomes CLOSED too     *)
(* (or never came to exist), whichever mix of end(), close(), cancel(),    *)
(* refusal and late data got it there.                                     *)
CloseReachesPeer ==
  \A p \in Peer, s \in Stream :
    state[p][s] = "CLOSED" ~> state[Other(p)][s] \in {"NONE", "CLOSED"}

(* The inductive strengthening of FlowControl.  Grants on the wire form a  *)
(* chain: each starts where the previous one ended (upto), the first one   *)
(* at or above what the sender already counts, the last one at or below    *)
(* what the receiver has granted.                                          *)
Budget(p, s) == sendSeq[p][s] + sendCredits[p][s]

Fresh ==
  \A p \in Peer, s \in Stream :
    state[p][s] = "NONE" =>
      /\ sendSeq[p][s] = 0
      /\ sendCredits[p][s] = InitialCredits
      /\ recvCredits[p][s] = InitialCredits

TrackedExists ==
  \A p \in Peer : \A s \in tracked[p] : state[p][s] # "NONE"

OpenOnce ==
  \A p \in Peer : \A i \in DOMAIN chan[p] :
    chan[p][i].t = "OPEN" =>
      /\ chan[p][i].n = InitialCredits
      /\ state[p][chan[p][i].s] = "NONE"
      /\ state[Other(p)][chan[p][i].s] # "NONE"
      /\ \A j \in DOMAIN chan[p] :
           chan[p][j].t = "OPEN" /\ chan[p][j].s = chan[p][i].s => j = i

GrantChain ==
  \A p \in Peer : \A i \in DOMAIN chan[p] :
    chan[p][i].t = "WINDOW" =>
      /\ Budget(p, chan[p][i].s) + chan[p][i].n <= chan[p][i].upto
      /\ chan[p][i].upto <= recvCredits[Other(p)][chan[p][i].s]
      /\ \A j \in DOMAIN chan[p] :
           i < j /\ chan[p][j].t = "WINDOW" /\ chan[p][j].s = chan[p][i].s =>
             chan[p][i].upto + chan[p][j].n <= chan[p][j].upto

IInv ==
  /\ TypeOK
  /\ Fresh
  /\ TrackedExists
  /\ OpenOnce
  /\ GrantChain
  /\ FlowControl

(* The inductive strengthening of DeliveredInOrder.  The payloads of a      *)
(* stream stand in one line: those handed to onData, those on the wire and  *)
(* those in the send queue; a later one is a later write.  An end that      *)
(* still has a queue has no credit, so no write overtakes what waits.       *)
InLine(d, c, s, q, w) ==
  LET wire == {i \in DOMAIN c : c[i].t = "DATA" /\ c[i].s = s}
  IN /\ \A i, j \in DOMAIN d : i < j => d[i] < d[j]
     /\ \A i, j \in wire : i < j => c[i].n < c[j].n
     /\ \A i, j \in DOMAIN q : i < j => q[i] < q[j]
     /\ \A i \in DOMAIN d, j \in wire : d[i] < c[j].n
     /\ \A i \in DOMAIN d, j \in DOMAIN q : d[i] < q[j]
     /\ \A i \in wire, j \in DOMAIN q : c[i].n < q[j]
     /\ \A i \in DOMAIN d : d[i] <= w
     /\ \A i \in wire : c[i].n <= w
     /\ \A i \in DOMAIN q : q[i] <= w

PayloadsInLine ==
  \A p \in Peer, s \in Stream :
    InLine(delivered[p][s], chan[p], s, sendQueue[Other(p)][s], written[Other(p)][s])

QueueWaits ==
  \A p \in Peer, s \in Stream :
    sendQueue[p][s] # <<>> => state[p][s] # "NONE" /\ sendCredits[p][s] = 0

OrderInv == PayloadsInLine /\ QueueWaits
=============================================================================
