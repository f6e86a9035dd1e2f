--------------------------- MODULE StreamMuxProofs ---------------------------
(***************************************************************************)
(* Flow control, the stream map and the order of payloads of StreamMux,    *)
(* for every set of streams and every choice of the credit limits, and the *)
(* reports of FileTransfer for any number of chunks.                       *)
(***************************************************************************)
EXTENDS MCStreams, FiniteSetTheorems, SequenceTheorems, TLAPS

(* The two ends are each other's peer. *)
LEMMA OtherPeer ==
  ASSUME NEW p \in Peer
  PROVE  Other(p) \in Peer /\ Other(p) # p /\ Other(Other(p)) = p
  BY DEF Peer, Other

(* Only the two ends exist. *)
LEMMA TwoPeers ==
  ASSUME NEW p \in Peer, NEW q \in Peer
  PROVE  q = p \/ q = Other(p)
  BY DEF Peer, Other

(* What _emit() does to the wire: the other end's gets the messages at its *)
(* end, in order, and nothing else changes.                                *)
LEMMA EmitWire ==
  ASSUME TypeOK, NEW p \in Peer, NEW msgs \in Seq(Message), Emit(p, msgs)
  PROVE  /\ chan' \in [Peer -> Seq(Message)]
         /\ chan'[p] = chan[p]
         /\ \A i \in DOMAIN chan'[Other(p)] :
              \/ /\ i \in DOMAIN chan[Other(p)]
                 /\ chan'[Other(p)][i] = chan[Other(p)][i]
              \/ /\ i \notin DOMAIN chan[Other(p)]
                 /\ i > Len(chan[Other(p)])
                 /\ i - Len(chan[Other(p)]) \in DOMAIN msgs
                 /\ chan'[Other(p)][i] = msgs[i - Len(chan[Other(p)])]
<1>1. Other(p) \in Peer /\ Other(p) # p
  BY OtherPeer
<1>2. chan \in [Peer -> Seq(Message)]
  BY DEF TypeOK
<1>3. chan' = [chan EXCEPT ![Other(p)] = chan[Other(p)] \o msgs]
  BY <1>1, <1>2 DEF Emit
<1>4. chan[Other(p)] \in Seq(Message) /\ chan[Other(p)] \o msgs \in Seq(Message)
  BY <1>1, <1>2
<1>5. chan'[Other(p)] = chan[Other(p)] \o msgs /\ chan'[p] = chan[p]
  BY <1>1, <1>2, <1>3
<1>6. chan' \in [Peer -> Seq(Message)]
  BY <1>2, <1>3, <1>4
<1>7. ASSUME NEW i \in DOMAIN chan'[Other(p)]
      PROVE  \/ /\ i \in DOMAIN chan[Other(p)]
                /\ chan'[Other(p)][i] = chan[Other(p)][i]
             \/ /\ i \notin DOMAIN chan[Other(p)]
                /\ i > Len(chan[Other(p)])
                /\ i - Len(chan[Other(p)]) \in DOMAIN msgs
                /\ chan'[Other(p)][i] = msgs[i - Len(chan[Other(p)])]
  BY <1>4, <1>5, <1>7
<1> QED BY <1>5, <1>6, <1>7

(* What dispatch() does to the wire: the head of p's is gone, and the      *)
(* answers are at the end of the other one.                                *)
LEMMA ReplyWire ==
  ASSUME TypeOK, NEW p \in Peer, NEW msgs \in Seq(Message), Reply(p, msgs),
         chan[p] # <<>>
  PROVE  /\ chan' \in [Peer -> Seq(Message)]
         /\ \A i \in DOMAIN chan'[p] :
              /\ i + 1 \in DOMAIN chan[p]
              /\ i + 1 > 1
              /\ i \in Nat
              /\ chan'[p][i] = chan[p][i + 1]
         /\ \A i \in DOMAIN chan'[Other(p)] :
              \/ /\ i \in DOMAIN chan[Other(p)]
                 /\ chan'[Other(p)][i] = chan[Other(p)][i]
              \/ /\ i \notin DOMAIN chan[Other(p)]
                 /\ i > Len(chan[Other(p)])
                 /\ i - Len(chan[Other(p)]) \in DOMAIN msgs
                 /\ chan'[Other(p)][i] = msgs[i - Len(chan[Other(p)])]
         /\ 1 \in DOMAIN chan[p]
         /\ Head(chan[p]) = chan[p][1]
         /\ chan[p][1] \in Message
<1>1. Other(p) \in Peer /\ Other(p) # p
  BY OtherPeer
<1>2. chan \in [Peer -> Seq(Message)]
  BY DEF TypeOK
<1>4. /\ chan[Other(p)] \in Seq(Message) /\ chan[Other(p)] \o msgs \in Seq(Message)
      /\ chan[p] \in Seq(Message) /\ Tail(chan[p]) \in Seq(Message)
  BY <1>1, <1>2
<1>3. chan' = [chan EXCEPT ![p] = Tail(chan[p]), ![Other(p)] = chan[Other(p)] \o msgs]
  BY <1>1, <1>2 DEF Reply
<1>5. chan'[Other(p)] = chan[Other(p)] \o msgs /\ chan'[p] = Tail(chan[p])
  BY <1>1, <1>2, <1>3
<1>6. chan' \in [Peer -> Seq(Message)]
  BY <1>2, <1>3, <1>4
<1>7. ASSUME NEW i \in DOMAIN chan'[Other(p)]
      PROVE  \/ /\ i \in DOMAIN chan[Other(p)]
                /\ chan'[Other(p)][i] = chan[Other(p)][i]
             \/ /\ i \notin DOMAIN chan[Other(p)]
                /\ i > Len(chan[Other(p)])
                /\ i - Len(chan[Other(p)]) \in DOMAIN msgs
                /\ chan'[Other(p)][i] = msgs[i - Len(chan[Other(p)])]
  BY <1>4, <1>5, <1>7
<1>8. ASSUME NEW i \in DOMAIN chan'[p]
      PROVE  i + 1 \in DOMAIN chan[p] /\ i + 1 > 1 /\ i \in Nat /\ chan'[p][i] = chan[p][i + 1]
  BY <1>4, <1>5, <1>8
<1>9. 1 \in DOMAIN chan[p] /\ Head(chan[p]) = chan[p][1] /\ chan[p][1] \in Message
  BY <1>4
<1> QED BY <1>6, <1>7, <1>8, <1>9

(* A step that puts no STREAM_OPEN and no STREAM_WINDOW_UPDATE on a wire,  *)
(* moves no credit and creates no stream keeps the facts about the wires:  *)
(* every such message that is left was there before, at a position offset  *)
(* by what the step consumed.                                              *)
Settled(q, d) ==
  \A i \in DOMAIN chan'[q] :
    chan'[q][i].t \in {"OPEN", "WINDOW"} =>
      /\ i + d \in DOMAIN chan[q]
      /\ chan'[q][i] = chan[q][i + d]

NoCreditMoves ==
  \A q \in Peer, s \in Stream :
    /\ recvCredits'[q][s] = recvCredits[q][s]
    /\ sendSeq'[q][s] + sendCredits'[q][s] = sendSeq[q][s] + sendCredits[q][s]

NoneCreated ==
  \A q \in Peer, s \in Stream : state'[q][s] = "NONE" <=> state[q][s] = "NONE"

(* Such a step keeps the uniqueness of opens ... *)
LEMMA QuietOpens ==
  ASSUME IInv, TypeOK', NoneCreated, \A q \in Peer : Settled(q, 0) \/ Settled(q, 1)
  PROVE  OpenOnce'
<1> USE DEF NoneCreated
<1>0. \A q \in Peer : DOMAIN chan'[q] \subseteq Nat /\ DOMAIN chan[q] \subseteq Nat
  BY DEF IInv, TypeOK
<1>m. /\ \A q \in Peer : \A i \in DOMAIN chan[q] : chan[q][i] \in Message
      /\ \A q \in Peer : \A i \in DOMAIN chan'[q] : chan'[q][i] \in Message
  BY DEF IInv, TypeOK
<1>2. ASSUME NEW q \in Peer, NEW i \in DOMAIN chan'[q], chan'[q][i].t = "OPEN"
      PROVE  /\ chan'[q][i].n = InitialCredits
             /\ state'[q][chan'[q][i].s] = "NONE"
             /\ state'[Other(q)][chan'[q][i].s] # "NONE"
             /\ \A j \in DOMAIN chan'[q] :
                  chan'[q][j].t = "OPEN" /\ chan'[q][j].s = chan'[q][i].s => j = i
  <2> USE DEF Message
  <2>1. CASE Settled(q, 0)
    BY <1>0, <1>m, <1>2, <2>1, OtherPeer DEF Settled, IInv, OpenOnce
  <2>2. CASE Settled(q, 1)
    BY <1>0, <1>m, <1>2, <2>2, OtherPeer DEF Settled, IInv, OpenOnce
  <2> QED BY <2>1, <2>2
<1> QED BY <1>2 DEF OpenOnce

(* ... and the chain of grants with the flow-control bound. *)
LEMMA QuietGrants ==
  ASSUME IInv, TypeOK', NoCreditMoves, \A q \in Peer : Settled(q, 0) \/ Settled(q, 1)
  PROVE  GrantChain' /\ FlowControl'
<1> USE DEF NoCreditMoves
<1>0. \A q \in Peer : DOMAIN chan'[q] \subseteq Nat /\ DOMAIN chan[q] \subseteq Nat
  BY DEF IInv, TypeOK
<1>m. /\ \A q \in Peer : \A i \in DOMAIN chan[q] : chan[q][i] \in Message
      /\ \A q \in Peer : \A i \in DOMAIN chan'[q] : chan'[q][i] \in Message
  BY DEF IInv, TypeOK
<1>1. FlowControl'
  BY OtherPeer DEF IInv, FlowControl
<1>3. ASSUME NEW q \in Peer, NEW i \in DOMAIN chan'[q], chan'[q][i].t = "WINDOW"
      PROVE  /\ sendSeq'[q][chan'[q][i].s] + sendCredits'[q][chan'[q][i].s] + chan'[q][i].n <= chan'[q][i].upto
             /\ chan'[q][i].upto <= recvCredits'[Other(q)][chan'[q][i].s]
             /\ \A j \in DOMAIN chan'[q] :
                  i < j /\ chan'[q][j].t = "WINDOW" /\ chan'[q][j].s = chan'[q][i].s =>
                    chan'[q][i].upto + chan'[q][j].n <= chan'[q][j].upto
  <2>0. PICK d \in {0, 1} : Settled(q, d)
    OBVIOUS
  <2>1. /\ i + d \in DOMAIN chan[q]
        /\ chan'[q][i] = chan[q][i + d]
        /\ chan'[q][i] \in Message
    BY <1>3, <1>m, <2>0 DEF Settled
  <2>2. /\ chan'[q][i].s \in Stream /\ chan'[q][i].n \in Nat /\ chan'[q][i].upto \in Nat
    BY <2>1 DEF Message
  <2>3. /\ Budget(q, chan[q][i + d].s) + chan[q][i + d].n <= chan[q][i + d].upto
        /\ chan[q][i + d].upto <= recvCredits[Other(q)][chan[q][i + d].s]
    BY <1>3, <2>1 DEF IInv, GrantChain
  <2>4. sendSeq'[q][chan'[q][i].s] + sendCredits'[q][chan'[q][i].s] + chan'[q][i].n <= chan'[q][i].upto
    <3>1. sendSeq'[q][chan'[q][i].s] + sendCredits'[q][chan'[q][i].s] = Budget(q, chan[q][i + d].s)
      BY <2>1, <2>2 DEF Budget
    <3> QED BY <2>1, <2>3, <3>1
  <2>5. chan'[q][i].upto <= recvCredits'[Other(q)][chan'[q][i].s]
    BY <2>1, <2>2, <2>3, OtherPeer
  <2>6. ASSUME NEW j \in DOMAIN chan'[q], i < j, chan'[q][j].t = "WINDOW",
               chan'[q][j].s = chan'[q][i].s
        PROVE  chan'[q][i].upto + chan'[q][j].n <= chan'[q][j].upto
    <3>1. /\ j + d \in DOMAIN chan[q]
          /\ chan'[q][j] = chan[q][j + d]
      BY <2>0, <2>6 DEF Settled
    <3>2. i + d < j + d
      BY <1>0, <2>6
    <3> QED BY <1>3, <2>1, <2>6, <3>1, <3>2 DEF IInv, GrantChain
  <2> QED BY <2>4, <2>5, <2>6
<1>5. GrantChain'
  BY <1>3 DEF GrantChain, Budget
<1> QED BY <1>1, <1>5

(* Emitting other messages, or none, settles both wires. *)
LEMMA EmitSettles ==
  ASSUME TypeOK, NEW p \in Peer, NEW msgs \in Seq(Message), Emit(p, msgs),
         \A k \in DOMAIN msgs : msgs[k].t \notin {"OPEN", "WINDOW"}
  PROVE  \A q \in Peer : Settled(q, 0) \/ Settled(q, 1)
<1>1. DOMAIN chan[p] \subseteq Nat /\ \A q \in Peer : DOMAIN chan[q] \subseteq Nat
  BY DEF TypeOK
<1>2. Settled(p, 0)
  BY <1>1, EmitWire DEF Settled
<1>3. Settled(Other(p), 0)
  BY <1>1, EmitWire, OtherPeer DEF Settled
<1> QED BY <1>2, <1>3, TwoPeers

(* So does answering a message with others, or with none. *)
LEMMA ReplySettles ==
  ASSUME TypeOK, NEW p \in Peer, NEW msgs \in Seq(Message), Reply(p, msgs),
         chan[p] # <<>>,
         \A k \in DOMAIN msgs : msgs[k].t \notin {"OPEN", "WINDOW"}
  PROVE  \A q \in Peer : Settled(q, 0) \/ Settled(q, 1)
<1>1. \A q \in Peer : DOMAIN chan[q] \subseteq Nat
  BY DEF TypeOK
<1>2. Settled(p, 1)
  BY <1>1, ReplyWire DEF Settled
<1>3. Settled(Other(p), 0)
  BY <1>1, ReplyWire, OtherPeer DEF Settled
<1> QED BY <1>2, <1>3, TwoPeers

(* What closeAll() puts on the wire: STREAM_ERRORs, one per live stream.   *)
LEMMA CloseAllMessages ==
  ASSUME TypeOK, NEW p \in Peer, NEW order \in Orderings(Active(p))
  PROVE  LET msgs == [i \in 1..Cardinality(Active(p)) |-> ErrorMsg(order[i])]
         IN /\ msgs \in Seq(Message)
            /\ \A k \in DOMAIN msgs : msgs[k].t \notin {"OPEN", "WINDOW"}
<1>1. Active(p) \subseteq Stream
  BY DEF TypeOK, Active
<1>2. Cardinality(Active(p)) \in Nat
  BY <1>1, FS_Subset, FS_CardinalityType, StreamMuxAssumption
<1>3. \A i \in 1..Cardinality(Active(p)) : ErrorMsg(order[i]) \in Message
  BY <1>1 DEF Orderings, ErrorMsg, Message
<1> QED BY <1>2, <1>3 DEF ErrorMsg

(* Every message the code builds is a wire message. *)
LEMMA Messages ==
  ASSUME NEW s \in Stream, NEW n \in Nat, NEW u \in Nat
  PROVE  /\ <<OpenMsg(s, n)>> \in Seq(Message)
         /\ <<DataMsg(s, n)>> \in Seq(Message)
         /\ <<EndMsg(s)>> \in Seq(Message)
         /\ <<ErrorMsg(s)>> \in Seq(Message)
         /\ <<WindowMsg(s, n, u)>> \in Seq(Message)
         /\ <<>> \in Seq(Message)
  BY DEF OpenMsg, DataMsg, EndMsg, ErrorMsg, WindowMsg, Message

(* Updating one field of one stream keeps the field's type. *)
LEMMA FieldUpdate ==
  ASSUME NEW T, NEW f \in [Peer -> [Stream -> T]], NEW p \in Peer,
         NEW s \in Stream, NEW v \in T
  PROVE  [f EXCEPT ![p][s] = v] \in [Peer -> [Stream -> T]]
  OBVIOUS

(* The application's operations and dispatch() keep the type invariant. *)
LEMMA TypeStep ==
  ASSUME TypeOK, NEW p \in Peer, App(p) \/ Deliver(p)
  PROVE  TypeOK'
<1> USE StreamMuxAssumption
<1>0. Other(p) \in Peer
  BY OtherPeer
<1>1. ASSUME NEW s \in Stream, Open(p, s) PROVE TypeOK'
  <2>1. chan' \in [Peer -> Seq(Message)]
    BY <1>1, Messages, EmitWire DEF Open
  <2> QED BY <1>1, <2>1 DEF Open, TypeOK, SetState, StreamState, flow
<1>2. ASSUME NEW s \in Stream, Write(p, s) PROVE TypeOK'
  <2>0. written[p][s] + 1 \in Nat
    BY DEF TypeOK
  <2>1. chan' \in [Peer -> Seq(Message)]
    BY <1>2, <2>0, Messages, EmitWire DEF Write, HasCredit, Enqueue, TypeOK
  <2>2. /\ sendCredits' \in [Peer -> [Stream -> Nat]]
        /\ sendSeq' \in [Peer -> [Stream -> Nat]]
        /\ sendQueue' \in [Peer -> [Stream -> Seq(Nat)]]
    <3>1. CASE sendCredits[p][s] > 0
      <4>1. /\ sendCredits[p][s] - 1 \in Nat /\ sendSeq[p][s] + 1 \in Nat
            /\ sendCredits' = [sendCredits EXCEPT ![p][s] = sendCredits[p][s] - 1]
            /\ sendSeq' = [sendSeq EXCEPT ![p][s] = sendSeq[p][s] + 1]
            /\ sendQueue' = sendQueue
        BY <1>2, <3>1 DEF Write, HasCredit, Enqueue, TypeOK
      <4> QED BY <4>1, FieldUpdate DEF TypeOK
    <3>2. CASE sendCredits[p][s] = 0
      <4>1. /\ Append(sendQueue[p][s], written[p][s] + 1) \in Seq(Nat)
            /\ sendQueue' = [sendQueue EXCEPT ![p][s] =
                               Append(sendQueue[p][s], written[p][s] + 1)]
            /\ sendCredits' = sendCredits /\ sendSeq' = sendSeq
        BY <1>2, <2>0, <3>2 DEF Write, HasCredit, Enqueue, TypeOK
      <4> QED BY <4>1, FieldUpdate DEF TypeOK
    <3> QED BY <3>1, <3>2 DEF TypeOK
  <2>3. written' \in [Peer -> [Stream -> Nat]]
    BY <1>2, <2>0, FieldUpdate DEF Write, HasCredit, Enqueue, TypeOK
  <2> QED BY <1>2, <2>1, <2>2, <2>3 DEF Write, HasCredit, Enqueue, TypeOK
<1>3. ASSUME NEW s \in Stream, End(p, s) PROVE TypeOK'
  <2>1. chan' \in [Peer -> Seq(Message)]
    BY <1>3, Messages, EmitWire DEF End
  <2> QED BY <1>3, <2>1 DEF End, TypeOK, SetState, StreamState, AfterEnd, flow
<1>4. ASSUME NEW s \in Stream, Close(p, s) PROVE TypeOK'
  <2>1. chan' \in [Peer -> Seq(Message)]
    BY <1>4, Messages, EmitWire DEF Close, TypeOK
  <2>2. state' \in [Peer -> [Stream -> StreamState]]
    <3>1. AfterEnd(state[p][s]) \in StreamState
      BY DEF AfterEnd, StreamState
    <3>2. [state EXCEPT ![p][s] = AfterEnd(state[p][s])] \in [Peer -> [Stream -> StreamState]]
      BY <3>1, FieldUpdate DEF TypeOK
    <3> QED BY <1>4, <3>2 DEF Close, TypeOK, SetState
  <2> QED BY <1>4, <2>1, <2>2 DEF Close, ForgetClosed, TypeOK, flow
<1>5. ASSUME NEW s \in Stream, Cancel(p, s) PROVE TypeOK'
  <2>1. chan' \in [Peer -> Seq(Message)]
    BY <1>5, Messages, EmitWire DEF Cancel
  <2>2. state' \in [Peer -> [Stream -> StreamState]]
    BY <1>5, FieldUpdate DEF Cancel, TypeOK, SetState, StreamState
  <2>3. sendQueue' \in [Peer -> [Stream -> Seq(Nat)]]
    BY <1>5, FieldUpdate DEF Cancel, TypeOK
  <2> QED BY <1>5, <2>1, <2>2, <2>3 DEF Cancel, TypeOK
<1>6. ASSUME NEW s \in Stream, NEW n \in 1..MaxCredits, GrantCredits(p, s, n)
      PROVE  TypeOK'
  <2>0. n \in Nat /\ recvCredits[p][s] + n \in Nat
    BY DEF TypeOK
  <2>1. chan' \in [Peer -> Seq(Message)]
    BY <1>6, <2>0, Messages, EmitWire DEF GrantCredits
  <2> QED BY <1>6, <2>0, <2>1 DEF GrantCredits, TypeOK
<1>7. CASE CloseAll(p)
  <2>1. chan' \in [Peer -> Seq(Message)]
    BY <1>7, CloseAllMessages, EmitWire DEF CloseAll
  <2>2. state' \in [Peer -> [Stream -> StreamState]]
    BY <1>7 DEF CloseAll, TypeOK, StreamState
  <2>3. sendQueue' \in [Peer -> [Stream -> Seq(Nat)]]
    BY <1>7 DEF CloseAll, TypeOK
  <2> QED BY <1>7, <2>1, <2>2, <2>3 DEF CloseAll, TypeOK
<1>8. CASE Reload(p)
  BY <1>8 DEF Reload, TypeOK
<1>9. ASSUME chan[p] # <<>>
      PROVE  Head(chan[p]) \in Message
  BY <1>9 DEF TypeOK
<1>10. CASE RecvOpen(p)
  <2>0. chan[p] # <<>> /\ Head(chan[p]).s \in Stream /\ Head(chan[p]).n \in Nat
    BY <1>9, <1>10 DEF RecvOpen, Incoming, Message
  <2>1. chan' \in [Peer -> Seq(Message)]
    BY <1>10, <2>0, Messages, ReplyWire DEF RecvOpen
  <2>2. CASE UNCHANGED <<state, tracked, flow>>
    BY <2>1, <2>2 DEF TypeOK, flow
  <2>3. CASE ~ UNCHANGED <<state, tracked, flow>>
    <3> DEFINE s == Head(chan[p]).s
               n == Head(chan[p]).n
    <3>1. /\ state' = [state EXCEPT ![p][s] = "OPEN"]
          /\ tracked' = [tracked EXCEPT ![p] = @ \cup {s}]
          /\ sendCredits' = [sendCredits EXCEPT ![p][s] = n]
          /\ recvCredits' = [recvCredits EXCEPT ![p][s] = n]
          /\ UNCHANGED <<sendSeq, sendQueue, written, delivered>>
      BY <1>10, <2>3 DEF RecvOpen, SetState
    <3> HIDE DEF s, n
    <3>2. s \in Stream /\ n \in Nat
      BY <2>0 DEF s, n
    <3>3. /\ state' \in [Peer -> [Stream -> StreamState]]
          /\ sendCredits' \in [Peer -> [Stream -> Nat]]
          /\ recvCredits' \in [Peer -> [Stream -> Nat]]
      BY <3>1, <3>2, FieldUpdate DEF TypeOK, StreamState
    <3>4. tracked' \in [Peer -> SUBSET Stream]
      BY <3>1, <3>2 DEF TypeOK
    <3> QED BY <2>1, <3>1, <3>3, <3>4 DEF TypeOK
  <2> QED BY <2>2, <2>3
<1>11. CASE RecvUnknown(p)
  <2>0. chan[p] # <<>> /\ Head(chan[p]).s \in Stream
    BY <1>9, <1>11 DEF RecvUnknown, Message
  <2>1. chan' \in [Peer -> Seq(Message)]
    BY <1>11, <2>0, Messages, ReplyWire DEF RecvUnknown
  <2> QED BY <1>11, <2>1 DEF RecvUnknown, TypeOK, flow
<1>12. CASE RecvData(p)
  <2>0. chan[p] # <<>> /\ Head(chan[p]).s \in Stream /\ Head(chan[p]).n \in Nat
    BY <1>9, <1>12 DEF RecvData, Incoming, Message
  <2>1. chan' \in [Peer -> Seq(Message)]
    BY <1>12, <2>0, Messages, ReplyWire DEF RecvData
  <2>2. delivered' \in [Peer -> [Stream -> Seq(Nat)]]
    <3> DEFINE s == Head(chan[p]).s
               d == Append(delivered[p][s], Head(chan[p]).n)
    <3>1. d \in Seq(Nat) /\ s \in Stream
      BY <2>0 DEF TypeOK
    <3>2. delivered' = delivered \/ delivered' = [delivered EXCEPT ![p][s] = d]
      BY <1>12 DEF RecvData
    <3>3. delivered \in [Peer -> [Stream -> Seq(Nat)]]
      BY DEF TypeOK
    <3> HIDE DEF d, s
    <3>4. [delivered EXCEPT ![p][s] = d] \in [Peer -> [Stream -> Seq(Nat)]]
      BY <3>1, <3>3, FieldUpdate
    <3> QED BY <3>2, <3>3, <3>4
  <2> QED BY <1>12, <2>1, <2>2 DEF RecvData, TypeOK
<1>13. CASE RecvEnd(p)
  <2>0. chan[p] # <<>> /\ Head(chan[p]).s \in Stream
    BY <1>9, <1>13 DEF RecvEnd, Incoming, Message
  <2>1. chan' \in [Peer -> Seq(Message)]
    BY <1>13, <2>0, Messages, ReplyWire DEF RecvEnd
  <2>2. state' \in [Peer -> [Stream -> StreamState]]
    <3> DEFINE s == Head(chan[p]).s
    <3>1. \E st \in StreamState : state' = [state EXCEPT ![p][s] = st]
      BY <1>13 DEF RecvEnd, AfterRecvEnd, SetState, StreamState
    <3> QED BY <2>0, <3>1, FieldUpdate DEF TypeOK
  <2>3. tracked' \in [Peer -> SUBSET Stream]
    BY <1>13 DEF RecvEnd, ForgetClosed, TypeOK
  <2> QED BY <1>13, <2>1, <2>2, <2>3 DEF RecvEnd, TypeOK, flow
<1>14. CASE RecvError(p)
  <2>0. chan[p] # <<>> /\ Head(chan[p]).s \in Stream
    BY <1>9, <1>14 DEF RecvError, Incoming, Message
  <2>1. chan' \in [Peer -> Seq(Message)]
    BY <1>14, <2>0, Messages, ReplyWire DEF RecvError
  <2>2. state' \in [Peer -> [Stream -> StreamState]]
    <3> DEFINE s == Head(chan[p]).s
    <3>1. \E st \in StreamState : state' = [state EXCEPT ![p][s] = st]
      BY <1>14 DEF RecvError, SetState, StreamState
    <3> QED BY <2>0, <3>1, FieldUpdate DEF TypeOK
  <2>3. tracked' \in [Peer -> SUBSET Stream]
    BY <1>14 DEF RecvError, TypeOK
  <2>4. sendQueue' \in [Peer -> [Stream -> Seq(Nat)]]
    <3>1. [sendQueue EXCEPT ![p][Head(chan[p]).s] = <<>>] \in [Peer -> [Stream -> Seq(Nat)]]
      BY <2>0, FieldUpdate DEF TypeOK
    <3> QED BY <1>14, <3>1 DEF RecvError, TypeOK
  <2> QED BY <1>14, <2>1, <2>2, <2>3, <2>4 DEF RecvError, TypeOK
<1>15. CASE RecvCredits(p)
  <2> DEFINE s == Head(chan[p]).s
             credits == Clamp(sendCredits[p][s] + Head(chan[p]).n)
             queue == sendQueue[p][s]
             k == IF Len(queue) < credits THEN Len(queue) ELSE credits
             msgs == [i \in 1..k |-> DataMsg(s, queue[i])]
  <2>0. chan[p] # <<>> /\ s \in Stream /\ Head(chan[p]).n \in Nat
    BY <1>9, <1>15 DEF RecvCredits, Incoming, Message
  <2>1. credits \in Nat /\ queue \in Seq(Nat) /\ k \in Nat /\ k <= Len(queue) /\ k <= credits
    <3> HIDE DEF s
    <3>1. sendCredits[p][s] \in Nat /\ sendQueue[p][s] \in Seq(Nat)
      BY <2>0 DEF TypeOK
    <3>2. Len(queue) \in Nat
      BY <3>1
    <3>3. credits \in Nat
      BY <2>0, <3>1 DEF Clamp
    <3> HIDE DEF credits, queue
    <3> QED BY <3>1, <3>2, <3>3 DEF queue
  <2>2. msgs \in Seq(Message)
    <3> HIDE DEF s, credits, queue, k
    <3>1. \A i \in 1..k : DataMsg(s, queue[i]) \in Message
      BY <2>0, <2>1 DEF DataMsg, Message
    <3> QED BY <2>1, <3>1
  <2>3. /\ sendCredits' = [sendCredits EXCEPT ![p][s] = credits - k]
        /\ sendSeq' = [sendSeq EXCEPT ![p][s] = @ + k]
        /\ sendQueue' = [sendQueue EXCEPT ![p][s] = SubSeq(queue, k + 1, Len(queue))]
        /\ Reply(p, msgs)
        /\ UNCHANGED <<state, tracked, recvCredits, written, delivered>>
    BY <1>15 DEF RecvCredits
  <2>4. chan' \in [Peer -> Seq(Message)]
    BY <2>0, <2>2, <2>3, ReplyWire
  <2> HIDE DEF s, credits, queue, k, msgs
  <2>5. SubSeq(queue, k + 1, Len(queue)) \in Seq(Nat) /\ credits - k \in Nat
    BY <2>1
  <2>6. sendSeq[p][s] + k \in Nat
    BY <2>0, <2>1 DEF TypeOK
  <2>7. /\ sendCredits' \in [Peer -> [Stream -> Nat]]
        /\ sendSeq' \in [Peer -> [Stream -> Nat]]
        /\ sendQueue' \in [Peer -> [Stream -> Seq(Nat)]]
    BY <2>0, <2>3, <2>5, <2>6, FieldUpdate DEF TypeOK
  <2> QED BY <2>3, <2>4, <2>7 DEF TypeOK
<1> QED
  BY <1>1, <1>2, <1>3, <1>4, <1>5, <1>6, <1>7, <1>8, <1>10, <1>11, <1>12,
     <1>13, <1>14, <1>15 DEF App, Deliver

(* What p's wire holds, message by message. *)
LEMMA HeadMessage ==
  ASSUME TypeOK, NEW p \in Peer, chan[p] # <<>>
  PROVE  /\ 1 \in DOMAIN chan[p]
         /\ Head(chan[p]) = chan[p][1]
         /\ Head(chan[p]).s \in Stream
         /\ Head(chan[p]).n \in Nat
         /\ Head(chan[p]).upto \in Nat
<1>1. chan[p] \in Seq(Message)
  BY DEF TypeOK
<1>2. 1 \in DOMAIN chan[p] /\ Head(chan[p]) = chan[p][1] /\ chan[p][1] \in Message
  BY <1>1
<1> QED BY <1>2 DEF Message

(* A step that leaves the wires alone settles them. *)
LEMMA UnchangedSettles ==
  ASSUME TypeOK, chan' = chan
  PROVE  \A q \in Peer : Settled(q, 0) \/ Settled(q, 1)
<1>1. \A q \in Peer : DOMAIN chan[q] \subseteq Nat
  BY DEF TypeOK
<1> QED BY <1>1 DEF Settled

(* Data, end and error frames open nothing and grant nothing. *)
LEMMA QuietMessages ==
  ASSUME NEW s \in Stream, NEW n \in Nat
  PROVE  /\ \A k \in DOMAIN <<DataMsg(s, n)>> :
              <<DataMsg(s, n)>>[k].t \notin {"OPEN", "WINDOW"}
         /\ \A k \in DOMAIN <<EndMsg(s)>> : <<EndMsg(s)>>[k].t \notin {"OPEN", "WINDOW"}
         /\ \A k \in DOMAIN <<ErrorMsg(s)>> : <<ErrorMsg(s)>>[k].t \notin {"OPEN", "WINDOW"}
  BY DEF DataMsg, EndMsg, ErrorMsg

(* Reading one field of every stream after an update of one of them. *)
LEMMA FieldRead ==
  ASSUME NEW T, NEW f \in [Peer -> [Stream -> T]], NEW g, NEW p \in Peer,
         NEW s \in Stream, NEW v, g = [f EXCEPT ![p][s] = v]
  PROVE  \A q \in Peer, r \in Stream : g[q][r] = IF q = p /\ r = s THEN v ELSE f[q][r]
  OBVIOUS

(* Taking streams out of a multiplexer's map. *)
LEMMA MapShrinks ==
  ASSUME TypeOK, NEW p \in Peer, NEW s,
         tracked' = tracked \/ tracked' = [tracked EXCEPT ![p] = tracked[p] \ {s}]
  PROVE  \A q \in Peer : tracked'[q] \subseteq tracked[q]
<1>1. tracked \in [Peer -> SUBSET Stream]
  BY DEF TypeOK
<1> QED BY <1>1

(* What the application does between openings and grants (write, end,      *)
(* close, cancel, closeAll, a reload) keeps the inductive invariant.       *)
LEMMA AppQuiet ==
  ASSUME NEW p \in Peer
  PROVE  /\ IInv
         /\ TypeOK'
         /\ \/ CloseAll(p)
            \/ Reload(p)
            \/ \E s \in Stream : Write(p, s) \/ End(p, s) \/ Close(p, s) \/ Cancel(p, s)
         => IInv'
<1>a. SUFFICES ASSUME IInv, TypeOK',
                      \/ CloseAll(p)
                      \/ Reload(p)
                      \/ \E s \in Stream :
                           Write(p, s) \/ End(p, s) \/ Close(p, s) \/ Cancel(p, s)
               PROVE  IInv'
  OBVIOUS
<1>0. TypeOK /\ Fresh /\ TrackedExists
  BY <1>a DEF IInv
<1>1. ASSUME NEW s \in Stream, Write(p, s)
      PROVE  IInv'
  <2>1. state' = state /\ tracked' = tracked /\ recvCredits' = recvCredits
        /\ state[p][s] # "NONE"
    BY <1>1 DEF Write, HasCredit
  <2>2. \A q \in Peer, r \in Stream : q # p \/ r # s =>
          sendSeq'[q][r] = sendSeq[q][r] /\ sendCredits'[q][r] = sendCredits[q][r]
    <3>1. CASE UNCHANGED <<sendSeq, sendCredits>>
      BY <3>1
    <3>2. CASE sendCredits' = [sendCredits EXCEPT ![p][s] = @ - 1]
               /\ sendSeq' = [sendSeq EXCEPT ![p][s] = @ + 1]
      <4>1. /\ sendCredits \in [Peer -> [Stream -> Nat]]
            /\ sendSeq \in [Peer -> [Stream -> Nat]]
        BY <1>0 DEF TypeOK
      <4>2. \A q \in Peer, r \in Stream :
              sendCredits'[q][r] = IF q = p /\ r = s THEN sendCredits[p][s] - 1 ELSE sendCredits[q][r]
        BY <3>2, <4>1, FieldRead
      <4>3. \A q \in Peer, r \in Stream :
              sendSeq'[q][r] = IF q = p /\ r = s THEN sendSeq[p][s] + 1 ELSE sendSeq[q][r]
        BY <3>2, <4>1, FieldRead
      <4> QED BY <4>2, <4>3
    <3> QED BY <1>1, <3>1, <3>2 DEF Write, HasCredit
  <2>3. sendSeq'[p][s] + sendCredits'[p][s] = sendSeq[p][s] + sendCredits[p][s]
    <3>0. sendSeq[p][s] \in Nat /\ sendCredits[p][s] \in Nat
      BY <1>0 DEF TypeOK
    <3>1. CASE UNCHANGED <<sendSeq, sendCredits>>
      BY <3>1
    <3>2. CASE sendCredits' = [sendCredits EXCEPT ![p][s] = @ - 1]
               /\ sendSeq' = [sendSeq EXCEPT ![p][s] = @ + 1]
      <4>1. sendCredits'[p][s] = sendCredits[p][s] - 1 /\ sendSeq'[p][s] = sendSeq[p][s] + 1
        BY <1>0, <3>2 DEF TypeOK
      <4> QED BY <3>0, <4>1
    <3> QED BY <1>1, <3>1, <3>2 DEF Write, HasCredit
  <2>4. NoCreditMoves /\ NoneCreated
    BY <2>1, <2>2, <2>3 DEF NoCreditMoves, NoneCreated
  <2>5. \A q \in Peer : Settled(q, 0) \/ Settled(q, 1)
    <3>1. CASE chan' = chan
      BY <1>0, <3>1, UnchangedSettles
    <3>2. CASE Emit(p, <<DataMsg(s, written[p][s] + 1)>>)
      <4>1. written[p][s] + 1 \in Nat
        BY <1>0 DEF TypeOK
      <4> QED BY <1>0, <3>2, <4>1, Messages, QuietMessages, EmitSettles
    <3> QED BY <1>1, <3>1, <3>2 DEF Write, HasCredit
  <2>6. OpenOnce' /\ GrantChain' /\ FlowControl'
    BY <2>4, <2>5, <1>a, QuietOpens, QuietGrants
  <2>7. Fresh'
    BY <1>0, <2>1, <2>2 DEF Fresh
  <2>8. TrackedExists'
    BY <1>0, <2>1 DEF TrackedExists
  <2> QED BY <2>6, <2>7, <2>8, <1>a DEF IInv
<1>2. ASSUME NEW s \in Stream, End(p, s) \/ Close(p, s) \/ Cancel(p, s)
      PROVE  IInv'
  <2>1. UNCHANGED <<sendSeq, sendCredits, recvCredits>>
    BY <1>2 DEF End, Close, Cancel, ForgetClosed, flow
  <2>2. \A q \in Peer, r \in Stream :
          /\ state'[q][r] = "NONE" <=> state[q][r] = "NONE"
    <3>1. CASE state' = state
      BY <3>1
    <3>2. CASE /\ state[p][s] # "NONE"
               /\ \/ SetState(p, s, "CLOSED")
                  \/ SetState(p, s, AfterEnd(state[p][s]))
      <4>1. PICK st : st # "NONE" /\ state' = [state EXCEPT ![p][s] = st]
        BY <3>2 DEF SetState, AfterEnd
      <4>2. state \in [Peer -> [Stream -> StreamState]]
        BY <1>0 DEF TypeOK
      <4>3. \A q \in Peer, r \in Stream :
              state'[q][r] = IF q = p /\ r = s THEN st ELSE state[q][r]
        BY <4>1, <4>2, FieldRead
      <4> QED BY <3>2, <4>1, <4>3
    <3>3. s \in tracked[p] => state[p][s] # "NONE"
      BY <1>0 DEF TrackedExists
    <3> QED BY <1>2, <3>1, <3>2, <3>3 DEF End, Close, Cancel, ForgetClosed
  <2>3. \A q \in Peer : tracked'[q] \subseteq tracked[q]
    <3>1. tracked' = tracked \/ tracked' = [tracked EXCEPT ![p] = tracked[p] \ {s}]
      BY <1>2 DEF End, Close, Cancel, ForgetClosed
    <3> QED BY <1>0, <3>1, MapShrinks
  <2>4. \A q \in Peer : Settled(q, 0) \/ Settled(q, 1)
    <3>1. CASE chan' = chan
      BY <1>0, <3>1, UnchangedSettles
    <3>2. CASE Emit(p, <<EndMsg(s)>>)
      BY <1>0, <3>2, Messages, QuietMessages, EmitSettles
    <3>3. CASE Emit(p, <<ErrorMsg(s)>>)
      BY <1>0, <3>3, Messages, QuietMessages, EmitSettles
    <3> QED BY <1>2, <3>1, <3>2, <3>3 DEF End, Close, Cancel, ForgetClosed
  <2>5. NoCreditMoves /\ NoneCreated
    BY <2>1, <2>2 DEF NoCreditMoves, NoneCreated
  <2>6. OpenOnce' /\ GrantChain' /\ FlowControl'
    BY <2>4, <2>5, <1>a, QuietOpens, QuietGrants
  <2>7. Fresh'
    BY <1>0, <2>1, <2>2 DEF Fresh
  <2>8. TrackedExists'
    BY <1>0, <2>2, <2>3 DEF TrackedExists, TypeOK
  <2> QED BY <2>6, <2>7, <2>8, <1>a DEF IInv
<1>3. CASE CloseAll(p) \/ Reload(p)
  <2>1. UNCHANGED <<sendSeq, sendCredits, recvCredits>>
    BY <1>3 DEF CloseAll, Reload
  <2>2. \A q \in Peer, r \in Stream :
          /\ state'[q][r] = "NONE" <=> state[q][r] = "NONE"
    <3>1. CASE CloseAll(p)
      BY <1>0, <3>1 DEF CloseAll, TypeOK, TrackedExists
    <3>2. CASE Reload(p)
      BY <3>2 DEF Reload
    <3> QED BY <1>3, <3>1, <3>2
  <2>3. \A q \in Peer : tracked'[q] \subseteq tracked[q]
    BY <1>0, <1>3 DEF CloseAll, Reload, TypeOK
  <2>4. \A q \in Peer : Settled(q, 0) \/ Settled(q, 1)
    <3>1. CASE Reload(p)
      BY <1>0, <3>1, UnchangedSettles DEF Reload
    <3>2. CASE CloseAll(p)
      <4>1. PICK order \in Orderings(Active(p)) :
              Emit(p, [i \in 1..Cardinality(Active(p)) |-> ErrorMsg(order[i])])
        BY <3>2 DEF CloseAll
      <4> QED BY <1>0, <4>1, CloseAllMessages, EmitSettles
    <3> QED BY <1>3, <3>1, <3>2
  <2>5. NoCreditMoves /\ NoneCreated
    BY <2>1, <2>2 DEF NoCreditMoves, NoneCreated
  <2>6. OpenOnce' /\ GrantChain' /\ FlowControl'
    BY <2>4, <2>5, <1>a, QuietOpens, QuietGrants
  <2>7. Fresh'
    BY <1>0, <2>1, <2>2 DEF Fresh
  <2>8. TrackedExists'
    BY <1>0, <2>2, <2>3 DEF TrackedExists, TypeOK
  <2> QED BY <2>6, <2>7, <2>8, <1>a DEF IInv
<1> QED BY <1>a, <1>1, <1>2, <1>3

(* So does dispatching data, an end, an error, a message for an unknown    *)
(* stream, or a STREAM_OPEN that is refused.                               *)
LEMMA DeliverQuiet ==
  ASSUME NEW p \in Peer
  PROVE  /\ IInv
         /\ TypeOK'
         /\ \/ RecvOpen(p) /\ UNCHANGED <<state, tracked, flow>>
            \/ RecvUnknown(p)
            \/ RecvData(p)
            \/ RecvEnd(p)
            \/ RecvError(p)
         => IInv'
<1>a. SUFFICES ASSUME IInv, TypeOK',
                      \/ RecvOpen(p) /\ UNCHANGED <<state, tracked, flow>>
                      \/ RecvUnknown(p)
                      \/ RecvData(p)
                      \/ RecvEnd(p)
                      \/ RecvError(p)
               PROVE  IInv'
  OBVIOUS
<1>0. TypeOK /\ Fresh /\ TrackedExists
  BY <1>a DEF IInv
<1> DEFINE s == Head(chan[p]).s
<1>1. chan[p] # <<>>
  BY <1>a DEF RecvOpen, RecvUnknown, RecvData, RecvEnd, RecvError, Incoming
<1>2. s \in Stream
  BY <1>0, <1>1, HeadMessage
<1>3. UNCHANGED <<sendSeq, sendCredits, recvCredits>>
  BY <1>a DEF RecvOpen, RecvUnknown, RecvData, RecvEnd, RecvError, flow
<1>4. Reply(p, <<>>) \/ Reply(p, <<ErrorMsg(s)>>)
  BY <1>a DEF RecvOpen, RecvUnknown, RecvData, RecvEnd, RecvError
<1>5. \/ state' = state /\ tracked' = tracked
      \/ /\ s \in tracked[p]
         /\ \E st \in {"HALF_CLOSED_REMOTE", "CLOSED"} : state' = [state EXCEPT ![p][s] = st]
         /\ tracked' = tracked \/ tracked' = [tracked EXCEPT ![p] = @ \ {s}]
  BY <1>a DEF RecvOpen, RecvUnknown, RecvData, RecvEnd, RecvError, ForgetClosed, AfterRecvEnd, SetState
<1> HIDE DEF s
<1>6. \A q \in Peer, r \in Stream : state'[q][r] = "NONE" <=> state[q][r] = "NONE"
  <2>1. CASE state' = state
    BY <2>1
  <2>2. ASSUME s \in tracked[p], NEW st \in {"HALF_CLOSED_REMOTE", "CLOSED"},
               state' = [state EXCEPT ![p][s] = st]
        PROVE  \A q \in Peer, r \in Stream : state'[q][r] = "NONE" <=> state[q][r] = "NONE"
    <3>1. state[p][s] # "NONE"
      BY <1>0, <2>2 DEF TrackedExists
    <3>2. state \in [Peer -> [Stream -> StreamState]]
      BY <1>0 DEF TypeOK
    <3>3. \A q \in Peer, r \in Stream :
            state'[q][r] = IF q = p /\ r = s THEN st ELSE state[q][r]
      BY <1>2, <2>2, <3>2, FieldRead
    <3> QED BY <2>2, <3>1, <3>3
  <2> QED BY <1>5, <2>1, <2>2
<1>7. \A q \in Peer : tracked'[q] \subseteq tracked[q]
  BY <1>0, <1>5, MapShrinks
<1>8. \A q \in Peer : Settled(q, 0) \/ Settled(q, 1)
  <2>1. CASE Reply(p, <<>>)
    <3>1. <<>> \in Seq(Message) /\ \A k \in DOMAIN <<>> : <<>>[k].t \notin {"OPEN", "WINDOW"}
      OBVIOUS
    <3> QED BY <1>0, <1>1, <2>1, <3>1, ReplySettles
  <2>2. CASE Reply(p, <<ErrorMsg(s)>>)
    BY <1>0, <1>1, <1>2, <2>2, Messages, QuietMessages, ReplySettles
  <2> QED BY <1>4, <2>1, <2>2
<1>9. NoCreditMoves /\ NoneCreated
  BY <1>3, <1>6 DEF NoCreditMoves, NoneCreated
<1>10. OpenOnce' /\ GrantChain' /\ FlowControl'
  BY <1>8, <1>9, <1>a, QuietOpens, QuietGrants
<1>11. Fresh'
  BY <1>0, <1>3, <1>6 DEF Fresh
<1>12. TrackedExists'
  BY <1>0, <1>6, <1>7 DEF TrackedExists, TypeOK
<1> QED BY <1>10, <1>11, <1>12, <1>a DEF IInv

(* One emitted message ends up last on the other end's wire. *)
LEMMA EmitOne ==
  ASSUME TypeOK, NEW p \in Peer, NEW m, <<m>> \in Seq(Message), Emit(p, <<m>>)
  PROVE  /\ chan'[p] = chan[p]
         /\ \A i \in DOMAIN chan'[Other(p)] :
              \/ i \in DOMAIN chan[Other(p)] /\ chan'[Other(p)][i] = chan[Other(p)][i]
              \/ /\ chan'[Other(p)][i] = m
                 /\ i = Len(chan[Other(p)]) + 1
<1> DEFINE ms == <<m>>
<1>1. Other(p) \in Peer
  BY OtherPeer
<1>2. Len(chan[Other(p)]) \in Nat
  BY <1>1 DEF TypeOK
<1>3. ms \in Seq(Message) /\ Emit(p, ms) /\ DOMAIN ms = {1} /\ ms[1] = m
  OBVIOUS
<1> HIDE DEF ms
<1>4. /\ chan' \in [Peer -> Seq(Message)]
      /\ chan'[p] = chan[p]
      /\ \A i \in DOMAIN chan'[Other(p)] :
           \/ /\ i \in DOMAIN chan[Other(p)]
              /\ chan'[Other(p)][i] = chan[Other(p)][i]
           \/ /\ i - Len(chan[Other(p)]) \in DOMAIN ms
              /\ chan'[Other(p)][i] = ms[i - Len(chan[Other(p)])]
  BY <1>3, EmitWire
<1>5. \A i \in DOMAIN chan'[Other(p)] : i \in Nat
  BY <1>1, <1>4
<1>6. \A i \in Nat : i - Len(chan[Other(p)]) = 1 => i = Len(chan[Other(p)]) + 1
  BY <1>2
<1> QED BY <1>3, <1>4, <1>5, <1>6

(* open(): the identifier is fresh, so the STREAM_OPEN is the only one of  *)
(* its stream, and no grant for it can be under way.                       *)
LEMMA OpenStep ==
  ASSUME NEW p \in Peer, NEW s \in Stream
  PROVE  IInv /\ TypeOK' /\ Open(p, s) => IInv'
<1>a. SUFFICES ASSUME IInv, TypeOK', Open(p, s) PROVE IInv'
  OBVIOUS
<1>0. TypeOK /\ Fresh /\ TrackedExists /\ OpenOnce /\ GrantChain /\ FlowControl
  BY <1>a DEF IInv
<1>p. Other(p) \in Peer /\ Other(p) # p /\ Other(Other(p)) = p
  BY OtherPeer
<1>1. UNCHANGED <<sendSeq, sendCredits, recvCredits>>
  BY <1>a DEF Open, flow
<1>2. \A q \in Peer, r \in Stream :
        state'[q][r] = IF q = p /\ r = s THEN "OPEN" ELSE state[q][r]
  <2>1. state \in [Peer -> [Stream -> StreamState]] /\ state' = [state EXCEPT ![p][s] = "OPEN"]
    BY <1>0, <1>a DEF TypeOK, Open, SetState
  <2> QED BY <2>1, FieldRead
<1>3. \A q \in Peer : state[q][s] = "NONE"
  BY <1>a DEF Open
<1>4. DOMAIN chan[p] \subseteq Nat /\ DOMAIN chan[Other(p)] \subseteq Nat
  BY <1>0, <1>p, SMTT(30) DEF TypeOK
<1>5. /\ chan'[p] = chan[p]
      /\ \A i \in DOMAIN chan'[Other(p)] :
           \/ i \in DOMAIN chan[Other(p)] /\ chan'[Other(p)][i] = chan[Other(p)][i]
           \/ /\ chan'[Other(p)][i] = OpenMsg(s, InitialCredits)
              /\ i = Len(chan[Other(p)]) + 1
  <2>1. <<OpenMsg(s, InitialCredits)>> \in Seq(Message)
    BY Messages, StreamMuxAssumption
  <2>2. Emit(p, <<OpenMsg(s, InitialCredits)>>)
    BY <1>a DEF Open
  <2> QED BY <1>0, <2>1, <2>2, EmitOne
<1>6. /\ \A q \in Peer : \A i \in DOMAIN chan[q] : chan[q][i].s \in Stream
      /\ \A q \in Peer : \A i \in DOMAIN chan'[q] : chan'[q][i].s \in Stream
  <2>1. chan \in [Peer -> Seq(Message)] /\ chan' \in [Peer -> Seq(Message)]
    BY <1>0, <1>a DEF TypeOK
  <2>2. /\ \A q \in Peer : \A i \in DOMAIN chan[q] : chan[q][i] \in Message
        /\ \A q \in Peer : \A i \in DOMAIN chan'[q] : chan'[q][i] \in Message
    BY <2>1
  <2> QED BY <2>2 DEF Message
<1>7. OpenMsg(s, InitialCredits).t = "OPEN" /\ OpenMsg(s, InitialCredits).s = s
      /\ OpenMsg(s, InitialCredits).n = InitialCredits
  BY DEF OpenMsg
<1>8. FlowControl'
  BY <1>0, <1>1 DEF FlowControl
<1>9. Fresh'
  BY <1>0, <1>1, <1>2 DEF Fresh
<1>10. TrackedExists'
  <2>1. tracked \in [Peer -> SUBSET Stream] /\ tracked' = [tracked EXCEPT ![p] = tracked[p] \cup {s}]
    BY <1>0, <1>a DEF TypeOK, Open
  <2>2. \A q \in Peer : \A r \in tracked'[q] : r \in Stream /\ (r \in tracked[q] \/ (q = p /\ r = s))
    BY <2>1
  <2> QED BY <1>0, <1>2, <2>2 DEF TrackedExists
<1>11. OpenOnce'
  <2>1. ASSUME NEW i \in DOMAIN chan'[p], chan'[p][i].t = "OPEN"
        PROVE  /\ chan'[p][i].n = InitialCredits
               /\ state'[p][chan'[p][i].s] = "NONE"
               /\ state'[Other(p)][chan'[p][i].s] # "NONE"
               /\ \A j \in DOMAIN chan'[p] :
                    chan'[p][j].t = "OPEN" /\ chan'[p][j].s = chan'[p][i].s => j = i
    <3>1. chan[p][i].s # s
      BY <1>0, <1>3, <1>5, <1>p, <2>1 DEF OpenOnce
    <3> QED BY <1>0, <1>2, <1>5, <1>6, <1>p, <2>1, <3>1 DEF OpenOnce
  <2>2. ASSUME NEW i \in DOMAIN chan'[Other(p)], chan'[Other(p)][i].t = "OPEN"
        PROVE  /\ chan'[Other(p)][i].n = InitialCredits
               /\ state'[Other(p)][chan'[Other(p)][i].s] = "NONE"
               /\ state'[p][chan'[Other(p)][i].s] # "NONE"
               /\ \A j \in DOMAIN chan'[Other(p)] :
                    chan'[Other(p)][j].t = "OPEN" /\ chan'[Other(p)][j].s = chan'[Other(p)][i].s => j = i
    <3>1. \A j \in DOMAIN chan[Other(p)] : chan[Other(p)][j].t = "OPEN" => chan[Other(p)][j].s # s
      BY <1>0, <1>3, <1>p DEF OpenOnce
    <3>2. CASE i \in DOMAIN chan[Other(p)] /\ chan'[Other(p)][i] = chan[Other(p)][i]
      BY <1>0, <1>2, <1>5, <1>6, <1>7, <1>p, <2>2, <3>1, <3>2 DEF OpenOnce
    <3>3. CASE chan'[Other(p)][i] = OpenMsg(s, InitialCredits) /\ i = Len(chan[Other(p)]) + 1
      BY <1>2, <1>3, <1>5, <1>7, <1>p, <3>1, <3>3
    <3> QED BY <1>5, <3>2, <3>3
  <2> QED BY <1>p, <2>1, <2>2, TwoPeers DEF OpenOnce
<1>12. GrantChain'
  <2>1. \A q \in Peer : \A i \in DOMAIN chan'[q] :
          chan'[q][i].t = "WINDOW" => i \in DOMAIN chan[q] /\ chan'[q][i] = chan[q][i]
    <3>1. \A i \in DOMAIN chan'[Other(p)] :
            chan'[Other(p)][i].t = "WINDOW" =>
              i \in DOMAIN chan[Other(p)] /\ chan'[Other(p)][i] = chan[Other(p)][i]
      BY <1>5, <1>7
    <3> QED BY <1>5, <3>1, TwoPeers
  <2> QED BY <1>0, <1>1, <2>1 DEF GrantChain, Budget
<1> QED BY <1>a, <1>8, <1>9, <1>10, <1>11, <1>12 DEF IInv

(* grantCredits(): the new grant starts where the last one ended. *)
LEMMA GrantStep ==
  ASSUME NEW p \in Peer, NEW s \in Stream, NEW n \in 1..MaxCredits
  PROVE  IInv /\ TypeOK' /\ GrantCredits(p, s, n) => IInv'
<1>a. SUFFICES ASSUME IInv, TypeOK', GrantCredits(p, s, n) PROVE IInv'
  OBVIOUS
<1>0. TypeOK /\ Fresh /\ TrackedExists /\ OpenOnce /\ GrantChain /\ FlowControl
  BY <1>a DEF IInv
<1>p. Other(p) \in Peer /\ Other(p) # p /\ Other(Other(p)) = p
  BY OtherPeer
<1>1. UNCHANGED <<state, tracked, sendSeq, sendCredits>>
  BY <1>a DEF GrantCredits
<1>n. n \in Nat /\ MaxCredits \in Nat
  BY StreamMuxAssumption
<1>r. \A q \in Peer, r \in Stream :
        recvCredits[q][r] \in Nat /\ sendSeq[q][r] \in Nat /\ sendCredits[q][r] \in Nat
  BY <1>0 DEF TypeOK
<1>2. \A q \in Peer, r \in Stream :
        recvCredits'[q][r] = IF q = p /\ r = s THEN recvCredits[p][s] + n ELSE recvCredits[q][r]
  <2>1. /\ recvCredits \in [Peer -> [Stream -> Nat]]
        /\ recvCredits' = [recvCredits EXCEPT ![p][s] = recvCredits[p][s] + n]
    BY <1>0, <1>a DEF TypeOK, GrantCredits
  <2> QED BY <2>1, FieldRead
<1>u. recvCredits[p][s] + n \in Nat
  BY <1>n, <1>r
<1>5. /\ chan'[p] = chan[p]
      /\ \A i \in DOMAIN chan'[Other(p)] :
           \/ i \in DOMAIN chan[Other(p)] /\ chan'[Other(p)][i] = chan[Other(p)][i]
           \/ /\ chan'[Other(p)][i] = WindowMsg(s, n, recvCredits[p][s] + n)
              /\ i = Len(chan[Other(p)]) + 1
  <2>1. <<WindowMsg(s, n, recvCredits[p][s] + n)>> \in Seq(Message)
    BY <1>n, <1>u, Messages
  <2>2. Emit(p, <<WindowMsg(s, n, recvCredits[p][s] + n)>>)
    BY <1>a DEF GrantCredits
  <2> QED BY <1>0, <2>1, <2>2, EmitOne
<1>6. \A q \in Peer : \A i \in DOMAIN chan[q] :
        chan[q][i].s \in Stream /\ chan[q][i].n \in Nat /\ chan[q][i].upto \in Nat
  <2>1. chan \in [Peer -> Seq(Message)]
    BY <1>0 DEF TypeOK
  <2>2. \A q \in Peer : \A i \in DOMAIN chan[q] : chan[q][i] \in Message
    BY <2>1
  <2> QED BY <2>2 DEF Message
<1>d. /\ \A i \in DOMAIN chan[Other(p)] : i \in Nat /\ i <= Len(chan[Other(p)])
      /\ Len(chan[Other(p)]) \in Nat
  <2>1. chan[Other(p)] \in Seq(Message)
    BY <1>0, <1>p DEF TypeOK
  <2> QED BY <2>1
<1>7. /\ WindowMsg(s, n, recvCredits[p][s] + n).t = "WINDOW"
      /\ WindowMsg(s, n, recvCredits[p][s] + n).s = s
      /\ WindowMsg(s, n, recvCredits[p][s] + n).n = n
      /\ WindowMsg(s, n, recvCredits[p][s] + n).upto = recvCredits[p][s] + n
  BY DEF WindowMsg
<1>8. FlowControl'
  <2>1. recvCredits[p][s] + n <= MaxCredits
    BY <1>a DEF GrantCredits
  <2>2. ASSUME NEW q \in Peer, NEW r \in Stream
        PROVE  /\ sendSeq[q][r] + sendCredits[q][r] <= recvCredits'[Other(q)][r]
               /\ recvCredits'[Other(q)][r] <= MaxCredits
    <3>1. /\ sendSeq[q][r] + sendCredits[q][r] <= recvCredits[Other(q)][r]
          /\ recvCredits[Other(q)][r] <= MaxCredits
          /\ Other(q) \in Peer
      BY <1>0, OtherPeer DEF FlowControl
    <3>2. recvCredits'[Other(q)][r] \in {recvCredits[Other(q)][r], recvCredits[p][s] + n}
      BY <1>2, <3>1
    <3>3. recvCredits[Other(q)][r] <= recvCredits'[Other(q)][r]
      BY <1>2, <1>n, <1>r, <3>1
    <3>4. sendSeq[q][r] + sendCredits[q][r] \in Nat
      BY <1>r
    <3> QED BY <1>n, <1>r, <2>1, <3>1, <3>2, <3>3, <3>4
  <2> QED BY <1>1, <2>2 DEF FlowControl
<1>9. Fresh'
  <2>1. state[p][s] # "NONE"
    BY <1>a DEF GrantCredits
  <2> QED BY <1>0, <1>1, <1>2, <2>1 DEF Fresh
<1>10. TrackedExists'
  BY <1>0, <1>1 DEF TrackedExists
<1>11. OpenOnce'
  <2>1. \A q \in Peer : \A i \in DOMAIN chan'[q] :
          chan'[q][i].t = "OPEN" => i \in DOMAIN chan[q] /\ chan'[q][i] = chan[q][i]
    <3>1. \A i \in DOMAIN chan'[Other(p)] :
            chan'[Other(p)][i].t = "OPEN" =>
              i \in DOMAIN chan[Other(p)] /\ chan'[Other(p)][i] = chan[Other(p)][i]
      BY <1>5, <1>7
    <3> QED BY <1>5, <3>1, TwoPeers
  <2> QED BY <1>0, <1>1, <2>1 DEF OpenOnce
<1>12. GrantChain'
  <2>1. ASSUME NEW i \in DOMAIN chan'[p], chan'[p][i].t = "WINDOW"
        PROVE  /\ sendSeq[p][chan'[p][i].s] + sendCredits[p][chan'[p][i].s] + chan'[p][i].n <= chan'[p][i].upto
               /\ chan'[p][i].upto <= recvCredits'[Other(p)][chan'[p][i].s]
               /\ \A j \in DOMAIN chan'[p] :
                    i < j /\ chan'[p][j].t = "WINDOW" /\ chan'[p][j].s = chan'[p][i].s =>
                      chan'[p][i].upto + chan'[p][j].n <= chan'[p][j].upto
    BY <1>0, <1>2, <1>5, <1>6, <1>p, <2>1 DEF GrantChain, Budget
  <2>2. ASSUME NEW i \in DOMAIN chan'[Other(p)], chan'[Other(p)][i].t = "WINDOW"
        PROVE  /\ sendSeq[Other(p)][chan'[Other(p)][i].s] + sendCredits[Other(p)][chan'[Other(p)][i].s]
                    + chan'[Other(p)][i].n <= chan'[Other(p)][i].upto
               /\ chan'[Other(p)][i].upto <= recvCredits'[p][chan'[Other(p)][i].s]
               /\ \A j \in DOMAIN chan'[Other(p)] :
                    i < j /\ chan'[Other(p)][j].t = "WINDOW" /\ chan'[Other(p)][j].s = chan'[Other(p)][i].s =>
                      chan'[Other(p)][i].upto + chan'[Other(p)][j].n <= chan'[Other(p)][j].upto
    <3> DEFINE c == chan'[Other(p)]
    <3>1. CASE i \in DOMAIN chan[Other(p)] /\ c[i] = chan[Other(p)][i]
      <4>1. /\ sendSeq[Other(p)][c[i].s] + sendCredits[Other(p)][c[i].s] + c[i].n <= c[i].upto
            /\ c[i].upto <= recvCredits[p][c[i].s]
            /\ c[i].s \in Stream /\ c[i].upto \in Nat
        BY <1>0, <1>6, <1>p, <2>2, <3>1 DEF GrantChain, Budget
      <4>2. c[i].upto <= recvCredits'[p][c[i].s]
        BY <1>2, <1>n, <1>r, <4>1
      <4>3. ASSUME NEW j \in DOMAIN c, i < j, c[j].t = "WINDOW", c[j].s = c[i].s
            PROVE  c[i].upto + c[j].n <= c[j].upto
        <5>1. CASE j \in DOMAIN chan[Other(p)] /\ c[j] = chan[Other(p)][j]
          BY <1>0, <1>p, <2>2, <3>1, <4>3, <5>1 DEF GrantChain
        <5>2. CASE c[j] = WindowMsg(s, n, recvCredits[p][s] + n)
          BY <1>7, <1>n, <1>r, <4>1, <4>3, <5>2
        <5> QED BY <1>5, <5>1, <5>2
      <4> QED BY <4>1, <4>2, <4>3
    <3>2. CASE c[i] = WindowMsg(s, n, recvCredits[p][s] + n) /\ i = Len(chan[Other(p)]) + 1
      <4>1. sendSeq[Other(p)][s] + sendCredits[Other(p)][s] <= recvCredits[p][s]
        BY <1>0, <1>p DEF FlowControl
      <4>2. \A j \in DOMAIN c : ~ (i < j)
        BY <1>5, <1>d, <3>2
      <4>3. recvCredits'[p][s] = recvCredits[p][s] + n
        BY <1>2
      <4>4. c[i].s = s /\ c[i].n = n /\ c[i].upto = recvCredits[p][s] + n
        BY <1>7, <3>2
      <4>5. /\ sendSeq[Other(p)][s] + sendCredits[Other(p)][s] + n <= recvCredits[p][s] + n
            /\ recvCredits[p][s] + n <= recvCredits[p][s] + n
        BY <1>n, <1>p, <1>r, <4>1
      <4> QED BY <4>2, <4>3, <4>4, <4>5
    <3> QED BY <1>5, <3>1, <3>2
  <2> QED BY <1>1, <1>p, <2>1, <2>2, TwoPeers DEF GrantChain, Budget
<1> QED BY <1>a, <1>8, <1>9, <1>10, <1>11, <1>12 DEF IInv

(* A STREAM_OPEN that is accepted: it was the stream's only one, and the   *)
(* credits it brings are the ones the constructor would have set.          *)
LEMMA AcceptStep ==
  ASSUME NEW p \in Peer
  PROVE  IInv /\ TypeOK' /\ RecvOpen(p) => IInv'
<1>a. SUFFICES ASSUME IInv, TypeOK', RecvOpen(p), ~ UNCHANGED <<state, tracked, flow>>
               PROVE  IInv'
  BY DeliverQuiet
<1>0. TypeOK /\ Fresh /\ TrackedExists /\ OpenOnce /\ GrantChain /\ FlowControl
  BY <1>a DEF IInv
<1>p. Other(p) \in Peer /\ Other(p) # p /\ Other(Other(p)) = p
  BY OtherPeer
<1> DEFINE s == Head(chan[p]).s
           n == Head(chan[p]).n
<1>1. chan[p] # <<>> /\ Head(chan[p]).t = "OPEN"
  BY <1>a DEF RecvOpen, Incoming
<1>2. s \in Stream /\ 1 \in DOMAIN chan[p] /\ Head(chan[p]) = chan[p][1]
  BY <1>0, <1>1, HeadMessage
<1>3. state[p][s] = "NONE" /\ n = InitialCredits
  BY <1>0, <1>1, <1>2 DEF OpenOnce
<1>4. /\ state' = [state EXCEPT ![p][s] = "OPEN"]
      /\ tracked' = [tracked EXCEPT ![p] = tracked[p] \cup {s}]
      /\ sendCredits' = [sendCredits EXCEPT ![p][s] = n]
      /\ recvCredits' = [recvCredits EXCEPT ![p][s] = n]
      /\ Reply(p, <<>>)
      /\ UNCHANGED <<sendSeq, sendQueue, written, delivered>>
  BY <1>a DEF RecvOpen, SetState
<1>5. \A i \in DOMAIN chan[p] : chan[p][i].t = "OPEN" /\ chan[p][i].s = s => i = 1
  BY <1>0, <1>1, <1>2 DEF OpenOnce
<1> HIDE DEF s, n
<1>6. \A q \in Peer, r \in Stream :
        state'[q][r] = IF q = p /\ r = s THEN "OPEN" ELSE state[q][r]
  <2>1. state \in [Peer -> [Stream -> StreamState]]
    BY <1>0 DEF TypeOK
  <2> QED BY <1>2, <1>4, <2>1, FieldRead
<1>7. \A q \in Peer, r \in Stream :
        sendCredits'[q][r] = sendCredits[q][r] /\ recvCredits'[q][r] = recvCredits[q][r]
  <2>1. sendCredits \in [Peer -> [Stream -> Nat]] /\ recvCredits \in [Peer -> [Stream -> Nat]]
    BY <1>0 DEF TypeOK
  <2>2. sendCredits[p][s] = InitialCredits /\ recvCredits[p][s] = InitialCredits
    BY <1>0, <1>2, <1>3 DEF Fresh
  <2>3. /\ \A q \in Peer, r \in Stream :
             sendCredits'[q][r] = IF q = p /\ r = s THEN n ELSE sendCredits[q][r]
        /\ \A q \in Peer, r \in Stream :
             recvCredits'[q][r] = IF q = p /\ r = s THEN n ELSE recvCredits[q][r]
    BY <1>2, <1>4, <2>1, FieldRead
  <2> QED BY <1>3, <2>2, <2>3
<1>8. /\ \A i \in DOMAIN chan'[p] :
           i \in Nat /\ i + 1 \in DOMAIN chan[p] /\ i + 1 > 1 /\ chan'[p][i] = chan[p][i + 1]
      /\ \A i \in DOMAIN chan'[Other(p)] :
           i \in DOMAIN chan[Other(p)] /\ chan'[Other(p)][i] = chan[Other(p)][i]
  <2> DEFINE none == <<>>
  <2>1. none \in Seq(Message) /\ DOMAIN none = {}
    OBVIOUS
  <2>2. Reply(p, none)
    BY <1>4
  <2> HIDE DEF none
  <2>3. /\ \A i \in DOMAIN chan'[p] :
             /\ i + 1 \in DOMAIN chan[p]
             /\ i + 1 > 1
             /\ i \in Nat
             /\ chan'[p][i] = chan[p][i + 1]
        /\ \A i \in DOMAIN chan'[Other(p)] :
             \/ /\ i \in DOMAIN chan[Other(p)]
                /\ chan'[Other(p)][i] = chan[Other(p)][i]
             \/ i - Len(chan[Other(p)]) \in DOMAIN none
    BY <1>0, <1>1, <2>1, <2>2, ReplyWire
  <2> QED BY <2>1, <2>3
<1>9. \A q \in Peer : \A i \in DOMAIN chan[q] : chan[q][i].s \in Stream
  <2>1. chan \in [Peer -> Seq(Message)]
    BY <1>0 DEF TypeOK
  <2>2. \A q \in Peer : \A i \in DOMAIN chan[q] : chan[q][i] \in Message
    BY <2>1
  <2> QED BY <2>2 DEF Message
<1>10. GrantChain' /\ FlowControl'
  <2>1. NoCreditMoves
    BY <1>4, <1>7 DEF NoCreditMoves
  <2>2. \A q \in Peer : Settled(q, 0) \/ Settled(q, 1)
    <3>1. <<>> \in Seq(Message) /\ \A k \in DOMAIN <<>> : <<>>[k].t \notin {"OPEN", "WINDOW"}
      OBVIOUS
    <3> QED BY <1>0, <1>1, <1>4, <3>1, ReplySettles
  <2> QED BY <1>a, <2>1, <2>2, QuietGrants
<1>11. Fresh'
  BY <1>0, <1>4, <1>6, <1>7 DEF Fresh
<1>12. TrackedExists'
  <2>1. tracked \in [Peer -> SUBSET Stream]
    BY <1>0 DEF TypeOK
  <2>2. \A q \in Peer : \A r \in tracked'[q] : r \in Stream /\ (r \in tracked[q] \/ (q = p /\ r = s))
    BY <1>2, <1>4, <2>1
  <2> QED BY <1>0, <1>6, <2>2 DEF TrackedExists
<1>13. OpenOnce'
  <2>1. ASSUME NEW i \in DOMAIN chan'[p], chan'[p][i].t = "OPEN"
        PROVE  /\ chan'[p][i].n = InitialCredits
               /\ state'[p][chan'[p][i].s] = "NONE"
               /\ state'[Other(p)][chan'[p][i].s] # "NONE"
               /\ \A j \in DOMAIN chan'[p] :
                    chan'[p][j].t = "OPEN" /\ chan'[p][j].s = chan'[p][i].s => j = i
    <3>1. /\ i + 1 \in DOMAIN chan[p]
          /\ chan'[p][i] = chan[p][i + 1]
          /\ chan'[p][i].s # s
          /\ chan'[p][i].s \in Stream
      BY <1>5, <1>8, <1>9, <2>1
    <3>2. /\ chan[p][i + 1].n = InitialCredits
          /\ state[p][chan[p][i + 1].s] = "NONE"
          /\ state[Other(p)][chan[p][i + 1].s] # "NONE"
          /\ \A j \in DOMAIN chan[p] :
               chan[p][j].t = "OPEN" /\ chan[p][j].s = chan[p][i + 1].s => j = i + 1
      BY <1>0, <2>1, <3>1 DEF OpenOnce
    <3>3. ASSUME NEW j \in DOMAIN chan'[p], chan'[p][j].t = "OPEN", chan'[p][j].s = chan'[p][i].s
          PROVE  j = i
      BY <1>8, <3>1, <3>2, <3>3
    <3> QED BY <1>6, <1>p, <3>1, <3>2, <3>3
  <2>2. ASSUME NEW i \in DOMAIN chan'[Other(p)], chan'[Other(p)][i].t = "OPEN"
        PROVE  /\ chan'[Other(p)][i].n = InitialCredits
               /\ state'[Other(p)][chan'[Other(p)][i].s] = "NONE"
               /\ state'[p][chan'[Other(p)][i].s] # "NONE"
               /\ \A j \in DOMAIN chan'[Other(p)] :
                    chan'[Other(p)][j].t = "OPEN" /\ chan'[Other(p)][j].s = chan'[Other(p)][i].s => j = i
    BY <1>0, <1>6, <1>8, <1>9, <1>p, <2>2 DEF OpenOnce
  <2> QED BY <1>p, <2>1, <2>2, TwoPeers DEF OpenOnce
<1> QED BY <1>a, <1>10, <1>11, <1>12, <1>13 DEF IInv

(* _receiveCredits(): the sender's budget rises to at most the end of the  *)
(* grant it consumes, so the later grants of the chain still fit.          *)
LEMMA CreditsStep ==
  ASSUME NEW p \in Peer
  PROVE  IInv /\ TypeOK' /\ RecvCredits(p) => IInv'
<1>a. SUFFICES ASSUME IInv, TypeOK', RecvCredits(p) PROVE IInv'
  OBVIOUS
<1>0. TypeOK /\ Fresh /\ TrackedExists /\ OpenOnce /\ GrantChain /\ FlowControl
  BY <1>a DEF IInv
<1>p. Other(p) \in Peer /\ Other(p) # p /\ Other(Other(p)) = p
  BY OtherPeer
<1> DEFINE s == Head(chan[p]).s
           credits == Clamp(sendCredits[p][s] + Head(chan[p]).n)
           queue == sendQueue[p][s]
           k == IF Len(queue) < credits THEN Len(queue) ELSE credits
           msgs == [i \in 1..k |-> DataMsg(s, queue[i])]
<1>1. chan[p] # <<>> /\ Head(chan[p]).t = "WINDOW" /\ s \in tracked[p]
  BY <1>a DEF RecvCredits, Incoming
<1>2. /\ s \in Stream /\ 1 \in DOMAIN chan[p] /\ Head(chan[p]) = chan[p][1]
      /\ chan[p][1].n \in Nat /\ chan[p][1].upto \in Nat
  BY <1>0, <1>1, HeadMessage
<1>3. state[p][s] # "NONE"
  BY <1>0, <1>1 DEF TrackedExists
<1>4. /\ sendCredits' = [sendCredits EXCEPT ![p][s] = credits - k]
      /\ sendSeq' = [sendSeq EXCEPT ![p][s] = sendSeq[p][s] + k]
      /\ Reply(p, msgs)
      /\ UNCHANGED <<state, tracked, recvCredits>>
  BY <1>a DEF RecvCredits
<1>5. /\ sendSeq[p][s] + sendCredits[p][s] + chan[p][1].n <= chan[p][1].upto
      /\ chan[p][1].upto <= recvCredits[Other(p)][s]
  BY <1>0, <1>1, <1>2 DEF GrantChain, Budget
<1>6. \A j \in DOMAIN chan[p] :
        1 < j /\ chan[p][j].t = "WINDOW" /\ chan[p][j].s = s =>
          chan[p][1].upto + chan[p][j].n <= chan[p][j].upto
  BY <1>0, <1>1, <1>2 DEF GrantChain
<1>n. \A q \in Peer, r \in Stream :
        recvCredits[q][r] \in Nat /\ sendSeq[q][r] \in Nat /\ sendCredits[q][r] \in Nat
  BY <1>0 DEF TypeOK
<1>7. /\ credits \in Nat /\ k \in Nat /\ k <= Len(queue)
      /\ credits <= sendCredits[p][s] + chan[p][1].n /\ queue \in Seq(Nat)
  <2>1. queue \in Seq(Nat) /\ MaxCredits \in Nat
    BY <1>0, <1>2, StreamMuxAssumption DEF TypeOK
  <2> HIDE DEF s
  <2>2. credits \in Nat /\ credits <= sendCredits[p][s] + chan[p][1].n
    BY <1>2, <1>n, <2>1 DEF Clamp
  <2>3. Len(queue) \in Nat
    BY <2>1
  <2> HIDE DEF credits, queue
  <2> QED BY <2>1, <2>2, <2>3
<1>8. msgs \in Seq(Message) /\ \A i \in DOMAIN msgs : msgs[i].t \notin {"OPEN", "WINDOW"}
  <2> HIDE DEF s, credits, queue, k
  <2>1. \A i \in 1..k : DataMsg(s, queue[i]) \in Message
    BY <1>2, <1>7 DEF DataMsg, Message
  <2>2. \A i \in 1..k : DataMsg(s, queue[i]).t \notin {"OPEN", "WINDOW"}
    BY DEF DataMsg
  <2> QED BY <1>7, <2>1, <2>2, SMTT(30)
<1> HIDE DEF s, credits, queue, k, msgs
<1>9. /\ \A i \in DOMAIN chan'[p] :
           /\ i \in Nat /\ i + 1 \in DOMAIN chan[p] /\ i + 1 > 1
           /\ chan'[p][i] = chan[p][i + 1]
      /\ \A i \in DOMAIN chan'[Other(p)] :
           chan'[Other(p)][i].t = "WINDOW" =>
             i \in DOMAIN chan[Other(p)] /\ chan'[Other(p)][i] = chan[Other(p)][i]
  BY <1>0, <1>1, <1>4, <1>8, ReplyWire
<1>10. \A q \in Peer, r \in Stream :
         sendSeq'[q][r] + sendCredits'[q][r] =
           IF q = p /\ r = s THEN sendSeq[p][s] + credits ELSE sendSeq[q][r] + sendCredits[q][r]
  <2>1. sendCredits \in [Peer -> [Stream -> Nat]] /\ sendSeq \in [Peer -> [Stream -> Nat]]
    BY <1>0 DEF TypeOK
  <2>2. /\ \A q \in Peer, r \in Stream :
             sendCredits'[q][r] = IF q = p /\ r = s THEN credits - k ELSE sendCredits[q][r]
        /\ \A q \in Peer, r \in Stream :
             sendSeq'[q][r] = IF q = p /\ r = s THEN sendSeq[p][s] + k ELSE sendSeq[q][r]
    BY <1>2, <1>4, <2>1, FieldRead
  <2>3. sendSeq[p][s] + k + (credits - k) = sendSeq[p][s] + credits
    BY <1>2, <1>7, <1>n
  <2> QED BY <2>2, <2>3
<1>11. sendSeq[p][s] + credits <= chan[p][1].upto
  BY <1>2, <1>5, <1>7, <1>n
<1>m. \A i \in DOMAIN chan[p] :
        chan[p][i].s \in Stream /\ chan[p][i].n \in Nat /\ chan[p][i].upto \in Nat
  <2>1. chan[p] \in Seq(Message)
    BY <1>0 DEF TypeOK
  <2>2. \A i \in DOMAIN chan[p] : chan[p][i] \in Message
    BY <2>1
  <2> QED BY <2>2 DEF Message
<1>o. \A i \in DOMAIN chan[Other(p)] : chan[Other(p)][i].s \in Stream
  <2>1. chan[Other(p)] \in Seq(Message)
    BY <1>0, <1>p DEF TypeOK
  <2>2. \A i \in DOMAIN chan[Other(p)] : chan[Other(p)][i] \in Message
    BY <2>1
  <2> QED BY <2>2 DEF Message
<1>12. FlowControl'
  <2>1. ASSUME NEW q \in Peer, NEW r \in Stream
        PROVE  /\ sendSeq'[q][r] + sendCredits'[q][r] <= recvCredits[Other(q)][r]
               /\ recvCredits[Other(q)][r] <= MaxCredits
    <3>1. CASE q = p /\ r = s
      <4>1. recvCredits[Other(p)][s] \in Nat /\ recvCredits[Other(p)][s] <= MaxCredits
        BY <1>0, <1>2, <1>n, <1>p DEF FlowControl
      <4>2. sendSeq'[q][r] + sendCredits'[q][r] = sendSeq[p][s] + credits
        BY <1>10, <3>1
      <4>3. sendSeq[p][s] + credits <= recvCredits[Other(p)][s]
        BY <1>2, <1>5, <1>7, <1>11, <1>n, <4>1
      <4> QED BY <3>1, <4>1, <4>2, <4>3
    <3>2. CASE ~ (q = p /\ r = s)
      BY <1>0, <1>10, <3>2 DEF FlowControl
    <3> QED BY <3>1, <3>2
  <2> QED BY <1>4, <2>1 DEF FlowControl
<1>13. GrantChain'
  <2>1. ASSUME NEW i \in DOMAIN chan'[p], chan'[p][i].t = "WINDOW"
        PROVE  /\ sendSeq'[p][chan'[p][i].s] + sendCredits'[p][chan'[p][i].s] + chan'[p][i].n <= chan'[p][i].upto
               /\ chan'[p][i].upto <= recvCredits[Other(p)][chan'[p][i].s]
               /\ \A j \in DOMAIN chan'[p] :
                    i < j /\ chan'[p][j].t = "WINDOW" /\ chan'[p][j].s = chan'[p][i].s =>
                      chan'[p][i].upto + chan'[p][j].n <= chan'[p][j].upto
    <3> DEFINE m == chan[p][i + 1]
    <3>1. i \in Nat /\ i + 1 \in DOMAIN chan[p] /\ i + 1 > 1 /\ chan'[p][i] = m
      BY <1>9
    <3>2. m.s \in Stream /\ m.n \in Nat /\ m.upto \in Nat /\ m.t = "WINDOW"
      BY <1>m, <2>1, <3>1
    <3>3. /\ sendSeq[p][m.s] + sendCredits[p][m.s] + m.n <= m.upto
          /\ m.upto <= recvCredits[Other(p)][m.s]
          /\ \A j \in DOMAIN chan[p] :
               i + 1 < j /\ chan[p][j].t = "WINDOW" /\ chan[p][j].s = m.s =>
                 m.upto + chan[p][j].n <= chan[p][j].upto
      BY <1>0, <3>1, <3>2 DEF GrantChain, Budget
    <3>4. sendSeq'[p][m.s] + sendCredits'[p][m.s] + m.n <= m.upto
      <4>1. CASE m.s = s
        <5>1. chan[p][1].upto + m.n <= m.upto
          BY <1>6, <3>1, <3>2, <4>1
        <5>2. sendSeq'[p][m.s] + sendCredits'[p][m.s] = sendSeq[p][s] + credits
          BY <1>10, <3>2, <4>1
        <5> QED BY <1>2, <1>7, <1>11, <1>n, <3>2, <5>1, <5>2, SMTT(30)
      <4>2. CASE m.s # s
        BY <1>10, <3>2, <3>3, <4>2
      <4> QED BY <4>1, <4>2
    <3>5. ASSUME NEW j \in DOMAIN chan'[p], i < j, chan'[p][j].t = "WINDOW", chan'[p][j].s = chan'[p][i].s
          PROVE  chan'[p][i].upto + chan'[p][j].n <= chan'[p][j].upto
      <4>1. j \in Nat /\ j + 1 \in DOMAIN chan[p] /\ chan'[p][j] = chan[p][j + 1]
        BY <1>9
      <4>2. i + 1 < j + 1
        BY <3>1, <3>5, <4>1
      <4> QED BY <3>1, <3>3, <3>5, <4>1, <4>2
    <3> QED BY <3>1, <3>3, <3>4, <3>5
  <2>2. ASSUME NEW i \in DOMAIN chan'[Other(p)], chan'[Other(p)][i].t = "WINDOW"
        PROVE  /\ sendSeq'[Other(p)][chan'[Other(p)][i].s] + sendCredits'[Other(p)][chan'[Other(p)][i].s]
                    + chan'[Other(p)][i].n <= chan'[Other(p)][i].upto
               /\ chan'[Other(p)][i].upto <= recvCredits[p][chan'[Other(p)][i].s]
               /\ \A j \in DOMAIN chan'[Other(p)] :
                    i < j /\ chan'[Other(p)][j].t = "WINDOW" /\ chan'[Other(p)][j].s = chan'[Other(p)][i].s =>
                      chan'[Other(p)][i].upto + chan'[Other(p)][j].n <= chan'[Other(p)][j].upto
    <3>1. i \in DOMAIN chan[Other(p)] /\ chan'[Other(p)][i] = chan[Other(p)][i]
      BY <1>9, <2>2
    <3>2. \A r \in Stream :
            sendSeq'[Other(p)][r] + sendCredits'[Other(p)][r] = sendSeq[Other(p)][r] + sendCredits[Other(p)][r]
      BY <1>10, <1>p
    <3> QED BY <1>0, <1>9, <1>o, <1>p, <2>2, <3>1, <3>2 DEF GrantChain, Budget
  <2> QED BY <1>4, <1>p, <2>1, <2>2, TwoPeers DEF GrantChain, Budget
<1>14. OpenOnce'
  <2>1. NoneCreated
    BY <1>4 DEF NoneCreated
  <2>2. \A q \in Peer : Settled(q, 0) \/ Settled(q, 1)
    BY <1>0, <1>1, <1>4, <1>8, ReplySettles
  <2> QED BY <1>a, <2>1, <2>2, QuietOpens
<1>15. Fresh'
  <2>1. ASSUME NEW q \in Peer, NEW r \in Stream, state[q][r] = "NONE"
        PROVE  sendSeq'[q][r] = 0 /\ sendCredits'[q][r] = InitialCredits
               /\ recvCredits[q][r] = InitialCredits
    <3>1. q # p \/ r # s
      BY <1>3, <2>1
    <3>2. sendCredits \in [Peer -> [Stream -> Nat]] /\ sendSeq \in [Peer -> [Stream -> Nat]]
      BY <1>0 DEF TypeOK
    <3>3. sendSeq'[q][r] = sendSeq[q][r] /\ sendCredits'[q][r] = sendCredits[q][r]
      BY <1>2, <1>4, <3>1, <3>2
    <3> QED BY <1>0, <2>1, <3>3 DEF Fresh
  <2> QED BY <1>4, <2>1 DEF Fresh
<1>16. TrackedExists'
  BY <1>0, <1>4 DEF TrackedExists
<1> QED BY <1>a, <1>12, <1>13, <1>14, <1>15, <1>16 DEF IInv

(* The inductive invariant holds initially ... *)
LEMMA IInvInit == Init => IInv
<1> USE StreamMuxAssumption
<1>1. SUFFICES ASSUME Init PROVE IInv
  OBVIOUS
<1>2. TypeOK
  BY <1>1 DEF Init, TypeOK, StreamState
<1>3. \A p \in Peer : DOMAIN chan[p] = {}
  BY <1>1 DEF Init
<1>4. Fresh /\ TrackedExists
  BY <1>1 DEF Init, Fresh, TrackedExists
<1>5. OpenOnce /\ GrantChain
  BY <1>3 DEF OpenOnce, GrantChain
<1>6. FlowControl
  BY <1>1, OtherPeer DEF Init, FlowControl
<1> QED BY <1>2, <1>4, <1>5, <1>6 DEF IInv

(* ... and every step of either end keeps it. *)
LEMMA IInvStep == IInv /\ [Next]_vars => IInv'
<1>1. SUFFICES ASSUME IInv, [Next]_vars PROVE IInv'
  OBVIOUS
<1>2. CASE UNCHANGED vars
  BY <1>1, <1>2 DEF vars, IInv, TypeOK, Fresh, TrackedExists, OpenOnce, GrantChain, Budget, FlowControl
<1>3. CASE Next
  <2>1. PICK p \in Peer : App(p) \/ Deliver(p)
    BY <1>3 DEF Next
  <2>2. TypeOK'
    BY <1>1, <2>1, TypeStep DEF IInv
  <2>3. CASE App(p)
    BY <1>1, <2>2, <2>3, AppQuiet, OpenStep, GrantStep DEF App
  <2>4. CASE Deliver(p)
    BY <1>1, <2>2, <2>4, DeliverQuiet, AcceptStep, CreditsStep DEF Deliver
  <2> QED BY <2>1, <2>3, <2>4
<1> QED BY <1>1, <1>2, <1>3

(* Every reachable state of the two multiplexers is well typed: in         *)
(* particular no credit counter is ever negative, whatever order writes,   *)
(* grants and drains come in.                                              *)
THEOREM TypeCorrect == Spec => []TypeOK
<1>1. Init => TypeOK
  BY IInvInit DEF IInv
<1>2. TypeOK /\ [Next]_vars => TypeOK'
  <2>1. SUFFICES ASSUME TypeOK, [Next]_vars PROVE TypeOK'
    OBVIOUS
  <2>2. CASE UNCHANGED vars
    BY <2>1, <2>2 DEF vars, TypeOK
  <2>3. CASE Next
    BY <2>1, <2>3, TypeStep DEF Next
  <2> QED BY <2>1, <2>2, <2>3
<1> QED BY <1>1, <1>2, PTL DEF Spec

(* Flow control of write(), grantCredits() and _receiveCredits(): for any  *)
(* streams and limits, an end never sends more frames than the other end   *)
(* has granted, and no grant total passes maxCredits.                      *)
THEOREM FlowControlHolds == Spec => []FlowControl
<1>1. IInv => FlowControl
  BY DEF IInv
<1> QED BY <1>1, IInvInit, IInvStep, PTL DEF Spec

(* A step that moves one stream of one end to state st and makes T the map  *)
(* of that end loses sight of no stream, if T has whatever is not CLOSED.   *)
Moves(p, s, st, T) ==
  /\ state' = [state EXCEPT ![p][s] = st] \/ (state' = state /\ st = state[p][s])
  /\ tracked' = [tracked EXCEPT ![p] = T] \/ (tracked' = tracked /\ T = tracked[p])
  /\ \A r \in tracked[p] : r # s => r \in T
  /\ st \notin {"NONE", "CLOSED"} => s \in T

LEMMA MapFollows ==
  ASSUME TypeOK, NoOrphanStream, NEW p \in Peer, NEW s \in Stream, NEW st, NEW T, Moves(p, s, st, T)
  PROVE  NoOrphanStream'
<1> USE DEF Moves
<1>1. state \in [Peer -> [Stream -> StreamState]] /\ tracked \in [Peer -> SUBSET Stream]
  BY DEF TypeOK
<1>2. \A q \in Peer, r \in Stream : state'[q][r] = IF q = p /\ r = s THEN st ELSE state[q][r]
  <2>1. CASE state' = [state EXCEPT ![p][s] = st]
    BY <1>1, <2>1, FieldRead
  <2> QED BY <2>1
<1>3. \A q \in Peer : tracked'[q] = IF q = p THEN T ELSE tracked[q]
  BY <1>1
<1>4. ASSUME NEW q \in Peer, NEW r \in Stream, state'[q][r] \notin {"NONE", "CLOSED"}
      PROVE  r \in tracked'[q]
  <2>1. CASE q = p /\ r = s
    BY <1>2, <1>3, <1>4, <2>1
  <2>2. CASE ~ (q = p /\ r = s)
    <3>1. r \in tracked[q]
      BY <1>2, <1>4, <2>2 DEF NoOrphanStream
    <3> QED BY <1>3, <2>2, <3>1
  <2> QED BY <2>1, <2>2
<1> QED BY <1>4 DEF NoOrphanStream

(* A stream that is not CLOSED is in its multiplexer's map, so that         *)
(* dispatch() can still reach it and closeAll() will still cancel it, for   *)
(* any streams and limits.                                                  *)
THEOREM NoOrphans == Spec => []NoOrphanStream
<1>1. Init => NoOrphanStream
  BY DEF Init, NoOrphanStream
<1>2. TypeOK /\ NoOrphanStream /\ [Next]_vars => NoOrphanStream'
  <2> SUFFICES ASSUME TypeOK, NoOrphanStream, [Next]_vars PROVE NoOrphanStream'
    OBVIOUS
  <2>1. ASSUME UNCHANGED <<state, tracked>> PROVE NoOrphanStream'
    BY <2>1 DEF NoOrphanStream
  <2>2. ASSUME NEW p \in Peer, NEW s \in Stream, Open(p, s) PROVE NoOrphanStream'
    <3>1. state' = [state EXCEPT ![p][s] = "OPEN"] /\ tracked' = [tracked EXCEPT ![p] = tracked[p] \cup {s}]
      BY <2>2 DEF Open, SetState
    <3>2. Moves(p, s, "OPEN", tracked[p] \cup {s})
      BY <3>1 DEF Moves
    <3> QED BY <3>2, MapFollows
  <2>3. ASSUME NEW p \in Peer, NEW s \in Stream, End(p, s) PROVE NoOrphanStream'
    <3>1. /\ state' = [state EXCEPT ![p][s] = AfterEnd(state[p][s])] /\ tracked' = tracked
          /\ s \in tracked[p]
      BY <2>3 DEF End, SetState, NoOrphanStream
    <3>2. Moves(p, s, AfterEnd(state[p][s]), tracked[p])
      BY <3>1 DEF Moves
    <3> QED BY <3>2, MapFollows
  <2>4. ASSUME NEW p \in Peer, NEW s \in Stream, Close(p, s) PROVE NoOrphanStream'
    <3>1. PICK st : /\ state' = [state EXCEPT ![p][s] = st] \/ (state' = state /\ st = state[p][s])
                    /\ state'[p][s] = st
      <4>1. state \in [Peer -> [Stream -> StreamState]]
        BY DEF TypeOK
      <4>2. CASE SetState(p, s, AfterEnd(state[p][s]))
        <5>1. state' = [state EXCEPT ![p][s] = AfterEnd(state[p][s])]
          BY <4>2 DEF SetState
        <5>2. state'[p][s] = AfterEnd(state[p][s])
          BY <4>1, <5>1, FieldRead
        <5> QED BY <5>1, <5>2
      <4>3. CASE state' = state
        BY <4>3
      <4> QED BY <2>4, <4>2, <4>3 DEF Close
    <3>2. /\ s \in tracked[p]
          /\ \/ st = "CLOSED" /\ tracked' = [tracked EXCEPT ![p] = tracked[p] \ {s}]
             \/ tracked' = tracked
      BY <2>4, <3>1 DEF Close, ForgetClosed
    <3>3. CASE st = "CLOSED" /\ tracked' = [tracked EXCEPT ![p] = tracked[p] \ {s}]
      <4>1. Moves(p, s, st, tracked[p] \ {s})
        BY <3>1, <3>3 DEF Moves
      <4> QED BY <4>1, MapFollows
    <3>4. CASE tracked' = tracked
      <4>1. Moves(p, s, st, tracked[p])
        BY <3>1, <3>2, <3>4 DEF Moves
      <4> QED BY <4>1, MapFollows
    <3> QED BY <3>2, <3>3, <3>4
  <2>5. ASSUME NEW p \in Peer, NEW s \in Stream,
               state' = [state EXCEPT ![p][s] = "CLOSED"],
               tracked' = [tracked EXCEPT ![p] = tracked[p] \ {s}]
        PROVE  NoOrphanStream'
    <3>1. Moves(p, s, "CLOSED", tracked[p] \ {s})
      BY <2>5 DEF Moves
    <3> QED BY <3>1, MapFollows
  <2>6. ASSUME NEW p \in Peer, CloseAll(p) PROVE NoOrphanStream'
    <3>1. state \in [Peer -> [Stream -> StreamState]] /\ tracked \in [Peer -> SUBSET Stream]
      BY DEF TypeOK
    <3>2. \A q \in Peer, r \in Stream :
            state'[q][r] = IF q = p /\ r \in tracked[p] THEN "CLOSED" ELSE state[q][r]
      BY <2>6, <3>1 DEF CloseAll
    <3>3. \A q \in Peer : q # p => tracked'[q] = tracked[q]
      BY <2>6, <3>1 DEF CloseAll
    <3> QED BY <3>2, <3>3 DEF NoOrphanStream
  <2>7. ASSUME NEW p \in Peer, App(p) PROVE NoOrphanStream'
    <3>1. CASE Reload(p)
      BY <2>1, <3>1 DEF Reload
    <3>2. ASSUME NEW s \in Stream, Cancel(p, s) PROVE NoOrphanStream'
      BY <2>5, <3>2 DEF Cancel, SetState
    <3>3. ASSUME NEW s \in Stream, Write(p, s) PROVE NoOrphanStream'
      BY <2>1, <3>3 DEF Write
    <3>4. ASSUME NEW s \in Stream, NEW n \in 1..MaxCredits, GrantCredits(p, s, n) PROVE NoOrphanStream'
      BY <2>1, <3>4 DEF GrantCredits
    <3> QED BY <2>2, <2>3, <2>4, <2>6, <2>7, <3>1, <3>2, <3>3, <3>4 DEF App
  <2>8. ASSUME NEW p \in Peer, Deliver(p) PROVE NoOrphanStream'
    <3> DEFINE s == Head(chan[p]).s
    <3>1. chan[p] # <<>> => s \in Stream
      <4>1. chan[p] \in Seq(Message)
        BY DEF TypeOK
      <4>2. chan[p] # <<>> => Head(chan[p]) \in Message
        BY <4>1
      <4> QED BY <4>2 DEF Message
    <3>2. CASE RecvOpen(p)
      <4>1. CASE UNCHANGED <<state, tracked>>
        BY <2>1, <4>1
      <4>2. CASE state' = [state EXCEPT ![p][s] = "OPEN"] /\ tracked' = [tracked EXCEPT ![p] = tracked[p] \cup {s}]
        <5>1. s \in Stream
          BY <3>1, <3>2 DEF RecvOpen, Incoming
        <5> HIDE DEF s
        <5>2. Moves(p, s, "OPEN", tracked[p] \cup {s})
          BY <4>2 DEF Moves
        <5> QED BY <5>1, <5>2, MapFollows
      <4> QED BY <3>2, <4>1, <4>2 DEF RecvOpen, SetState
    <3>3. CASE RecvUnknown(p) \/ RecvData(p) \/ RecvCredits(p)
      BY <2>1, <3>3 DEF RecvUnknown, RecvData, RecvCredits
    <3>4. CASE RecvEnd(p)
      <4>1. /\ s \in Stream /\ s \in tracked[p]
            /\ state' = [state EXCEPT ![p][s] = AfterRecvEnd(state[p][s])]
            /\ \/ /\ AfterRecvEnd(state[p][s]) = "CLOSED"
                  /\ tracked' = [tracked EXCEPT ![p] = tracked[p] \ {s}]
               \/ tracked' = tracked
        BY <3>1, <3>4 DEF RecvEnd, Incoming, SetState, ForgetClosed
      <4> HIDE DEF s
      <4> DEFINE st == AfterRecvEnd(state[p][s])
      <4>2. state' = [state EXCEPT ![p][s] = st]
        BY <4>1
      <4>3. CASE st = "CLOSED" /\ tracked' = [tracked EXCEPT ![p] = tracked[p] \ {s}]
        BY <2>5, <4>1, <4>2, <4>3
      <4>4. CASE tracked' = tracked
        <5> HIDE DEF st
        <5>1. Moves(p, s, st, tracked[p])
          BY <4>1, <4>2, <4>4 DEF Moves
        <5> QED BY <4>1, <5>1, MapFollows
      <4> QED BY <4>1, <4>3, <4>4
    <3>5. CASE RecvError(p)
      <4>1. /\ s \in Stream /\ state' = [state EXCEPT ![p][s] = "CLOSED"]
            /\ tracked' = [tracked EXCEPT ![p] = tracked[p] \ {s}]
        BY <3>1, <3>5 DEF RecvError, Incoming, SetState
      <4> HIDE DEF s
      <4> QED BY <2>5, <4>1
    <3> QED BY <2>8, <3>2, <3>3, <3>4, <3>5 DEF Deliver
  <2> QED BY <2>1, <2>7, <2>8 DEF Next, vars
<1> QED BY <1>1, <1>2, TypeCorrect, PTL DEF Spec

(* What it means that payloads stand in line, position by position.         *)
Carries(c, s, i) == c[i].t = "DATA" /\ c[i].s = s

LEMMA LineMeans ==
  ASSUME NEW d, NEW c, NEW s, NEW q, NEW w
  PROVE  InLine(d, c, s, q, w) <=>
           /\ \A i, j \in DOMAIN d : i < j => d[i] < d[j]
           /\ \A i, j \in DOMAIN c : Carries(c, s, i) /\ Carries(c, s, j) /\ i < j => c[i].n < c[j].n
           /\ \A i, j \in DOMAIN q : i < j => q[i] < q[j]
           /\ \A i \in DOMAIN d, j \in DOMAIN c : Carries(c, s, j) => d[i] < c[j].n
           /\ \A i \in DOMAIN d, j \in DOMAIN q : d[i] < q[j]
           /\ \A i \in DOMAIN c, j \in DOMAIN q : Carries(c, s, i) => c[i].n < q[j]
           /\ \A i \in DOMAIN d : d[i] <= w
           /\ \A i \in DOMAIN c : Carries(c, s, i) => c[i].n <= w
           /\ \A i \in DOMAIN q : q[i] <= w
  BY DEF InLine, Carries

(* A step that takes messages off the head of a wire, adds none that carry  *)
(* data and may drop the queue leaves the payloads of a stream in line ...  *)
Fewer(c, s, c2, d) ==
  \A i \in DOMAIN c2 :
    Carries(c2, s, i) => i + d \in DOMAIN c /\ c2[i] = c[i + d]

LEMMA LineKept ==
  ASSUME NEW d \in Seq(Nat), NEW c \in Seq(Message), NEW s, NEW q \in Seq(Nat), NEW w \in Nat,
         InLine(d, c, s, q, w), NEW c2 \in Seq(Message), NEW k \in {0, 1}, Fewer(c, s, c2, k),
         NEW q2 \in {q, <<>>}
  PROVE  InLine(d, c2, s, q2, w)
<1>1. \A i \in DOMAIN c2 : i \in Nat
  OBVIOUS
<1>2. \A i, j \in DOMAIN c2 : i < j => i + k < j + k
  BY <1>1
<1>3. DOMAIN q2 \subseteq DOMAIN q /\ \A i \in DOMAIN q2 : q2[i] = q[i]
  OBVIOUS
<1>4. \A i \in DOMAIN c2 :
        Carries(c2, s, i) => i + k \in DOMAIN c /\ c2[i] = c[i + k] /\ Carries(c, s, i + k)
  BY DEF Fewer, Carries
<1>5. \A i, j \in DOMAIN c2 : Carries(c2, s, i) /\ Carries(c2, s, j) /\ i < j => c2[i].n < c2[j].n
  BY <1>2, <1>4, LineMeans
<1>6. /\ \A i \in DOMAIN d, j \in DOMAIN c2 : Carries(c2, s, j) => d[i] < c2[j].n
      /\ \A i \in DOMAIN c2, j \in DOMAIN q2 : Carries(c2, s, i) => c2[i].n < q2[j]
      /\ \A i \in DOMAIN c2 : Carries(c2, s, i) => c2[i].n <= w
  BY <1>3, <1>4, LineMeans
<1>7. /\ \A i, j \in DOMAIN q2 : i < j => q2[i] < q2[j]
      /\ \A i \in DOMAIN d, j \in DOMAIN q2 : d[i] < q2[j]
      /\ \A i \in DOMAIN q2 : q2[i] <= w
  BY <1>3, LineMeans
<1>8. (\A i, j \in DOMAIN d : i < j => d[i] < d[j]) /\ \A i \in DOMAIN d : d[i] <= w
  BY LineMeans
<1> QED BY <1>5, <1>6, <1>7, <1>8, LineMeans

LEMMA PayloadType ==
  ASSUME NEW c \in Seq(Message)
  PROVE  \A i \in DOMAIN c : c[i].n \in Nat
<1>1. \A i \in DOMAIN c : c[i] \in Message
  OBVIOUS
<1> QED BY <1>1 DEF Message

(* ... so does a write that goes out at once when nothing waits ...         *)
LEMMA LineWritten ==
  ASSUME NEW d \in Seq(Nat), NEW c \in Seq(Message), NEW s \in Stream, NEW w \in Nat,
         InLine(d, c, s, <<>>, w)
  PROVE  InLine(d, c \o <<DataMsg(s, w + 1)>>, s, <<>>, w + 1)
<1> DEFINE m == DataMsg(s, w + 1)
           c2 == c \o <<m>>
<1>1. m \in Message /\ m.n = w + 1
  BY DEF DataMsg, Message
<1> HIDE DEF m
<1>2. DOMAIN c2 = 1..(Len(c) + 1) /\ c2[Len(c) + 1] = m /\ \A i \in DOMAIN c : c2[i] = c[i]
  BY <1>1
<1>3. \A i \in DOMAIN c2 : i \in Nat /\ (i \in DOMAIN c \/ i = Len(c) + 1)
  BY <1>2
<1>4. \A i \in DOMAIN c : i \in Nat /\ i <= Len(c) /\ c[i].n \in Nat
  BY PayloadType
<1>5. \A i \in DOMAIN d : d[i] \in Nat
  OBVIOUS
<1>6. Len(c) \in Nat
  OBVIOUS
<1> HIDE DEF c2
<1>7. \A i, j \in DOMAIN c2 : Carries(c2, s, i) /\ Carries(c2, s, j) /\ i < j => c2[i].n < c2[j].n
  <2>1. \A i, j \in DOMAIN c : Carries(c, s, i) /\ Carries(c, s, j) /\ i < j => c[i].n < c[j].n
    BY LineMeans
  <2>2. \A i \in DOMAIN c : Carries(c, s, i) => c[i].n < w + 1
    <3>1. \A i \in DOMAIN c : Carries(c, s, i) => c[i].n <= w
      BY LineMeans
    <3> QED BY <1>4, <3>1
  <2>3. \A i \in DOMAIN c : ~ (Len(c) + 1 < i)
    BY <1>4, <1>6
  <2>4. \A i \in DOMAIN c2 :
          \/ i \in DOMAIN c /\ c2[i] = c[i] /\ (Carries(c2, s, i) <=> Carries(c, s, i))
          \/ i = Len(c) + 1 /\ c2[i].n = w + 1
    BY <1>1, <1>2, <1>3 DEF Carries
  <2>5. ~ (Len(c) + 1 < Len(c) + 1)
    BY <1>6
  <2>6. ASSUME NEW i \in DOMAIN c2, NEW j \in DOMAIN c2,
               Carries(c2, s, i), Carries(c2, s, j), i < j
        PROVE  c2[i].n < c2[j].n
    <3>1. i \in DOMAIN c /\ c2[i] = c[i] /\ Carries(c, s, i)
      BY <2>3, <2>4, <2>5, <2>6
    <3> QED BY <2>1, <2>2, <2>4, <2>6, <3>1
  <2> QED BY <2>6
<1>8. \A i \in DOMAIN d, j \in DOMAIN c2 : Carries(c2, s, j) => d[i] < c2[j].n
  <2>1. /\ \A i \in DOMAIN d, j \in DOMAIN c : Carries(c, s, j) => d[i] < c[j].n
        /\ \A i \in DOMAIN d : d[i] <= w
    BY LineMeans
  <2>2. \A i \in DOMAIN d : d[i] < w + 1
    BY <1>5, <2>1
  <2>3. \A j \in DOMAIN c2 :
          \/ j \in DOMAIN c /\ c2[j] = c[j] /\ (Carries(c2, s, j) <=> Carries(c, s, j))
          \/ c2[j].n = w + 1
    BY <1>1, <1>2, <1>3 DEF Carries
  <2> QED BY <2>1, <2>2, <2>3
<1>9. \A i \in DOMAIN c2 : Carries(c2, s, i) => c2[i].n <= w + 1
  BY <1>1, <1>2, <1>3, <1>4, LineMeans DEF Carries
<1>10. InLine(d, c2, s, <<>>, w + 1)
  BY <1>5, <1>7, <1>8, <1>9, LineMeans DEF Carries
<1> QED BY <1>10 DEF c2, m

(* ... and one that joins the queue ...                                     *)
LEMMA LineQueued ==
  ASSUME NEW d \in Seq(Nat), NEW c \in Seq(Message), NEW s, NEW q \in Seq(Nat), NEW w \in Nat,
         InLine(d, c, s, q, w)
  PROVE  InLine(d, c, s, Append(q, w + 1), w + 1)
<1> DEFINE q2 == Append(q, w + 1)
<1>1. DOMAIN q2 = 1..(Len(q) + 1) /\ q2[Len(q) + 1] = w + 1 /\ \A i \in DOMAIN q : q2[i] = q[i]
  OBVIOUS
<1>2. \A i \in DOMAIN q2 : i \in Nat /\ (i \in DOMAIN q \/ i = Len(q) + 1)
  BY <1>1
<1>3. /\ \A i \in DOMAIN q : i \in Nat /\ i <= Len(q) /\ q[i] \in Nat
      /\ \A i \in DOMAIN c : c[i].n \in Nat
      /\ \A i \in DOMAIN d : d[i] \in Nat
      /\ Len(q) \in Nat
  BY PayloadType
<1> HIDE DEF q2
<1>7. \A i \in DOMAIN q2 : (i \in DOMAIN q /\ q2[i] = q[i]) \/ q2[i] = w + 1
  BY <1>1, <1>2
<1>4. \A i, j \in DOMAIN q2 : i < j => q2[i] < q2[j]
  BY <1>1, <1>2, <1>3, LineMeans DEF Carries
<1>5. /\ \A i \in DOMAIN d, j \in DOMAIN q2 : d[i] < q2[j]
      /\ \A i \in DOMAIN q2 : q2[i] <= w + 1
      /\ \A i \in DOMAIN d : d[i] <= w + 1
  <2>1. /\ \A i \in DOMAIN d, j \in DOMAIN q : d[i] < q[j]
        /\ \A i \in DOMAIN d : d[i] <= w
        /\ \A i \in DOMAIN q : q[i] <= w
    BY LineMeans
  <2>2. /\ \A i \in DOMAIN d : d[i] < w + 1 /\ d[i] <= w + 1
        /\ \A i \in DOMAIN q : q[i] <= w + 1
        /\ w + 1 <= w + 1
    BY <1>3, <2>1
  <2> QED BY <1>7, <2>1, <2>2
<1>6. \A i \in DOMAIN c : Carries(c, s, i) =>
        c[i].n <= w + 1 /\ \A j \in DOMAIN q2 : c[i].n < q2[j]
  <2>1. \A i \in DOMAIN c : Carries(c, s, i) => c[i].n <= w /\ \A j \in DOMAIN q : c[i].n < q[j]
    BY LineMeans
  <2>2. \A i \in DOMAIN c : Carries(c, s, i) => c[i].n < w + 1 /\ c[i].n <= w + 1
    BY <1>3, <2>1
  <2> QED BY <1>7, <2>1, <2>2
<1>8. InLine(d, c, s, q2, w + 1)
  BY <1>4, <1>5, <1>6, LineMeans
<1> QED BY <1>8 DEF q2

(* ... so does handing the next payload to onData ...                       *)
LEMMA LineDelivered ==
  ASSUME NEW d \in Seq(Nat), NEW c \in Seq(Message), NEW s, NEW q \in Seq(Nat), NEW w \in Nat,
         InLine(d, c, s, q, w), c # <<>>, Head(c).t = "DATA", Head(c).s = s
  PROVE  InLine(Append(d, Head(c).n), Tail(c), s, q, w)
<1> DEFINE n == c[1].n
           d2 == Append(d, n)
           c2 == Tail(c)
<1>1. 1 \in DOMAIN c /\ Head(c) = c[1] /\ n \in Nat
  BY PayloadType
<1>2. \A i \in DOMAIN c2 : i \in Nat /\ i + 1 \in DOMAIN c /\ 1 < i + 1 /\ c2[i] = c[i + 1]
  OBVIOUS
<1>3. DOMAIN d2 = 1..(Len(d) + 1) /\ d2[Len(d) + 1] = n /\ \A i \in DOMAIN d : d2[i] = d[i]
  BY <1>1
<1>4. \A i \in DOMAIN d2 : i \in Nat /\ (i \in DOMAIN d \/ i = Len(d) + 1)
  BY <1>3
<1>5. (\A i \in DOMAIN d : i \in Nat /\ i <= Len(d)) /\ Len(d) \in Nat
  OBVIOUS
<1>6. /\ \A i \in DOMAIN d : d[i] < n
      /\ \A j \in DOMAIN c : Carries(c, s, j) /\ 1 < j => n < c[j].n
      /\ \A j \in DOMAIN q : n < q[j]
      /\ n <= w
  BY <1>1, LineMeans DEF Carries
<1> HIDE DEF n, d2, c2
<1>7. \A i, j \in DOMAIN d2 : i < j => d2[i] < d2[j]
  <2>1. \A i, j \in DOMAIN d : i < j => d[i] < d[j]
    BY LineMeans
  <2>2. \A i \in DOMAIN d : ~ (Len(d) + 1 < i)
    BY <1>5
  <2>3. \A i \in DOMAIN d2 : (i \in DOMAIN d /\ d2[i] = d[i]) \/ (i = Len(d) + 1 /\ d2[i] = n)
    BY <1>3, <1>4
  <2>4. ~ (Len(d) + 1 < Len(d) + 1)
    BY <1>5
  <2>5. \A i \in DOMAIN d : d[i] < n
    BY <1>6
  <2> QED BY <2>1, <2>2, <2>3, <2>4, <2>5
<1>8. \A i, j \in DOMAIN c2 : Carries(c2, s, i) /\ Carries(c2, s, j) /\ i < j => c2[i].n < c2[j].n
  <2>1. \A i, j \in DOMAIN c2 : i < j => i + 1 < j + 1
    BY <1>2
  <2>2. \A i, j \in DOMAIN c : Carries(c, s, i) /\ Carries(c, s, j) /\ i < j => c[i].n < c[j].n
    BY LineMeans
  <2>3. \A i \in DOMAIN c2 : i + 1 \in DOMAIN c /\ c2[i] = c[i + 1]
    BY <1>2
  <2>4. \A i \in DOMAIN c2 : Carries(c2, s, i) => Carries(c, s, i + 1)
    BY <2>3 DEF Carries
  <2>5. ASSUME NEW i \in DOMAIN c2, NEW j \in DOMAIN c2,
               Carries(c2, s, i), Carries(c2, s, j), i < j
        PROVE  c2[i].n < c2[j].n
    <3>1. c[i + 1].n < c[j + 1].n
      BY <2>1, <2>2, <2>3, <2>4, <2>5
    <3> QED BY <2>3, <3>1
  <2> QED BY <2>5
<1>9. \A i \in DOMAIN d2, j \in DOMAIN c2 : Carries(c2, s, j) => d2[i] < c2[j].n
  <2>1. \A i \in DOMAIN d2 : (i \in DOMAIN d /\ d2[i] = d[i]) \/ d2[i] = n
    BY <1>3, <1>4
  <2>2. \A j \in DOMAIN c2 :
          Carries(c2, s, j) => j + 1 \in DOMAIN c /\ 1 < j + 1 /\ c2[j] = c[j + 1] /\ Carries(c, s, j + 1)
    BY <1>2 DEF Carries
  <2>3. \A i \in DOMAIN d, j \in DOMAIN c : Carries(c, s, j) => d[i] < c[j].n
    BY LineMeans
  <2> QED BY <1>6, <2>1, <2>2, <2>3
<1>10. /\ \A i \in DOMAIN d2, j \in DOMAIN q : d2[i] < q[j]
       /\ \A i \in DOMAIN d2 : d2[i] <= w
  BY <1>3, <1>4, <1>6, LineMeans DEF Carries
<1>11. \A j \in DOMAIN c2 : Carries(c2, s, j) => c2[j].n <= w /\ \A k \in DOMAIN q : c2[j].n < q[k]
  BY <1>2, LineMeans DEF Carries
<1>12. InLine(d2, c2, s, q, w)
  BY <1>7, <1>8, <1>9, <1>10, <1>11, LineMeans DEF Carries
<1> QED BY <1>1, <1>12 DEF n, d2, c2

(* ... and moving the first k payloads of the queue to the wire.            *)
LEMMA LineDrained ==
  ASSUME NEW d \in Seq(Nat), NEW c \in Seq(Message), NEW s \in Stream, NEW q \in Seq(Nat),
         NEW w \in Nat, InLine(d, c, s, q, w), NEW k \in Nat, k <= Len(q)
  PROVE  InLine(d, c \o [i \in 1..k |-> DataMsg(s, q[i])], s, SubSeq(q, k + 1, Len(q)), w)
<1> DEFINE ms == [i \in 1..k |-> DataMsg(s, q[i])]
           c2 == c \o ms
           q2 == SubSeq(q, k + 1, Len(q))
<1>1. DOMAIN q = 1..Len(q) /\ Len(q) \in Nat /\ \A i \in DOMAIN q : q[i] \in Nat
  OBVIOUS
<1>2. ms \in Seq(Message) /\ Len(ms) = k /\ \A i \in 1..k : ms[i].n = q[i]
  BY <1>1 DEF DataMsg, Message
<1> HIDE DEF ms
<1>3. Len(c) \in Nat /\ \A i \in DOMAIN c : i \in Nat /\ i <= Len(c) /\ c2[i] = c[i]
  BY <1>2
<1>4. \A i \in DOMAIN c2 :
        /\ i \in Nat
        /\ i \notin DOMAIN c => /\ Len(c) < i
                                /\ i - Len(c) \in 1..k
                                /\ c2[i] = ms[i - Len(c)]
  BY <1>2
<1>5. \A i \in DOMAIN c2 : i \notin DOMAIN c => i - Len(c) \in DOMAIN q /\ i - Len(c) <= k /\ c2[i].n = q[i - Len(c)]
  <2>1. \A x \in 1..k : x \in DOMAIN q /\ x <= k
    BY <1>1
  <2> QED BY <1>2, <1>4, <2>1
<1>6. \A i \in DOMAIN q2 : i \in Nat /\ i + k \in DOMAIN q /\ k < i + k /\ q2[i] = q[i + k]
  <2>1. DOMAIN q2 = 1..(Len(q) - k) /\ \A i \in 1..(Len(q) - k) : q2[i] = q[i + k]
    BY <1>1
  <2>2. \A i \in 1..(Len(q) - k) : i \in Nat /\ i + k \in DOMAIN q /\ k < i + k
    BY <1>1
  <2> QED BY <2>1, <2>2
<1> HIDE DEF c2, q2
<1>7. ASSUME NEW i \in DOMAIN c2, NEW j \in DOMAIN c2, i < j,
             Carries(c2, s, i), Carries(c2, s, j)
      PROVE  c2[i].n < c2[j].n
  <2>1. CASE i \in DOMAIN c /\ j \in DOMAIN c
    BY <1>3, <1>7, <2>1, LineMeans DEF Carries
  <2>2. CASE i \in DOMAIN c /\ j \notin DOMAIN c
    BY <1>3, <1>5, <1>7, <2>2, LineMeans DEF Carries
  <2>3. CASE i \notin DOMAIN c /\ j \in DOMAIN c
    BY <1>3, <1>4, <1>7, <2>3
  <2>4. CASE i \notin DOMAIN c /\ j \notin DOMAIN c
    <3>1. i - Len(c) < j - Len(c)
      BY <1>3, <1>4, <1>7
    <3> QED BY <1>5, <2>4, <3>1, LineMeans DEF Carries
  <2> QED BY <2>1, <2>2, <2>3, <2>4
<1>8. \A i, j \in DOMAIN q2 : i < j => q2[i] < q2[j]
  <2>1. \A i, j \in DOMAIN q2 : i < j => i + k < j + k
    BY <1>6
  <2> QED BY <1>6, <2>1, LineMeans DEF Carries
<1>9. \A i \in DOMAIN d, j \in DOMAIN c2 : Carries(c2, s, j) => d[i] < c2[j].n
  BY <1>3, <1>5, LineMeans DEF Carries
<1>10. \A j \in DOMAIN c2 : Carries(c2, s, j) => c2[j].n <= w
  BY <1>3, <1>5, LineMeans DEF Carries
<1>11. ASSUME NEW i \in DOMAIN c2, Carries(c2, s, i), NEW j \in DOMAIN q2
       PROVE  c2[i].n < q2[j]
  <2>1. CASE i \in DOMAIN c
    BY <1>3, <1>6, <1>11, <2>1, LineMeans DEF Carries
  <2>2. CASE i \notin DOMAIN c
    <3>1. i - Len(c) < j + k
      BY <1>5, <1>6, <2>2, <1>3, <1>4
    <3> QED BY <1>5, <1>6, <1>11, <2>2, <3>1, LineMeans DEF Carries
  <2> QED BY <2>1, <2>2
<1>12. /\ \A i \in DOMAIN d, j \in DOMAIN q2 : d[i] < q2[j]
       /\ \A i \in DOMAIN q2 : q2[i] <= w
  BY <1>6, LineMeans DEF Carries
<1>13. InLine(d, c2, s, q2, w)
  BY <1>7, <1>8, <1>9, <1>10, <1>11, <1>12, LineMeans DEF Carries
<1> QED BY <1>13 DEF c2, q2, ms

(* The types of what stands in line. *)
LEMMA LineTypes ==
  ASSUME TypeOK, NEW p \in Peer, NEW s \in Stream
  PROVE  /\ delivered[p][s] \in Seq(Nat)
         /\ chan[p] \in Seq(Message)
         /\ sendQueue[p][s] \in Seq(Nat)
         /\ written[p][s] \in Nat
         /\ sendCredits[p][s] \in Nat
  BY DEF TypeOK

LEMMA NextLineTypes ==
  ASSUME TypeOK', NEW p \in Peer, NEW s \in Stream
  PROVE  /\ delivered'[p][s] \in Seq(Nat)
         /\ chan'[p] \in Seq(Message)
         /\ sendQueue'[p][s] \in Seq(Nat)
         /\ written'[p][s] \in Nat
  BY DEF TypeOK

(* The data on the wire to q is some of what was there, the step having     *)
(* taken k messages off its head.                                           *)
DataKept(q, k) ==
  \A i \in DOMAIN chan'[q] :
    chan'[q][i].t = "DATA" => i + k \in DOMAIN chan[q] /\ chan'[q][i] = chan[q][i + k]

LEMMA EmitKeepsData ==
  ASSUME TypeOK, NEW p \in Peer, NEW msgs \in Seq(Message), Emit(p, msgs),
         \A i \in DOMAIN msgs : msgs[i].t # "DATA"
  PROVE  \A q \in Peer : \E k \in {0, 1} : DataKept(q, k)
<1>1. \A q \in Peer : DOMAIN chan[q] \subseteq Nat
  BY DEF TypeOK
<1>2. DataKept(p, 0)
  BY <1>1, EmitWire DEF DataKept
<1>3. DataKept(Other(p), 0)
  BY <1>1, EmitWire, OtherPeer DEF DataKept
<1> QED BY <1>2, <1>3, TwoPeers

LEMMA ReplyKeepsData ==
  ASSUME TypeOK, NEW p \in Peer, NEW msgs \in Seq(Message), Reply(p, msgs), chan[p] # <<>>,
         \A i \in DOMAIN msgs : msgs[i].t # "DATA"
  PROVE  \A q \in Peer : \E k \in {0, 1} : DataKept(q, k)
<1>1. \A q \in Peer : DOMAIN chan[q] \subseteq Nat
  BY DEF TypeOK
<1>2. DataKept(p, 1)
  BY <1>1, ReplyWire DEF DataKept
<1>3. DataKept(Other(p), 0)
  BY <1>1, ReplyWire, OtherPeer DEF DataKept
<1> QED BY <1>2, <1>3, TwoPeers

(* A stream to whose line a step adds nothing stays in line. *)
LEMMA OneLineKept ==
  ASSUME TypeOK, TypeOK', PayloadsInLine, NEW p \in Peer, NEW s \in Stream,
         delivered'[p][s] = delivered[p][s], written'[Other(p)][s] = written[Other(p)][s],
         sendQueue'[Other(p)][s] \in {sendQueue[Other(p)][s], <<>>},
         NEW k \in {0, 1}, Fewer(chan[p], s, chan'[p], k)
  PROVE  InLine(delivered'[p][s], chan'[p], s, sendQueue'[Other(p)][s], written'[Other(p)][s])
<1>1. Other(p) \in Peer
  BY OtherPeer
<1>2. InLine(delivered[p][s], chan[p], s, sendQueue[Other(p)][s], written[Other(p)][s])
  BY DEF PayloadsInLine
<1> QED BY <1>1, <1>2, LineTypes, NextLineTypes, LineKept

(* A step that writes and delivers nothing keeps every line; when it moves  *)
(* no credit and fills no queue, whoever waits goes on waiting.             *)
LEMMA LinesKept ==
  ASSUME TypeOK, TypeOK', PayloadsInLine, delivered' = delivered, written' = written,
         \A q \in Peer, s \in Stream : sendQueue'[q][s] \in {sendQueue[q][s], <<>>},
         \A q \in Peer : \E k \in {0, 1} : DataKept(q, k)
  PROVE  PayloadsInLine'
<1>1. ASSUME NEW p \in Peer, NEW s \in Stream
      PROVE  InLine(delivered'[p][s], chan'[p], s, sendQueue'[Other(p)][s], written'[Other(p)][s])
  <2>1. PICK k \in {0, 1} : DataKept(p, k)
    OBVIOUS
  <2>2. Fewer(chan[p], s, chan'[p], k)
    BY <2>1 DEF Fewer, DataKept, Carries
  <2>3. Other(p) \in Peer
    BY OtherPeer
  <2> QED BY <2>2, <2>3, OneLineKept
<1> QED BY <1>1 DEF PayloadsInLine

LEMMA OrderQuiet ==
  ASSUME TypeOK, TypeOK', OrderInv, delivered' = delivered, written' = written,
         sendCredits' = sendCredits,
         \A q \in Peer, s \in Stream : state'[q][s] = "NONE" => state[q][s] = "NONE",
         \A q \in Peer, s \in Stream : sendQueue'[q][s] \in {sendQueue[q][s], <<>>},
         \A q \in Peer : \E k \in {0, 1} : DataKept(q, k)
  PROVE  OrderInv'
<1>1. PayloadsInLine'
  BY LinesKept DEF OrderInv
<1>2. QueueWaits'
  BY DEF OrderInv, QueueWaits
<1> QED BY <1>1, <1>2 DEF OrderInv

(* No stream object ever becomes one that was not made. *)
LEMMA NeverUnmade ==
  ASSUME TypeOK, NEW p \in Peer, App(p) \/ Deliver(p)
  PROVE  \A q \in Peer, r \in Stream : state'[q][r] = "NONE" => state[q][r] = "NONE"
<1> DEFINE Goal == \A q \in Peer, r \in Stream : state'[q][r] = "NONE" => state[q][r] = "NONE"
<1>1. state \in [Peer -> [Stream -> StreamState]]
  BY DEF TypeOK
<1>2. ASSUME NEW s \in Stream, NEW st, st # "NONE", state' = [state EXCEPT ![p][s] = st] PROVE Goal
  <2>1. \A q \in Peer, r \in Stream : state'[q][r] = IF q = p /\ r = s THEN st ELSE state[q][r]
    BY <1>1, <1>2, FieldRead
  <2> QED BY <1>2, <2>1
<1>3. ASSUME state' = state PROVE Goal
  BY <1>3
<1>4. ASSUME CloseAll(p) PROVE Goal
  BY <1>1, <1>4 DEF CloseAll
<1>5. chan[p] # <<>> => Head(chan[p]).s \in Stream
  BY HeadMessage
<1>6. ASSUME NEW s \in Stream, Open(p, s) \/ End(p, s) \/ Close(p, s) \/ Cancel(p, s)
      PROVE  Goal
  <2>1. CASE state' = state
    BY <1>3, <2>1
  <2>2. CASE SetState(p, s, "OPEN") \/ SetState(p, s, "CLOSED")
    BY <1>2, <2>2 DEF SetState
  <2>3. CASE SetState(p, s, AfterEnd(state[p][s]))
    <3>1. AfterEnd(state[p][s]) # "NONE"
      BY DEF AfterEnd
    <3> QED BY <1>2, <2>3, <3>1 DEF SetState
  <2> QED BY <1>6, <2>1, <2>2, <2>3 DEF Open, End, Close, Cancel
<1>7. ASSUME \/ Reload(p) \/ RecvUnknown(p) \/ RecvData(p) \/ RecvCredits(p)
             \/ \E s \in Stream : \/ Write(p, s)
                                  \/ \E n \in 1..MaxCredits : GrantCredits(p, s, n)
      PROVE  Goal
  BY <1>3, <1>7 DEF Reload, RecvUnknown, RecvData, RecvCredits, Write, GrantCredits
<1>8. ASSUME RecvOpen(p) \/ RecvEnd(p) \/ RecvError(p) PROVE Goal
  <2> DEFINE s == Head(chan[p]).s
  <2>1. s \in Stream
    BY <1>5, <1>8 DEF RecvOpen, RecvEnd, RecvError, Incoming
  <2>2. CASE state' = state
    BY <1>3, <2>2
  <2>3. CASE SetState(p, s, "OPEN") \/ SetState(p, s, "CLOSED")
    BY <1>2, <2>1, <2>3 DEF SetState
  <2>4. CASE SetState(p, s, AfterRecvEnd(state[p][s]))
    <3>1. AfterRecvEnd(state[p][s]) # "NONE"
      BY DEF AfterRecvEnd
    <3> QED BY <1>2, <2>1, <2>4, <3>1 DEF SetState
  <2> QED BY <1>8, <2>2, <2>3, <2>4 DEF RecvOpen, RecvEnd, RecvError
<1> HIDE DEF Goal
<1>9. ASSUME App(p) PROVE Goal
  BY <1>4, <1>6, <1>7, <1>9 DEF App
<1>10. ASSUME Deliver(p) PROVE Goal
  BY <1>7, <1>8, <1>10 DEF Deliver
<1>11. Goal
  BY <1>9, <1>10
<1> QED BY <1>11 DEF Goal

(* What the application does, writes apart, keeps the payloads in line. *)
LEMMA AppOrder ==
  ASSUME TypeOK, TypeOK', OrderInv, NEW p \in Peer, App(p),
         \A s \in Stream : ~ Write(p, s)
  PROVE  OrderInv'
<1>1. /\ delivered' = delivered /\ written' = written /\ sendCredits' = sendCredits
  BY DEF App, CloseAll, Reload, Open, End, Close, Cancel, GrantCredits, flow
<1>2. \A q \in Peer, r \in Stream : state'[q][r] = "NONE" => state[q][r] = "NONE"
  BY NeverUnmade
<1>3. \A q \in Peer, r \in Stream : sendQueue'[q][r] \in {sendQueue[q][r], <<>>}
  <2>1. sendQueue \in [Peer -> [Stream -> Seq(Nat)]]
    BY DEF TypeOK
  <2>2. CASE sendQueue' = sendQueue
    BY <2>2
  <2>3. CASE CloseAll(p) \/ Reload(p)
    <3>1. PICK S : sendQueue' = [sendQueue EXCEPT ![p] =
                                  [r \in Stream |-> IF r \in S THEN <<>> ELSE sendQueue[p][r]]]
      BY <2>3 DEF CloseAll, Reload
    <3> DEFINE f == [r \in Stream |-> IF r \in S THEN <<>> ELSE sendQueue[p][r]]
    <3>2. \A r \in Stream : f[r] \in {sendQueue[p][r], <<>>}
      OBVIOUS
    <3>3. sendQueue' = [sendQueue EXCEPT ![p] = f]
      BY <3>1
    <3> HIDE DEF f
    <3>4. \A q \in Peer : sendQueue'[q] = IF q = p THEN f ELSE sendQueue[q]
      BY <2>1, <3>3
    <3> QED BY <3>2, <3>4
  <2>4. ASSUME NEW s \in Stream, Cancel(p, s)
        PROVE  \A q \in Peer, r \in Stream : sendQueue'[q][r] \in {sendQueue[q][r], <<>>}
    <3>1. \A q \in Peer, r \in Stream :
            sendQueue'[q][r] = IF q = p /\ r = s THEN <<>> ELSE sendQueue[q][r]
      BY <2>1, <2>4, FieldRead DEF Cancel
    <3> QED BY <3>1
  <2> QED BY <2>2, <2>3, <2>4 DEF App, Open, End, Close, GrantCredits, flow
<1>4. \A q \in Peer : \E k \in {0, 1} : DataKept(q, k)
  <2>1. CASE chan' = chan
    <3>1. \A q \in Peer : DataKept(q, 0)
      BY <2>1 DEF DataKept, TypeOK
    <3> QED BY <3>1
  <2>2. ASSUME NEW msgs \in Seq(Message), Emit(p, msgs), \A i \in DOMAIN msgs : msgs[i].t # "DATA"
        PROVE  \A q \in Peer : \E k \in {0, 1} : DataKept(q, k)
    BY <2>2, EmitKeepsData
  <2>3. CASE CloseAll(p)
    <3>1. PICK order \in Orderings(Active(p)) :
            Emit(p, [i \in 1..Cardinality(Active(p)) |-> ErrorMsg(order[i])])
      BY <2>3 DEF CloseAll
    <3> DEFINE msgs == [i \in 1..Cardinality(Active(p)) |-> ErrorMsg(order[i])]
    <3>2. msgs \in Seq(Message)
      BY CloseAllMessages
    <3>3. \A i \in DOMAIN msgs : msgs[i].t # "DATA"
      BY DEF ErrorMsg
    <3> HIDE DEF msgs
    <3>4. Emit(p, msgs)
      BY <3>1 DEF msgs
    <3> QED BY <2>2, <3>2, <3>3, <3>4
  <2>4. ASSUME NEW m, <<m>> \in Seq(Message), m.t # "DATA", Emit(p, <<m>>)
        PROVE  \A q \in Peer : \E k \in {0, 1} : DataKept(q, k)
    <3>1. \A i \in DOMAIN <<m>> : <<m>>[i].t # "DATA"
      BY <2>4
    <3> QED BY <2>2, <2>4, <3>1
  <2>5. ASSUME NEW s \in Stream, Open(p, s) \/ End(p, s) \/ Close(p, s) \/ Cancel(p, s)
        PROVE  \A q \in Peer : \E k \in {0, 1} : DataKept(q, k)
    <3>1. /\ OpenMsg(s, InitialCredits).t # "DATA"
          /\ EndMsg(s).t # "DATA"
          /\ ErrorMsg(s).t # "DATA"
      BY DEF OpenMsg, EndMsg, ErrorMsg
    <3>2. \/ chan' = chan
          \/ Emit(p, <<OpenMsg(s, InitialCredits)>>)
          \/ Emit(p, <<EndMsg(s)>>)
          \/ Emit(p, <<ErrorMsg(s)>>)
      BY <2>5 DEF Open, End, Close, Cancel
    <3>3. /\ <<OpenMsg(s, InitialCredits)>> \in Seq(Message)
          /\ <<EndMsg(s)>> \in Seq(Message)
          /\ <<ErrorMsg(s)>> \in Seq(Message)
      BY Messages, StreamMuxAssumption
    <3> QED BY <2>1, <2>4, <3>1, <3>2, <3>3
  <2>6. ASSUME NEW s \in Stream, NEW n \in 1..MaxCredits, GrantCredits(p, s, n)
        PROVE  \A q \in Peer : \E k \in {0, 1} : DataKept(q, k)
    <3> DEFINE u == recvCredits[p][s] + n
    <3>0. recvCredits[p][s] \in Nat
      BY DEF TypeOK
    <3>1. n \in Nat /\ u \in Nat
      BY <3>0, StreamMuxAssumption
    <3>2. Emit(p, <<WindowMsg(s, n, u)>>)
      BY <2>6 DEF GrantCredits
    <3> HIDE DEF u
    <3>3. WindowMsg(s, n, u).t # "DATA"
      BY DEF WindowMsg
    <3> QED BY <2>4, <3>1, <3>2, <3>3, Messages
  <2>7. CASE Reload(p)
    BY <2>1, <2>7 DEF Reload
  <2> QED BY <2>3, <2>5, <2>6, <2>7 DEF App
<1> QED BY <1>1, <1>2, <1>3, <1>4, OrderQuiet

(* write() puts the next payload on the wire only when none waits.          *)
LEMMA WriteOrder ==
  ASSUME TypeOK, TypeOK', OrderInv, NEW p \in Peer, NEW s \in Stream, Write(p, s)
  PROVE  OrderInv'
<1> DEFINE q == Other(p)
           w == written[p][s]
           m == DataMsg(s, w + 1)
<1>1. q \in Peer /\ q # p /\ Other(q) = p
  BY OtherPeer
<1>2. /\ state' = state /\ delivered' = delivered /\ state[p][s] # "NONE"
      /\ w \in Nat /\ sendCredits[p][s] \in Nat
  BY LineTypes DEF Write
<1>t. /\ written \in [Peer -> [Stream -> Nat]] /\ sendCredits \in [Peer -> [Stream -> Nat]]
      /\ sendQueue \in [Peer -> [Stream -> Seq(Nat)]]
  BY DEF TypeOK
<1>3. \A o \in Peer, r \in Stream : written'[o][r] = IF o = p /\ r = s THEN w + 1 ELSE written[o][r]
  <2>1. written' = [written EXCEPT ![p][s] = w + 1]
    BY DEF Write
  <2> QED BY <1>t, <2>1, FieldRead
<1>4. InLine(delivered[q][s], chan[q], s, sendQueue[p][s], w)
  BY <1>1 DEF OrderInv, PayloadsInLine
<1>5. /\ delivered[q][s] \in Seq(Nat) /\ chan[q] \in Seq(Message) /\ sendQueue[p][s] \in Seq(Nat)
  BY <1>1, LineTypes
<1>6. CASE HasCredit(p, s)
  <2>1. /\ sendQueue' = sendQueue /\ Emit(p, <<m>>)
        /\ sendCredits' = [sendCredits EXCEPT ![p][s] = sendCredits[p][s] - 1]
    BY <1>6 DEF Write
  <2>2. sendQueue[p][s] = <<>>
    BY <1>2, <1>6 DEF OrderInv, QueueWaits, HasCredit
  <2>3. <<m>> \in Seq(Message) /\ chan \in [Peer -> Seq(Message)]
    BY <1>2, Messages DEF TypeOK
  <2>4. chan'[q] = chan[q] \o <<m>> /\ chan'[p] = chan[p]
    BY <1>1, <2>1, <2>3 DEF Emit
  <2>5. InLine(delivered'[q][s], chan'[q], s, sendQueue'[p][s], written'[p][s])
    BY <1>2, <1>3, <1>4, <1>5, <2>1, <2>2, <2>4, LineWritten
  <2>6. \A r \in Stream : r # s => Fewer(chan[q], r, chan'[q], 0)
    <3>1. \A i \in DOMAIN chan'[q] : i \in Nat /\ (i \in DOMAIN chan[q] => chan'[q][i] = chan[q][i])
                                     /\ (i \notin DOMAIN chan[q] => chan'[q][i] = m)
      BY <1>5, <2>4, <2>3
    <3>2. m.s = s
      BY DEF DataMsg
    <3> HIDE DEF m
    <3> QED BY <3>1, <3>2 DEF Fewer, Carries
  <2>7. \A r \in Stream : Fewer(chan[p], r, chan'[p], 0)
    BY <2>3, <2>4 DEF Fewer
  <2>8. ASSUME NEW o \in Peer, NEW r \in Stream, o # q \/ r # s
        PROVE  InLine(delivered'[o][r], chan'[o], r, sendQueue'[Other(o)][r], written'[Other(o)][r])
    <3>1. Fewer(chan[o], r, chan'[o], 0)
      BY <2>6, <2>7, <2>8, TwoPeers
    <3>2. Other(o) \in Peer /\ (Other(o) # p \/ r # s)
      BY <1>1, <2>8, OtherPeer
    <3>3. written'[Other(o)][r] = written[Other(o)][r]
      BY <1>3, <3>2
    <3> QED BY <1>2, <2>1, <3>1, <3>3, OneLineKept DEF OrderInv
  <2>9. PayloadsInLine'
    BY <1>1, <2>5, <2>8 DEF PayloadsInLine
  <2>10. QueueWaits'
    <3>1. \A o \in Peer, r \in Stream :
            sendCredits'[o][r] = IF o = p /\ r = s THEN sendCredits[p][s] - 1 ELSE sendCredits[o][r]
      BY <1>t, <2>1, FieldRead
    <3> QED BY <1>2, <2>1, <2>2, <3>1 DEF OrderInv, QueueWaits
  <2> QED BY <2>9, <2>10 DEF OrderInv
<1>7. CASE ~ HasCredit(p, s)
  <2>1. /\ sendCredits' = sendCredits /\ chan' = chan
        /\ sendQueue' = [sendQueue EXCEPT ![p][s] = Append(sendQueue[p][s], w + 1)]
    BY <1>7 DEF Write, Enqueue
  <2>2. \A o \in Peer, r \in Stream :
          sendQueue'[o][r] = IF o = p /\ r = s THEN Append(sendQueue[p][s], w + 1) ELSE sendQueue[o][r]
    BY <1>t, <2>1, FieldRead
  <2>3. InLine(delivered'[q][s], chan'[q], s, sendQueue'[p][s], written'[p][s])
    BY <1>2, <1>3, <1>4, <1>5, <2>1, <2>2, LineQueued
  <2>4. ASSUME NEW o \in Peer, NEW r \in Stream, o # q \/ r # s
        PROVE  InLine(delivered'[o][r], chan'[o], r, sendQueue'[Other(o)][r], written'[Other(o)][r])
    <3>1. Other(o) \in Peer /\ (Other(o) # p \/ r # s)
      BY <1>1, <2>4, OtherPeer
    <3>2. written'[Other(o)][r] = written[Other(o)][r] /\ sendQueue'[Other(o)][r] = sendQueue[Other(o)][r]
      BY <1>3, <2>2, <3>1
    <3> QED BY <1>2, <2>1, <3>2 DEF OrderInv, PayloadsInLine
  <2>5. PayloadsInLine'
    BY <1>1, <2>3, <2>4 DEF PayloadsInLine
  <2>6. QueueWaits'
    <3>1. sendCredits[p][s] = 0
      BY <1>2, <1>7 DEF HasCredit
    <3> QED BY <1>2, <2>1, <2>2, <3>1 DEF OrderInv, QueueWaits
  <2> QED BY <2>5, <2>6 DEF OrderInv
<1> QED BY <1>6, <1>7

(* _receiveData() takes the first payload of the line, or drops it.         *)
LEMMA DataOrder ==
  ASSUME TypeOK, TypeOK', OrderInv, NEW p \in Peer, RecvData(p)
  PROVE  OrderInv'
<1> DEFINE s == Head(chan[p]).s
           n == Head(chan[p]).n
<1>1. /\ state' = state /\ sendQueue' = sendQueue /\ sendCredits' = sendCredits
      /\ written' = written /\ Reply(p, <<>>)
      /\ chan[p] # <<>> /\ Head(chan[p]).t = "DATA"
      /\ delivered' = delivered \/ delivered' = [delivered EXCEPT ![p][s] = Append(delivered[p][s], n)]
  BY DEF RecvData, Incoming
<1>2. s \in Stream
  BY <1>1, HeadMessage
<1>3. \A q \in Peer : \E k \in {0, 1} : DataKept(q, k)
  <2>1. <<>> \in Seq(Message) /\ \A i \in DOMAIN <<>> : <<>>[i].t # "DATA"
    OBVIOUS
  <2> QED BY <1>1, <2>1, ReplyKeepsData
<1>4. CASE delivered' = delivered
  BY <1>1, <1>3, <1>4, OrderQuiet
<1>5. CASE delivered' = [delivered EXCEPT ![p][s] = Append(delivered[p][s], n)]
  <2>1. /\ delivered[p][s] \in Seq(Nat) /\ chan[p] \in Seq(Message) /\ sendQueue[Other(p)][s] \in Seq(Nat)
        /\ written[Other(p)][s] \in Nat
    BY <1>2, LineTypes, OtherPeer
  <2>2. chan'[p] = Tail(chan[p])
    <3>1. chan \in [Peer -> Seq(Message)] /\ Other(p) # p
      BY OtherPeer DEF TypeOK
    <3> QED BY <1>1, <3>1 DEF Reply
  <2>3. InLine(delivered[p][s], chan[p], s, sendQueue[Other(p)][s], written[Other(p)][s])
    BY <1>2 DEF OrderInv, PayloadsInLine
  <2>4. InLine(Append(delivered[p][s], n), Tail(chan[p]), s, sendQueue[Other(p)][s], written[Other(p)][s])
    BY <1>1, <2>1, <2>3, LineDelivered
  <2>5. \A o \in Peer, r \in Stream :
          delivered'[o][r] = IF o = p /\ r = s THEN Append(delivered[p][s], n) ELSE delivered[o][r]
    <3>1. delivered \in [Peer -> [Stream -> Seq(Nat)]]
      BY DEF TypeOK
    <3> HIDE DEF s, n
    <3> QED BY <1>2, <1>5, <3>1, FieldRead
  <2> HIDE DEF s, n
  <2>6. ASSUME NEW o \in Peer, NEW r \in Stream, o # p \/ r # s
        PROVE  InLine(delivered'[o][r], chan'[o], r, sendQueue'[Other(o)][r], written'[Other(o)][r])
    <3>1. PICK k \in {0, 1} : DataKept(o, k)
      BY <1>3
    <3>2. Fewer(chan[o], r, chan'[o], k)
      BY <3>1 DEF Fewer, DataKept, Carries
    <3> QED BY <1>1, <2>5, <2>6, <3>2, OneLineKept DEF OrderInv
  <2>7. PayloadsInLine'
    BY <1>1, <1>2, <2>2, <2>4, <2>5, <2>6 DEF PayloadsInLine
  <2>8. QueueWaits'
    BY <1>1 DEF OrderInv, QueueWaits
  <2> QED BY <2>7, <2>8 DEF OrderInv
<1> QED BY <1>1, <1>4, <1>5

(* STREAM_OPEN sets the credits of a stream nothing was written to.         *)
LEMMA OpenOrder ==
  ASSUME IInv, TypeOK', OrderInv, NEW p \in Peer, RecvOpen(p)
  PROVE  OrderInv'
<1> DEFINE s == Head(chan[p]).s
           n == Head(chan[p]).n
<1>0. TypeOK
  BY DEF IInv
<1>1. /\ chan[p] # <<>> /\ Head(chan[p]).t = "OPEN"
      /\ sendQueue' = sendQueue /\ written' = written /\ delivered' = delivered
      /\ Reply(p, <<>>) \/ Reply(p, <<ErrorMsg(s)>>)
      /\ sendCredits' = sendCredits \/ sendCredits' = [sendCredits EXCEPT ![p][s] = n]
  BY DEF RecvOpen, Incoming, flow
<1>2. s \in Stream /\ 1 \in DOMAIN chan[p] /\ Head(chan[p]) = chan[p][1]
  BY <1>0, <1>1, HeadMessage
<1>3. state[p][s] = "NONE"
  BY <1>1, <1>2 DEF IInv, OpenOnce
<1> HIDE DEF s, n
<1>4. sendQueue[p][s] = <<>>
  BY <1>2, <1>3 DEF OrderInv, QueueWaits
<1>5. \A q \in Peer : \E k \in {0, 1} : DataKept(q, k)
  <2>1. <<>> \in Seq(Message) /\ \A i \in DOMAIN <<>> : <<>>[i].t # "DATA"
    OBVIOUS
  <2>2. <<ErrorMsg(s)>> \in Seq(Message) /\ \A i \in DOMAIN <<ErrorMsg(s)>> : <<ErrorMsg(s)>>[i].t # "DATA"
    BY <1>2, Messages DEF ErrorMsg
  <2> QED BY <1>0, <1>1, <2>1, <2>2, ReplyKeepsData
<1>6. PayloadsInLine'
  BY <1>0, <1>1, <1>5, LinesKept DEF OrderInv
<1>7. QueueWaits'
  <2>1. \A o \in Peer, r \in Stream : state'[o][r] = "NONE" => state[o][r] = "NONE"
    BY <1>0, NeverUnmade DEF Deliver
  <2>2. \A o \in Peer, r \in Stream : o # p \/ r # s => sendCredits'[o][r] = sendCredits[o][r]
    <3>1. sendCredits \in [Peer -> [Stream -> Nat]]
      BY <1>0 DEF TypeOK
    <3>2. CASE sendCredits' = [sendCredits EXCEPT ![p][s] = n]
      BY <1>2, <3>1, <3>2, FieldRead
    <3> QED BY <1>1, <3>2
  <2> QED BY <1>1, <1>4, <2>1, <2>2 DEF OrderInv, QueueWaits
<1> QED BY <1>6, <1>7 DEF OrderInv

(* The credits of a STREAM_WINDOW_UPDATE let the head of the queue go.      *)
LEMMA CreditsOrder ==
  ASSUME TypeOK, TypeOK', OrderInv, NEW p \in Peer, RecvCredits(p)
  PROVE  OrderInv'
<1> DEFINE q == Other(p)
           s == Head(chan[p]).s
           credits == Clamp(sendCredits[p][s] + Head(chan[p]).n)
           queue == sendQueue[p][s]
           k == IF Len(queue) < credits THEN Len(queue) ELSE credits
           msgs == [i \in 1..k |-> DataMsg(s, queue[i])]
           rest == SubSeq(queue, k + 1, Len(queue))
<1>1. q \in Peer /\ q # p /\ Other(q) = p
  BY OtherPeer
<1>2. /\ chan[p] # <<>> /\ Head(chan[p]).t = "WINDOW"
      /\ sendCredits' = [sendCredits EXCEPT ![p][s] = credits - k]
      /\ sendQueue' = [sendQueue EXCEPT ![p][s] = rest]
      /\ Reply(p, msgs)
      /\ state' = state /\ written' = written /\ delivered' = delivered
  BY DEF RecvCredits, Incoming
<1>3. s \in Stream /\ Head(chan[p]).n \in Nat
  BY <1>2, HeadMessage
<1>4. /\ delivered[q][s] \in Seq(Nat) /\ chan[q] \in Seq(Message) /\ chan[p] \in Seq(Message)
      /\ queue \in Seq(Nat) /\ written[p][s] \in Nat /\ sendCredits[p][s] \in Nat
  BY <1>1, <1>3, LineTypes
<1>5. credits \in Nat
  <2> HIDE DEF s
  <2> QED BY <1>3, <1>4, StreamMuxAssumption DEF Clamp
<1> HIDE DEF s, credits, queue
<1>6. k \in Nat /\ k <= Len(queue) /\ (credits - k # 0 => k = Len(queue))
  BY <1>4, <1>5
<1>7. rest \in Seq(Nat) /\ (queue = <<>> \/ k = Len(queue) => rest = <<>>)
  <2> HIDE DEF k
  <2>1. k + 1 \in Int /\ Len(queue) \in Int /\ (k = Len(queue) => Len(queue) < k + 1)
    BY <1>4, <1>6
  <2>2. \A i \in (k + 1)..Len(queue) : queue[i] \in Nat
    BY <1>4, <1>6
  <2>3. rest \in Seq(Nat)
    BY <2>1, <2>2, SubSeqProperties
  <2>4. queue = <<>> => k = Len(queue)
    BY <1>4, <1>6
  <2>5. k = Len(queue) => rest = <<>>
    BY <2>1, SubSeqEmpty
  <2> QED BY <2>3, <2>4, <2>5
<1>8. msgs \in Seq(Message) /\ \A i \in DOMAIN msgs : msgs[i].s = s
  <2> HIDE DEF k
  <2>1. \A i \in 1..k : DataMsg(s, queue[i]) \in Message
    <3>1. \A i \in 1..k : queue[i] \in Nat
      BY <1>4, <1>6
    <3> QED BY <1>3, <3>1 DEF DataMsg, Message
  <2>2. \A i \in 1..k : DataMsg(s, queue[i]).s = s
    BY DEF DataMsg
  <2> QED BY <1>6, <2>1, <2>2, SMTT(30)
<1>9. InLine(delivered[q][s], chan[q], s, queue, written[p][s])
  BY <1>1, <1>3 DEF OrderInv, PayloadsInLine, queue
<1>10. InLine(delivered[q][s], chan[q] \o msgs, s, rest, written[p][s])
  <2> HIDE DEF k
  <2> QED BY <1>3, <1>4, <1>6, <1>9, LineDrained
<1> HIDE DEF k, msgs, rest
<1>11. chan'[q] = chan[q] \o msgs /\ chan'[p] = Tail(chan[p])
  <2>1. chan \in [Peer -> Seq(Message)]
    BY DEF TypeOK
  <2> QED BY <1>1, <1>2, <2>1 DEF Reply
<1>12. \A o \in Peer, r \in Stream :
         /\ sendQueue'[o][r] = IF o = p /\ r = s THEN rest ELSE sendQueue[o][r]
         /\ sendCredits'[o][r] = IF o = p /\ r = s THEN credits - k ELSE sendCredits[o][r]
  <2>1. sendCredits \in [Peer -> [Stream -> Nat]] /\ sendQueue \in [Peer -> [Stream -> Seq(Nat)]]
    BY DEF TypeOK
  <2> QED BY <1>2, <1>3, <2>1, FieldRead
<1>13. \A r \in Stream : Fewer(chan[p], r, chan'[p], 1)
  BY <1>4, <1>11 DEF Fewer
<1>14. \A r \in Stream : r # s => Fewer(chan[q], r, chan'[q], 0)
  <2>1. \A i \in DOMAIN chan'[q] : /\ i \in Nat
                                   /\ i \in DOMAIN chan[q] => chan'[q][i] = chan[q][i]
                                   /\ i \notin DOMAIN chan[q] => chan'[q][i].s = s
    <3>1. \A i \in DOMAIN chan'[q] :
            /\ i \in Nat
            /\ i \in DOMAIN chan[q] => chan'[q][i] = chan[q][i]
            /\ i \notin DOMAIN chan[q] => /\ i - Len(chan[q]) \in DOMAIN msgs
                                          /\ chan'[q][i] = msgs[i - Len(chan[q])]
      BY <1>4, <1>8, <1>11
    <3> QED BY <1>8, <3>1
  <2> QED BY <2>1 DEF Fewer, Carries
<1>15. ASSUME NEW o \in Peer, NEW r \in Stream, o # q \/ r # s
       PROVE  InLine(delivered'[o][r], chan'[o], r, sendQueue'[Other(o)][r], written'[Other(o)][r])
  <2>1. PICK j \in {0, 1} : Fewer(chan[o], r, chan'[o], j)
    BY <1>13, <1>14, <1>15, TwoPeers
  <2>2. Other(o) \in Peer /\ (Other(o) # p \/ r # s)
    BY <1>1, <1>15, OtherPeer
  <2>3. sendQueue'[Other(o)][r] = sendQueue[Other(o)][r]
    BY <1>12, <2>2
  <2> QED BY <1>2, <2>1, <2>3, OneLineKept DEF OrderInv
<1>16. PayloadsInLine'
  <2>1. InLine(delivered'[q][s], chan'[q], s, sendQueue'[Other(q)][s], written'[Other(q)][s])
    BY <1>1, <1>2, <1>3, <1>10, <1>11, <1>12
  <2> QED BY <1>15, <2>1 DEF PayloadsInLine
<1>17. QueueWaits'
  <2>1. rest # <<>> => state[p][s] # "NONE" /\ credits - k = 0
    BY <1>3, <1>6, <1>7 DEF OrderInv, QueueWaits, queue
  <2> QED BY <1>2, <1>12, <2>1 DEF OrderInv, QueueWaits
<1> QED BY <1>16, <1>17 DEF OrderInv

(* Nothing is in line at first, and every step keeps the line.              *)
LEMMA OrderInit == Init => OrderInv
<1> SUFFICES ASSUME Init PROVE OrderInv
  OBVIOUS
<1>1. QueueWaits
  BY DEF Init, QueueWaits
<1>2. ASSUME NEW p \in Peer, NEW s \in Stream
      PROVE  InLine(delivered[p][s], chan[p], s, sendQueue[Other(p)][s], written[Other(p)][s])
  <2>1. delivered[p][s] = <<>> /\ chan[p] = <<>> /\ sendQueue[Other(p)][s] = <<>>
    BY OtherPeer DEF Init
  <2> QED BY <2>1, LineMeans
<1> QED BY <1>1, <1>2 DEF OrderInv, PayloadsInLine

LEMMA OrderStep == IInv /\ OrderInv /\ [Next]_vars => OrderInv'
<1> SUFFICES ASSUME IInv, OrderInv, [Next]_vars PROVE OrderInv'
  OBVIOUS
<1>0. TypeOK /\ TypeOK'
  BY IInvStep DEF IInv
<1>1. CASE UNCHANGED vars
  BY <1>1 DEF vars, OrderInv, PayloadsInLine, QueueWaits
<1>2. ASSUME NEW p \in Peer, App(p) PROVE OrderInv'
  BY <1>0, <1>2, AppOrder, WriteOrder
<1>3. ASSUME NEW p \in Peer, Deliver(p) PROVE OrderInv'
  <2>1. CASE RecvOpen(p)
    BY <1>0, <2>1, OpenOrder
  <2>2. CASE RecvData(p)
    BY <1>0, <2>2, DataOrder
  <2>3. CASE RecvCredits(p)
    BY <1>0, <2>3, CreditsOrder
  <2>4. CASE RecvUnknown(p) \/ RecvEnd(p) \/ RecvError(p)
    <3> DEFINE s == Head(chan[p]).s
    <3>1. /\ chan[p] # <<>>
          /\ delivered' = delivered /\ written' = written /\ sendCredits' = sendCredits
          /\ \/ sendQueue' = sendQueue
             \/ sendQueue' = [sendQueue EXCEPT ![p][s] = <<>>]
          /\ Reply(p, <<>>) \/ Reply(p, <<ErrorMsg(s)>>)
      BY <2>4 DEF RecvUnknown, RecvEnd, RecvError, Incoming, flow
    <3>2. s \in Stream
      BY <1>0, <3>1, HeadMessage
    <3> HIDE DEF s
    <3>3. \A q \in Peer, r \in Stream : sendQueue'[q][r] \in {sendQueue[q][r], <<>>}
      <4>1. CASE sendQueue' = [sendQueue EXCEPT ![p][s] = <<>>]
        <5>1. \A q \in Peer, r \in Stream :
                sendQueue'[q][r] = IF q = p /\ r = s THEN <<>> ELSE sendQueue[q][r]
          <6>1. sendQueue \in [Peer -> [Stream -> Seq(Nat)]]
            BY <1>0 DEF TypeOK
          <6> QED BY <3>2, <4>1, <6>1, FieldRead
        <5> QED BY <5>1
      <4> QED BY <3>1, <4>1
    <3>4. \A q \in Peer : \E k \in {0, 1} : DataKept(q, k)
      <4>1. <<>> \in Seq(Message) /\ \A i \in DOMAIN <<>> : <<>>[i].t # "DATA"
        OBVIOUS
      <4>2. <<ErrorMsg(s)>> \in Seq(Message) /\ \A i \in DOMAIN <<ErrorMsg(s)>> : <<ErrorMsg(s)>>[i].t # "DATA"
        BY <3>2, Messages DEF ErrorMsg
      <4> QED BY <1>0, <3>1, <4>1, <4>2, ReplyKeepsData
    <3>5. \A q \in Peer, r \in Stream : state'[q][r] = "NONE" => state[q][r] = "NONE"
      BY <1>0, <1>3, NeverUnmade
    <3> QED BY <1>0, <3>1, <3>3, <3>4, <3>5, OrderQuiet
  <2> QED BY <1>3, <2>1, <2>2, <2>3, <2>4 DEF Deliver
<1> QED BY <1>1, <1>2, <1>3 DEF Next

LEMMA OrderDelivers == OrderInv => DeliveredInOrder
  BY LineMeans DEF OrderInv, PayloadsInLine, DeliveredInOrder

-----------------------------------------------------------------------------
(* File transfers.  addChunk() counts a chunk once ...                       *)
CountsOnce(seq, S) ==
  \A i, j \in DOMAIN seq : seq[i] \in S /\ (seq[i] = seq[j] => i = j)

LEMMA Counting ==
  ASSUME NEW seq \in Seq(File!Chunk), NEW S, CountsOnce(seq, S), NEW c \in File!Chunk
  PROVE  /\ File!AddChunk(seq, c) \in Seq(File!Chunk)
         /\ CountsOnce(File!AddChunk(seq, c), S \cup {c})
<1> DEFINE C == File!Chunk
<1>0. seq \in Seq(C) /\ c \in C
  OBVIOUS
<1> HIDE DEF C
<1>1. CASE \E i \in DOMAIN seq : seq[i] = c
  BY <1>0, <1>1 DEF File!AddChunk, CountsOnce, C
<1>2. CASE ~ \E i \in DOMAIN seq : seq[i] = c
  <2>1. File!AddChunk(seq, c) = Append(seq, c)
    BY <1>2 DEF File!AddChunk
  <2> DEFINE got == Append(seq, c)
  <2>2. got \in Seq(C) /\ Len(seq) \in Nat
    BY <1>0
  <2>3. \A i \in DOMAIN got : \/ i \in DOMAIN seq /\ got[i] = seq[i]
                              \/ i = Len(seq) + 1 /\ got[i] = c
    BY <1>0
  <2> HIDE DEF got
  <2>4. CountsOnce(got, S \cup {c})
    BY <1>2, <2>3 DEF CountsOnce
  <2> QED BY <2>1, <2>2, <2>4 DEF got, C
<1> QED BY <1>1, <1>2

(* ... so that a count of Total chunks is a count of them all.               *)
LEMMA AllCounted ==
  ASSUME NEW seq \in Seq(File!Chunk), NEW S \in SUBSET File!Chunk, CountsOnce(seq, S),
         Len(seq) >= Total
  PROVE  S = File!Chunk
<1> USE StreamsAssumption
<1>1. File!Chunk = 1..Total
  BY DEF File!Chunk
<1>2. seq \in [1..Len(seq) -> 1..Total] /\ Len(seq) \in Nat
  BY <1>1
<1>3. seq \in Injection(1..Len(seq), 1..Total)
  BY <1>2 DEF Injection, IsInjective, CountsOnce
<1>4. /\ IsFiniteSet(1..Total) /\ Cardinality(1..Total) = Total
      /\ Cardinality(1..Len(seq)) = Len(seq)
  <2>1. \A n \in Nat : IsFiniteSet(1..n) /\ Cardinality(1..n) = IF 1 > n THEN 0 ELSE n - 1 + 1
    BY FS_Interval
  <2>2. \A n \in Nat : IsFiniteSet(1..n) /\ Cardinality(1..n) = n
    BY <2>1
  <2> QED BY <1>2, <2>2
<1>5. Len(seq) = Total
  <2>1. Cardinality(1..Len(seq)) <= Cardinality(1..Total)
    BY <1>3, <1>4, FS_Injection
  <2>2. Len(seq) <= Total
    BY <1>4, <2>1
  <2>3. \A n \in Nat : n <= Total /\ n >= Total => n = Total
    OBVIOUS
  <2> QED BY <1>2, <2>2, <2>3
<1>6. seq \in Surjection(1..Len(seq), 1..Total)
  BY <1>3, <1>4, <1>5, FS_Injection
<1>7. \A c \in 1..Total : \E i \in 1..Len(seq) : seq[i] = c
  BY <1>6 DEF Surjection
<1>8. DOMAIN seq = 1..Len(seq) /\ \A i \in DOMAIN seq : seq[i] \in S
  BY <1>2 DEF CountsOnce
<1> QED BY <1>1, <1>7, <1>8

LEMMA FileInit == File!Init => File!ReportsInv
<1> SUFFICES ASSUME File!Init PROVE File!ReportsInv
  OBVIOUS
<1> USE StreamsAssumption
<1>1. counted \in [File!States -> Seq(File!Chunk)] /\ \A s \in File!States : DOMAIN counted[s] = {}
  BY DEF File!Init
<1>2. 0 \in File!States
  BY DEF File!States
<1>3. File!CountsAreTrue
  <2>1. verifying = [x \in File!States \X File!Chunk |-> 0]
    BY DEF File!Init
  <2>2. /\ verifying \in [File!States \X File!Chunk -> Int]
        /\ \A c \in File!Chunk : verifying[0, c] = 0
    <3> DEFINE X == File!States \X File!Chunk
    <3>1. \A c \in File!Chunk : <<0, c>> \in X
      BY <1>2
    <3> HIDE DEF X
    <3>2. verifying = [x \in X |-> 0]
      BY <2>1 DEF X
    <3>3. verifying \in [X -> Int] /\ \A x \in X : verifying[x] = 0
      BY <3>2
    <3> QED BY <3>1, <3>3 DEF X
  <2>3. accepts = 0 /\ yielded = {} /\ stored = {}
    BY DEF File!Init
  <2> QED BY <1>1, <2>2, <2>3 DEF File!CountsAreTrue
<1>4. File!ReportsAreTrue
  BY DEF File!Init, File!ReportsAreTrue
<1> QED BY <1>3, <1>4 DEF File!ReportsInv

(* A step that counts nothing and completes no transfer keeps the reports    *)
(* true: control messages, offers, cancellations.                            *)
LEMMA FileQuiet ==
  ASSUME File!ReportsInv, UNCHANGED <<counted, stored, yielded, verifying, reported>>,
         accepts' \in Nat, <<"taker", "complete">> \in mail' => <<"taker", "complete">> \in mail
  PROVE  File!ReportsInv'
<1>1. File!CountsAreTrue'
  BY DEF File!ReportsInv, File!CountsAreTrue
<1>2. File!ReportsAreTrue'
  BY DEF File!ReportsInv, File!ReportsAreTrue
<1> QED BY <1>1, <1>2 DEF File!ReportsInv

LEMMA FileStep == File!ReportsInv /\ [File!Next]_file => File!ReportsInv'
<1> SUFFICES ASSUME File!ReportsInv, [File!Next]_file PROVE File!ReportsInv'
  OBVIOUS
<1> USE StreamsAssumption
<1>0. /\ accepts \in Nat /\ yielded \in SUBSET File!Chunk /\ stored \in SUBSET File!Chunk
      /\ verifying \in [File!States \X File!Chunk -> Int]
      /\ \A c \in File!Chunk : verifying[<<0, c>>] = 0
      /\ counted \in [File!States -> Seq(File!Chunk)]
      /\ \A t \in File!States : CountsOnce(counted[t], IF t = 0 THEN yielded ELSE stored)
  BY DEF File!ReportsInv, File!CountsAreTrue, CountsOnce
<1>1. /\ reported => stored = File!Chunk
      /\ <<"taker", "complete">> \in mail => yielded = File!Chunk
  BY DEF File!ReportsInv, File!ReportsAreTrue
<1>2. 0 \in File!States
  BY DEF File!States
<1>3. ASSUME NEW e, NEW type, File!Emit(e, type), e # "sender" \/ type # "complete", e \in File!End
      PROVE  <<"taker", "complete">> \in mail' => <<"taker", "complete">> \in mail
  BY <1>3 DEF File!Emit, File!Other, File!End
<1>4. CASE UNCHANGED file
  BY <1>0, <1>4, FileQuiet DEF file
<1>5. CASE File!CreateOffer
  <2>1. UNCHANGED <<counted, stored, yielded, verifying, reported, accepts>> /\ File!Emit("sender", "offer")
    BY <1>5 DEF File!CreateOffer, File!receiving
  <2> QED BY <1>0, <1>3, <2>1, FileQuiet DEF File!End
<1>6. CASE File!AcceptOffer
  <2>1. UNCHANGED <<counted, stored, yielded, verifying, reported>> /\ accepts' = accepts + 1 /\ File!Emit("taker", "accept")
    BY <1>6 DEF File!AcceptOffer, File!receiving
  <2> QED BY <1>0, <1>3, <2>1, FileQuiet DEF File!End
<1>7. CASE File!RejectOffer
  <2>1. UNCHANGED <<counted, stored, yielded, verifying, reported, accepts>> /\ File!Emit("taker", "reject")
    BY <1>7 DEF File!RejectOffer, File!receiving
  <2> QED BY <1>0, <1>3, <2>1, FileQuiet DEF File!End
<1>8. ASSUME NEW e \in File!End, File!CancelTransfer(e) PROVE File!ReportsInv'
  <2>1. UNCHANGED <<counted, stored, yielded, verifying, reported, accepts>> /\ File!Emit(e, "cancel")
    BY <1>8 DEF File!CancelTransfer, File!receiving
  <2> QED BY <1>0, <1>3, <2>1, FileQuiet
<1>9. ASSUME NEW m \in mail, File!Dispatch(m) PROVE File!ReportsInv'
  <2>1. UNCHANGED <<counted, stored, yielded, verifying, reported, accepts>> /\ mail' = mail \ {m}
    BY <1>9 DEF File!Dispatch, File!receiving
  <2> QED BY <1>0, <2>1, FileQuiet
<1>10. CASE File!StartSending
  <2>1. UNCHANGED <<counted, stored, yielded, verifying, reported, accepts, mail>>
    BY <1>10 DEF File!StartSending, File!receiving
  <2> QED BY <1>0, <2>1, FileQuiet
<1>11. CASE File!EndSending
  <2>1. UNCHANGED <<counted, stored, yielded, verifying, reported, accepts>>
    BY <1>11 DEF File!EndSending, File!receiving
  <2>2. mail' = mail \/ Len(counted[0]) >= Total
    BY <1>11 DEF File!EndSending
  <2>3. Len(counted[0]) >= Total => yielded = File!Chunk
    BY <1>0, <1>2, AllCounted
  <2>4. File!CountsAreTrue'
    BY <2>1 DEF File!ReportsInv, File!CountsAreTrue
  <2>5. File!ReportsAreTrue'
    BY <1>1, <2>1, <2>2, <2>3 DEF File!ReportsAreTrue
  <2> QED BY <2>4, <2>5 DEF File!ReportsInv
<1>12. CASE File!SendChunk
  <2> DEFINE c == pos + 1
  <2>1. /\ c \in File!Chunk
        /\ counted' = [counted EXCEPT ![0] = File!AddChunk(counted[0], c)]
        /\ yielded' = yielded \cup {c}
        /\ UNCHANGED <<stored, verifying, reported, accepts, mail>>
    BY <1>12 DEF File!SendChunk, File!receiving, File!Chunk
  <2> HIDE DEF c
  <2>2. /\ File!AddChunk(counted[0], c) \in Seq(File!Chunk)
        /\ CountsOnce(File!AddChunk(counted[0], c), yielded \cup {c})
    BY <1>0, <1>2, <2>1, Counting
  <2>3. /\ counted' \in [File!States -> Seq(File!Chunk)]
        /\ \A t \in File!States : counted'[t] = IF t = 0 THEN File!AddChunk(counted[0], c) ELSE counted[t]
    BY <1>0, <1>2, <2>1, <2>2
  <2>4. \A t \in File!States : CountsOnce(counted'[t], IF t = 0 THEN yielded' ELSE stored')
    BY <1>0, <2>1, <2>2, <2>3
  <2>5. File!CountsAreTrue'
    BY <1>0, <2>1, <2>3, <2>4 DEF File!CountsAreTrue, CountsOnce
  <2>6. File!ReportsAreTrue'
    BY <1>0, <1>1, <2>1 DEF File!ReportsAreTrue
  <2> QED BY <2>5, <2>6 DEF File!ReportsInv
<1>13. ASSUME NEW t \in File!States, NEW c \in File!Chunk, NEW n \in Int, t # 0,
              verifying' = [verifying EXCEPT ![<<t, c>>] = n]
       PROVE  /\ verifying' \in [File!States \X File!Chunk -> Int]
              /\ \A d \in File!Chunk : verifying'[<<0, d>>] = 0
  BY <1>0, <1>2, <1>13
<1>14. ASSUME NEW c \in File!Chunk, File!ChunkArrives(c) PROVE File!ReportsInv'
  <2>1. /\ verifying' = [verifying EXCEPT ![<<accepts + 1, c>>] = verifying[<<accepts + 1, c>>] + 1]
        /\ UNCHANGED <<counted, stored, yielded, reported, accepts, mail>>
    BY <1>14 DEF File!ChunkArrives, File!Current, File!transfer
  <2>2. /\ verifying' \in [File!States \X File!Chunk -> Int]
        /\ \A d \in File!Chunk : verifying'[<<0, d>>] = 0
    <3>1. CASE accepts + 1 \in File!States
      <4>1. verifying[<<accepts + 1, c>>] + 1 \in Int /\ accepts + 1 # 0
        BY <1>0, <3>1
      <4> QED BY <1>13, <2>1, <3>1, <4>1
    <3>2. CASE accepts + 1 \notin File!States
      <4>1. <<accepts + 1, c>> \notin DOMAIN verifying
        BY <1>0, <3>2
      <4>2. verifying' = verifying
        BY <1>0, <2>1, <4>1
      <4> QED BY <1>0, <4>2
    <3> QED BY <3>1, <3>2
  <2>3. File!CountsAreTrue'
    <3>1. \A u \in File!States : CountsOnce(counted'[u], IF u = 0 THEN yielded' ELSE stored')
      BY <1>0, <2>1
    <3> QED BY <1>0, <2>1, <2>2, <3>1 DEF File!CountsAreTrue, CountsOnce
  <2>4. File!ReportsAreTrue'
    BY <1>1, <2>1 DEF File!ReportsAreTrue
  <2> QED BY <2>3, <2>4 DEF File!ReportsInv
<1>15. ASSUME NEW t \in File!States, NEW c \in File!Chunk, File!ChunkCorrupted(t, c)
       PROVE  File!ReportsInv'
  <2>1. /\ verifying[<<t, c>>] > 0
        /\ verifying' = [verifying EXCEPT ![<<t, c>>] = verifying[<<t, c>>] - 1]
        /\ UNCHANGED <<counted, stored, yielded, reported, accepts, mail>>
    BY <1>15 DEF File!ChunkCorrupted, File!transfer
  <2>2. /\ verifying' \in [File!States \X File!Chunk -> Int]
        /\ \A d \in File!Chunk : verifying'[<<0, d>>] = 0
    <3>1. t # 0 /\ verifying[<<t, c>>] - 1 \in Int
      BY <1>0, <2>1
    <3> QED BY <1>13, <2>1, <3>1
  <2>3. File!CountsAreTrue'
    <3>1. \A u \in File!States : CountsOnce(counted'[u], IF u = 0 THEN yielded' ELSE stored')
      BY <1>0, <2>1
    <3> QED BY <1>0, <2>1, <2>2, <3>1 DEF File!CountsAreTrue, CountsOnce
  <2>4. File!ReportsAreTrue'
    BY <1>1, <2>1 DEF File!ReportsAreTrue
  <2> QED BY <2>3, <2>4 DEF File!ReportsInv
<1>16. ASSUME NEW t \in File!States, NEW c \in File!Chunk, File!ChunkVerified(t, c)
       PROVE  File!ReportsInv'
  <2> DEFINE got == File!AddChunk(counted[t], c)
  <2>1. /\ verifying[<<t, c>>] > 0
        /\ verifying' = [verifying EXCEPT ![<<t, c>>] = verifying[<<t, c>>] - 1]
        /\ stored' = stored \cup {c}
        /\ counted' = [counted EXCEPT ![t] = got]
        /\ UNCHANGED <<yielded, accepts>>
        /\ reported' = reported \/ Len(got) >= Total
        /\ mail' = mail \/ File!Emit("taker", "complete")
    BY <1>16 DEF File!ChunkVerified
  <2>2. t # 0 /\ verifying[<<t, c>>] - 1 \in Int
    BY <1>0, <2>1
  <2>3. /\ verifying' \in [File!States \X File!Chunk -> Int]
        /\ \A d \in File!Chunk : verifying'[<<0, d>>] = 0
    BY <1>13, <2>1, <2>2
  <2>4. got \in Seq(File!Chunk) /\ CountsOnce(got, stored \cup {c})
    BY <1>0, <2>2, Counting
  <2> HIDE DEF got
  <2>5. /\ counted' \in [File!States -> Seq(File!Chunk)]
        /\ \A u \in File!States : counted'[u] = IF u = t THEN got ELSE counted[u]
    BY <1>0, <2>1, <2>4
  <2>6. \A u \in File!States : CountsOnce(counted'[u], IF u = 0 THEN yielded' ELSE stored')
    <3>1. \A u \in File!States : CountsOnce(counted[u], IF u = 0 THEN yielded' ELSE stored')
      BY <1>0, <2>1 DEF CountsOnce
    <3> QED BY <2>1, <2>2, <2>4, <2>5, <3>1
  <2>7. File!CountsAreTrue'
    BY <1>0, <2>1, <2>3, <2>5, <2>6 DEF File!CountsAreTrue, CountsOnce
  <2>8. stored' \in SUBSET File!Chunk /\ (Len(got) >= Total => stored' = File!Chunk)
    <3>1. stored \cup {c} \in SUBSET File!Chunk
      BY <1>0
    <3>2. Len(got) >= Total => stored \cup {c} = File!Chunk
      BY <2>4, <3>1, AllCounted
    <3> QED BY <2>1, <3>1, <3>2
  <2>9. <<"taker", "complete">> \in mail' => <<"taker", "complete">> \in mail
    BY <1>3, <2>1 DEF File!End
  <2>10. File!ReportsAreTrue'
    BY <1>0, <1>1, <2>1, <2>8, <2>9 DEF File!ReportsAreTrue
  <2> QED BY <2>7, <2>10 DEF File!ReportsInv
<1> QED BY <1>4, <1>5, <1>6, <1>7, <1>8, <1>9, <1>10, <1>11, <1>12, <1>14, <1>15, <1>16 DEF File!Next

-----------------------------------------------------------------------------
(* The two streams that compete: no payload is ever written, and no frame    *)
(* on the wires carries one.                                                 *)
Bare == {m \in Two!Message : m.t # "DATA"}

Idle(f) == [p \in Peer |-> [s \in TwoStreams |-> f]]

LEMMA BareMessages ==
  ASSUME NEW s \in TwoStreams, NEW n \in Nat, NEW u \in Nat
  PROVE  /\ <<Two!OpenMsg(s, n)>> \in Seq(Bare)
         /\ <<Two!EndMsg(s)>> \in Seq(Bare)
         /\ <<Two!ErrorMsg(s)>> \in Seq(Bare)
         /\ <<Two!WindowMsg(s, n, u)>> \in Seq(Bare)
         /\ <<>> \in Seq(Bare)
  BY DEF Two!OpenMsg, Two!EndMsg, Two!ErrorMsg, Two!WindowMsg, Two!Message, Bare

LEMMA BareWires ==
  ASSUME NothingWritten, NEW p \in Peer, NEW msgs \in Seq(Bare),
         Two!Emit(p, msgs) \/ (chan[p] # <<>> /\ Two!Reply(p, msgs))
  PROVE  chan' \in [Peer -> Seq(Bare)]
<1>1. chan \in [Peer -> Seq(Bare)]
  BY DEF NothingWritten, Bare
<1>2. Two!Other(p) \in Peer /\ Two!Other(p) # p
  BY DEF Two!Other, Peer
<1>3. chan[Two!Other(p)] \o msgs \in Seq(Bare) /\ (chan[p] # <<>> => Tail(chan[p]) \in Seq(Bare))
  BY <1>1, <1>2
<1>4. CASE Two!Emit(p, msgs)
  BY <1>1, <1>2, <1>3, <1>4 DEF Two!Emit
<1>5. CASE chan[p] # <<>> /\ Two!Reply(p, msgs)
  BY <1>1, <1>2, <1>3, <1>5 DEF Two!Reply
<1> QED BY <1>4, <1>5

LEMMA TwoInit == Two!Init => NothingWritten
<1> SUFFICES ASSUME Two!Init PROVE NothingWritten
  OBVIOUS
<1> QED BY DEF Two!Init, NothingWritten, Two!Peer, Peer

LEMMA TwoCardinality == \A S : Two!Cardinality(S) = Cardinality(S)
  BY DEF Two!Cardinality, Cardinality

LEMMA TwoStep == NothingWritten /\ Two!Next => NothingWritten'
<1> SUFFICES ASSUME NothingWritten, NEW p \in Peer, Two!App(p) \/ Two!Deliver(p)
             PROVE  NothingWritten'
  BY DEF Two!Next, Two!Peer, Peer
<1> USE StreamsAssumption
<1>0. /\ tracked \in [Peer -> SUBSET TwoStreams]
      /\ sendCredits \in [Peer -> [TwoStreams -> Nat]]
      /\ recvCredits \in [Peer -> [TwoStreams -> Nat]]
      /\ sendQueue = Idle(<<>>) /\ delivered = Idle(<<>>) /\ written = Idle(0)
      /\ chan \in [Peer -> Seq(Bare)]
  BY DEF NothingWritten, Idle, Bare
<1>1. ASSUME /\ tracked' \in [Peer -> SUBSET TwoStreams]
             /\ sendCredits' \in [Peer -> [TwoStreams -> Nat]]
             /\ recvCredits' \in [Peer -> [TwoStreams -> Nat]]
             /\ sendQueue' = sendQueue /\ delivered' = delivered /\ written' = written
             /\ chan' \in [Peer -> Seq(Bare)]
      PROVE  NothingWritten'
  BY <1>0, <1>1 DEF NothingWritten, Idle, Bare
<1>2. ASSUME NEW s \in TwoStreams
      PROVE  [sendQueue EXCEPT ![p][s] = <<>>] = sendQueue
  BY <1>0 DEF Idle
<1>3. ASSUME NEW s \in TwoStreams,
             tracked' = tracked \/ tracked' = [tracked EXCEPT ![p] = tracked[p] \cup {s}]
                                \/ tracked' = [tracked EXCEPT ![p] = tracked[p] \ {s}]
      PROVE  tracked' \in [Peer -> SUBSET TwoStreams]
  <2>1. PICK T \in SUBSET TwoStreams : tracked' = tracked \/ tracked' = [tracked EXCEPT ![p] = T]
    <3>1. tracked[p] \cup {s} \in SUBSET TwoStreams /\ tracked[p] \ {s} \in SUBSET TwoStreams
      BY <1>0
    <3> QED BY <1>3, <3>1
  <2> QED BY <1>0, <2>1
<1>4. ASSUME NEW s \in TwoStreams, \/ Two!Open(p, s) \/ Two!End(p, s) \/ Two!Close(p, s)
                                   \/ Two!Cancel(p, s)
      PROVE  NothingWritten'
  <2>1. chan' \in [Peer -> Seq(Bare)]
    <3>1. \/ chan' = chan
          \/ \E n \in {<<Two!OpenMsg(s, 1)>>, <<Two!EndMsg(s)>>, <<Two!ErrorMsg(s)>>} : Two!Emit(p, n)
      BY <1>4 DEF Two!Open, Two!End, Two!Close, Two!Cancel
    <3>2. \A n \in {<<Two!OpenMsg(s, 1)>>, <<Two!EndMsg(s)>>, <<Two!ErrorMsg(s)>>} : n \in Seq(Bare)
      BY BareMessages
    <3> QED BY <1>0, <3>1, <3>2, BareWires
  <2>2. tracked' \in [Peer -> SUBSET TwoStreams]
    BY <1>3, <1>4 DEF Two!Open, Two!End, Two!Close, Two!Cancel, Two!ForgetClosed
  <2>3. /\ UNCHANGED <<sendCredits, recvCredits, delivered, written>>
        /\ sendQueue' = sendQueue
    BY <1>2, <1>4 DEF Two!Open, Two!End, Two!Close, Two!Cancel, Two!flow
  <2> QED BY <1>0, <1>1, <2>1, <2>2, <2>3
<1>5. ASSUME NEW s \in TwoStreams, NEW n \in 1..1, Two!GrantCredits(p, s, n)
      PROVE  NothingWritten'
  <2> DEFINE u == recvCredits[p][s] + n
  <2>1. n \in Nat /\ u \in Nat
    BY <1>0
  <2>2. /\ Two!Emit(p, <<Two!WindowMsg(s, n, u)>>)
        /\ recvCredits' = [recvCredits EXCEPT ![p][s] = u]
        /\ UNCHANGED <<tracked, sendCredits, sendQueue, delivered, written>>
    BY <1>5 DEF Two!GrantCredits
  <2> HIDE DEF u
  <2>3. chan' \in [Peer -> Seq(Bare)]
    BY <2>1, <2>2, BareMessages, BareWires
  <2>4. recvCredits' \in [Peer -> [TwoStreams -> Nat]]
    BY <1>0, <2>1, <2>2
  <2> QED BY <1>0, <1>1, <2>2, <2>3, <2>4
<1>6. ASSUME NEW s \in TwoStreams, Two!Write(p, s) PROVE FALSE
  BY <1>0, <1>6 DEF Two!Write, Idle
<1>7. CASE Two!Reload(p)
  BY <1>0, <1>7 DEF Two!Reload, Idle
<1>8. CASE Two!CloseAll(p)
  <2>1. PICK order \in Two!Orderings(Two!Active(p)) :
          Two!Emit(p, [i \in 1..Cardinality(Two!Active(p)) |-> Two!ErrorMsg(order[i])])
    BY <1>8, TwoCardinality DEF Two!CloseAll
  <2> DEFINE k == Cardinality(Two!Active(p))
             msgs == [i \in 1..k |-> Two!ErrorMsg(order[i])]
  <2>2. Two!Active(p) \subseteq TwoStreams
    BY <1>0 DEF Two!Active
  <2>3. k \in Nat
    BY <2>2, FS_Subset, FS_CardinalityType
  <2>4. \A i \in 1..k : Two!ErrorMsg(order[i]) \in Bare
    BY <2>2, TwoCardinality DEF Two!Orderings, Two!ErrorMsg, Two!Message, Bare
  <2>5. msgs \in Seq(Bare)
    <3> HIDE DEF k
    <3> QED BY <2>3, <2>4
  <2>6. chan' \in [Peer -> Seq(Bare)]
    <3> HIDE DEF msgs
    <3>1. Two!Emit(p, msgs)
      BY <2>1 DEF msgs
    <3> QED BY <2>5, <3>1, BareWires
  <2>7. tracked' = [tracked EXCEPT ![p] = {}] /\ UNCHANGED <<sendCredits, recvCredits, delivered, written>>
    BY <1>8 DEF Two!CloseAll
  <2>8. sendQueue' = sendQueue
    BY <1>0, <1>8 DEF Two!CloseAll, Idle
  <2> QED BY <1>0, <1>1, <2>6, <2>7, <2>8
<1>9. CASE Two!App(p)
  BY <1>4, <1>5, <1>6, <1>7, <1>8, <1>9 DEF Two!App
<1> DEFINE s == Head(chan[p]).s
           n == Head(chan[p]).n
<1>10. chan[p] # <<>> => s \in TwoStreams /\ n \in Nat /\ Head(chan[p]).t # "DATA"
  <2>1. chan[p] # <<>> => Head(chan[p]) \in Bare
    BY <1>0
  <2> QED BY <2>1 DEF Bare, Two!Message
<1> HIDE DEF s, n
<1>11. ASSUME chan[p] # <<>>, Two!Reply(p, <<>>) \/ Two!Reply(p, <<Two!ErrorMsg(s)>>)
       PROVE  chan' \in [Peer -> Seq(Bare)]
  BY <1>10, <1>11, BareMessages, BareWires
<1>12. CASE Two!RecvOpen(p) \/ Two!RecvUnknown(p) \/ Two!RecvEnd(p) \/ Two!RecvError(p)
  <2>1. chan[p] # <<>> /\ (Two!Reply(p, <<>>) \/ Two!Reply(p, <<Two!ErrorMsg(s)>>))
    BY <1>12 DEF Two!RecvOpen, Two!RecvUnknown, Two!RecvEnd, Two!RecvError, Two!Incoming, s
  <2>2. tracked' \in [Peer -> SUBSET TwoStreams]
    <3>1. tracked' = tracked \/ tracked' = [tracked EXCEPT ![p] = tracked[p] \cup {s}]
                             \/ tracked' = [tracked EXCEPT ![p] = tracked[p] \ {s}]
      BY <1>12 DEF Two!RecvOpen, Two!RecvUnknown, Two!RecvEnd, Two!RecvError, Two!ForgetClosed, s
    <3> QED BY <1>3, <1>10, <2>1, <3>1
  <2>3. /\ sendCredits' \in [Peer -> [TwoStreams -> Nat]]
        /\ recvCredits' \in [Peer -> [TwoStreams -> Nat]]
    <3>1. \/ UNCHANGED <<sendCredits, recvCredits>>
          \/ /\ sendCredits' = [sendCredits EXCEPT ![p][s] = n]
             /\ recvCredits' = [recvCredits EXCEPT ![p][s] = n]
      BY <1>12 DEF Two!RecvOpen, Two!RecvUnknown, Two!RecvEnd, Two!RecvError, Two!flow, s, n
    <3>2. s \in TwoStreams /\ n \in Nat
      BY <1>10, <2>1
    <3>3. /\ [sendCredits EXCEPT ![p][s] = n] \in [Peer -> [TwoStreams -> Nat]]
          /\ [recvCredits EXCEPT ![p][s] = n] \in [Peer -> [TwoStreams -> Nat]]
      BY <1>0, <3>2
    <3> QED BY <1>0, <3>1, <3>3
  <2>4. sendQueue' = sendQueue /\ UNCHANGED <<delivered, written>>
    <3>1. sendQueue' = sendQueue \/ sendQueue' = [sendQueue EXCEPT ![p][s] = <<>>]
      BY <1>12 DEF Two!RecvOpen, Two!RecvUnknown, Two!RecvEnd, Two!RecvError, Two!flow, s
    <3>2. UNCHANGED <<delivered, written>>
      BY <1>12 DEF Two!RecvOpen, Two!RecvUnknown, Two!RecvEnd, Two!RecvError, Two!flow
    <3> QED BY <1>2, <1>10, <2>1, <3>1, <3>2
  <2> QED BY <1>1, <1>11, <2>1, <2>2, <2>3, <2>4
<1>13. ASSUME Two!RecvData(p) PROVE FALSE
  BY <1>10, <1>13 DEF Two!RecvData, Two!Incoming
<1>14. CASE Two!RecvCredits(p)
  <2> DEFINE credits == Two!Clamp(sendCredits[p][s] + n)
             queue == sendQueue[p][s]
             k == IF Len(queue) < credits THEN Len(queue) ELSE credits
             msgs == [i \in 1..k |-> Two!DataMsg(s, queue[i])]
             rest == SubSeq(queue, k + 1, Len(queue))
  <2>1. /\ chan[p] # <<>> /\ Two!Reply(p, msgs)
        /\ sendCredits' = [sendCredits EXCEPT ![p][s] = credits - k]
        /\ sendQueue' = [sendQueue EXCEPT ![p][s] = rest]
        /\ UNCHANGED <<tracked, recvCredits, written, delivered>>
    BY <1>14 DEF Two!RecvCredits, Two!Incoming, s, n
  <2>2. s \in TwoStreams /\ n \in Nat /\ sendCredits[p][s] \in Nat
    BY <1>0, <1>10, <2>1
  <2>3. queue = <<>>
    BY <1>0, <2>2 DEF Idle
  <2>4. credits \in Nat
    BY <2>2 DEF Two!Clamp
  <2> HIDE DEF credits, queue
  <2>5. k = 0
    BY <2>3, <2>4
  <2> HIDE DEF k
  <2>6. msgs = <<>>
    BY <2>5
  <2>7. rest = <<>>
    BY <2>3, <2>5
  <2> HIDE DEF msgs, rest
  <2>8. chan' \in [Peer -> Seq(Bare)]
    BY <1>11, <2>1, <2>6
  <2>9. sendCredits' \in [Peer -> [TwoStreams -> Nat]]
    <3>1. credits - k \in Nat
      BY <2>4, <2>5
    <3> QED BY <1>0, <2>1, <2>2, <3>1
  <2>10. sendQueue' = sendQueue
    BY <1>2, <2>1, <2>2, <2>7
  <2> QED BY <1>0, <1>1, <2>1, <2>8, <2>9, <2>10
<1>15. CASE Two!Deliver(p)
  BY <1>12, <1>13, <1>14, <1>15 DEF Two!Deliver
<1> QED BY <1>9, <1>15

-----------------------------------------------------------------------------
(* The inductive invariant of the runs, and what it says.                    *)
LEMMA StreamsInitially == MCInit => StreamsInv
  BY IInvInit, OrderInit, TwoInit, FileInit DEF MCInit, StreamsInv

LEMMA StreamsStep == StreamsInv /\ [MCNext]_<<run, vars, file>> => StreamsInv'
<1> SUFFICES ASSUME StreamsInv, [MCNext]_<<run, vars, file>> PROVE StreamsInv'
  OBVIOUS
<1>0. run' = run
  BY DEF MCNext
<1>1. File!ReportsInv'
  <2>1. [File!Next]_file
    BY DEF MCNext, file
  <2> QED BY <2>1, FileStep DEF StreamsInv
<1>2. ASSUME run # "two" PROVE (IInv /\ OrderInv)'
  <2>1. [Next]_vars
    BY <1>2 DEF MCNext
  <2> QED BY <1>2, <2>1, IInvStep, OrderStep DEF StreamsInv
<1>3. ASSUME run = "two" PROVE NothingWritten'
  <2>1. CASE Two!Next
    BY <1>3, <2>1, TwoStep DEF StreamsInv
  <2>2. CASE UNCHANGED vars
    BY <1>3, <2>2 DEF StreamsInv, NothingWritten, vars
  <2> QED BY <1>3, <2>1, <2>2 DEF MCNext
<1> QED BY <1>0, <1>1, <1>2, <1>3 DEF StreamsInv

LEMMA StreamsSafe == StreamsInv => DeliveredInOrderAndWhole
<1> SUFFICES ASSUME StreamsInv PROVE DeliveredInOrderAndWhole
  OBVIOUS
<1>1. File!ReportsAreTrue
  BY DEF StreamsInv, File!ReportsInv
<1>2. CASE run # "two"
  BY <1>1, <1>2, OrderDelivers DEF StreamsInv, DeliveredInOrderAndWhole
<1>3. CASE run = "two"
  <2>1. \A p \in Peer, s \in Stream : delivered[p][s] = <<>>
    BY <1>3, StreamsAssumption DEF StreamsInv, NothingWritten
  <2> QED BY <1>1, <2>1 DEF DeliveredInOrder, DeliveredInOrderAndWhole
<1> QED BY <1>2, <1>3

(* For any streams, limits and files: onData sees the payloads of a stream   *)
(* in the order write() accepted them and none twice, whatever waits in a    *)
(* send queue meanwhile; and receiveChunk() announces a file only when each  *)
(* of its chunks was verified and stored.                                    *)
THEOREM DeliveredInOrderAndWholeHolds == MCSpec => []DeliveredInOrderAndWhole
  BY StreamsInitially, StreamsStep, StreamsSafe, PTL DEF MCSpec
=============================================================================
