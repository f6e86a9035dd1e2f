---------------------------- MODULE GatewayBackend ----------------------------
(***************************************************************************)
(* GatewayBackend and its OperationQueue (browsermesh-netway).  Operations *)
(* are sent to a wsh gateway, or queued while the client is not            *)
(* authenticated and replayed by drain().  An operation registers for its  *)
(* answer only after the await of sendControl(), so everything else may    *)
(* run in between: answers, timers, drains, close().                       *)
(***************************************************************************)
EXTENDS Naturals, Sequences, FiniteSets, SequencesExt

CONSTANTS
  Tcp, Udp, Dns, Listen,   \* the operations, by kind
  MaxQueue,      \* maxSize of the OperationQueue
  MaxDrains,     \* bound: drain() calls
  MaxInbound     \* bound: inbound connections

Op == Tcp \cup Udp \cup Dns \cup Listen

VARIABLES
  online,     \* wshClient.state = "authenticated"
  queue,      \* OperationQueue.#queue
  drains,     \* drains[d]: what the d-th drain() call has spliced off and not finished
  phase,      \* progress of each operation
  result,     \* what its caller sees: "none", "waiting", "ok", "error"
  direct,     \* operations that were not queued
  channel,    \* the gateway's side: "none", "asked", "open", "shut"
  datagrams,  \* the sendDatagram() calls whose payload is being sent
  inbox,      \* messages from the gateway
  sockets,    \* #activeSockets, by operation or inbound number
  listeners,  \* #activeListeners
  inbound,    \* inbound connections the gateway has announced
  closing,    \* close(): "no", "started", "done"
  answered,   \* history: answers dispatched while the operation was being sent or waited for one
  early,      \* history: operations answered while sendControl() was still awaited
  enqueued,   \* history: order of the enqueue() calls
  replayed    \* history: replayed[d]: order in which the d-th drain() ran operations

vars == <<online, queue, drains, phase, result, direct, channel, datagrams, inbox, sockets,
          listeners, inbound, closing, answered, early, enqueued, replayed>>
ops == <<phase, result>>
answers == <<answered, early>>
hist == <<answers, enqueued, replayed>>
gateway == <<channel, inbox, inbound>>

Init ==
  /\ online = FALSE
  /\ queue = <<>> /\ drains = <<>>
  /\ phase = [o \in Op |-> "idle"] /\ result = [o \in Op |-> "none"]
  /\ direct = {}
  /\ channel = [o \in Op |-> "none"] /\ inbox = <<>> /\ datagrams = {}
  /\ sockets = {} /\ listeners = {}
  /\ inbound = 0
  /\ closing = "no"
  /\ answered = {} /\ early = {} /\ enqueued = <<>> /\ replayed = <<>>

-----------------------------------------------------------------------------
(* The connected getter. *)
Connected == online /\ closing = "no"

(* The operation has its entry in a pending map. *)
Registered(o) == phase[o] = "pending" /\ o \notin datagrams

(* The promise of an operation settles; a queued operation's caller hears of
   it from the drain that ran it. *)
Settle(o, outcome) ==
  /\ phase' = [phase EXCEPT ![o] = outcome]
  /\ result' = [result EXCEPT ![o] = IF o \notin direct THEN @
                                     ELSE IF outcome = "ok" THEN "ok" ELSE "error"]

(* connect(), listen(), sendDatagram(), resolve() on an authenticated client:
   the request goes out and the call awaits sendControl(). *)
CallDirect(o) ==
  /\ phase[o] = "idle" /\ Connected
  /\ direct' = direct \cup {o}
  /\ phase' = [phase EXCEPT ![o] = "sending"]
  /\ result' = [result EXCEPT ![o] = "waiting"]
  /\ channel' = [channel EXCEPT ![o] = "asked"]
  /\ UNCHANGED <<online, queue, drains, datagrams, inbox, sockets, listeners, inbound, closing, hist>>

(* OperationQueue.enqueue() *)
Enqueue(o) ==
  /\ phase[o] = "idle" /\ ~Connected
  /\ IF Len(queue) < MaxQueue
       THEN /\ queue' = Append(queue, o)
            /\ enqueued' = Append(enqueued, o)
            /\ phase' = [phase EXCEPT ![o] = "queued"]
            /\ result' = [result EXCEPT ![o] = "waiting"]
       ELSE /\ phase' = [phase EXCEPT ![o] = "refused"]
            /\ result' = [result EXCEPT ![o] = "error"]
            /\ UNCHANGED <<queue, enqueued>>
  /\ UNCHANGED <<online, drains, direct, gateway, datagrams, sockets, listeners, closing,
                 answers, replayed>>

(* executeFn(operation) on the first of what a drain() has left: the request
   goes out (or fails to, offline) in the same step. *)
Execute(rest) ==
  IF rest = <<>> THEN UNCHANGED <<phase, channel>>
  ELSE /\ phase' = [phase EXCEPT ![Head(rest)] = "sending"]
       /\ channel' = [channel EXCEPT ![Head(rest)] = IF online THEN "asked" ELSE @]

(* drain(): takes the whole queue and works it off one operation at a time. *)
StartDrain ==
  /\ queue # <<>> /\ Len(drains) < MaxDrains
  /\ drains' = Append(drains, queue)
  /\ queue' = <<>>
  /\ Execute(queue)
  /\ replayed' = Append(replayed, <<Head(queue)>>)
  /\ UNCHANGED <<online, result, direct, datagrams, inbox, inbound, sockets, listeners, closing,
                 answers, enqueued>>

Finished(o) == phase[o] \in {"ok", "failed", "timedout"}

NextOperation(d, outcome) ==
  /\ result' = [result EXCEPT ![Head(drains[d])] = outcome]
  /\ drains' = [drains EXCEPT ![d] = Tail(@)]
  /\ Execute(Tail(drains[d]))
  /\ replayed' = [replayed EXCEPT ![d] = IF Len(drains[d]) > 1 THEN Append(@, drains[d][2]) ELSE @]
  /\ UNCHANGED <<online, queue, direct, datagrams, inbox, inbound, sockets, listeners, closing,
                 answers, enqueued>>

(* The operation settles: its outcome becomes the caller's, and the loop goes on. *)
ReplaySettled(d) ==
  /\ drains[d] # <<>> /\ Finished(Head(drains[d]))
  /\ NextOperation(d, IF phase[Head(drains[d])] = "ok" THEN "ok" ELSE "error")

(* drainTimeoutMs passes: the caller is rejected, the operation itself goes on. *)
DrainTimeout(d) ==
  /\ drains[d] # <<>> /\ ~Finished(Head(drains[d]))
  /\ NextOperation(d, "error")

(* sendControl() resolves: now the pending entry is registered and its timer
   started; close() in between is not looked at. *)
SendResolves(o) ==
  /\ phase[o] = "sending" /\ channel[o] # "none"
  /\ phase' = [phase EXCEPT ![o] = "pending"]
  /\ UNCHANGED <<online, queue, drains, result, direct, gateway, datagrams, sockets, listeners,
                 closing, hist>>

(* sendControl() rejects. *)
SendFails(o) ==
  /\ phase[o] = "sending" /\ (~online \/ channel[o] = "none")
  /\ Settle(o, "failed")
  /\ UNCHANGED <<online, queue, drains, direct, gateway, datagrams, sockets, listeners, closing, hist>>

TimeoutForgotten(o) ==
  /\ phase[o] = "pending" /\ closing = "no"
  /\ Settle(o, "timedout")
  /\ UNCHANGED <<online, queue, drains, direct, gateway, datagrams, sockets, listeners, closing, hist>>

(* #withTimeout(): the pending entry, if there still is one, is dropped and
   the operation rejected. *)
Timeout(o) ==
  /\ phase[o] = "pending"
  /\ Settle(o, "timedout")
  /\ UNCHANGED <<online, queue, drains, direct, gateway, datagrams, sockets, listeners, closing, hist>>

-----------------------------------------------------------------------------
(* The gateway and the connection to it.  The answer may come before the
   await of sendControl() is over. *)
GatewayAnswers(o, good) ==
  /\ channel[o] = "asked"
  /\ channel' = [channel EXCEPT ![o] = IF good THEN "open" ELSE "shut"]
  /\ inbox' = Append(inbox, <<IF good THEN "ok" ELSE "fail", o>>)
  /\ UNCHANGED <<online, queue, drains, ops, direct, datagrams, sockets, listeners, inbound,
                 closing, hist>>

GatewayCloses(o) ==
  /\ o \in Tcp \cup Listen /\ channel[o] = "open"
  /\ channel' = [channel EXCEPT ![o] = "shut"]
  /\ inbox' = Append(inbox, <<"close", o>>)
  /\ UNCHANGED <<online, queue, drains, ops, direct, datagrams, sockets, listeners, inbound,
                 closing, hist>>

GatewayInbound(o) ==
  /\ o \in Listen /\ channel[o] = "open" /\ inbound < MaxInbound
  /\ inbound' = inbound + 1
  /\ inbox' = Append(inbox, <<"inbound", o>>)
  /\ UNCHANGED <<online, queue, drains, ops, direct, channel, datagrams, sockets, listeners,
                 closing, hist>>

SetOnline ==
  /\ online' = ~online
  /\ UNCHANGED <<queue, drains, ops, direct, gateway, datagrams, sockets, listeners, closing, hist>>

-----------------------------------------------------------------------------
(* #handleGatewayMessage() *)
Answered(kind, o) ==
  /\ answered' = IF phase[o] = "sending" \/ Registered(o) THEN answered \cup {<<kind, o>>} ELSE answered
  /\ early' = IF phase[o] = "sending" THEN early \cup {o} ELSE early

(* GATEWAY_OK, DNS_RESULT, LISTEN_OK: nothing without a pending entry.  On a
   UDP channel sendControl() is called for the datagram: offline it rejects at
   once, otherwise the call awaits it, and its entry is gone. *)
HandleOk(o) ==
  /\ Answered("ok", o)
  /\ IF Registered(o) /\ (o \in Udp => ~online)
       THEN Settle(o, IF o \in Udp THEN "failed" ELSE "ok") ELSE UNCHANGED ops
  /\ datagrams' = IF Registered(o) /\ o \in Udp /\ online THEN datagrams \cup {o} ELSE datagrams
  /\ sockets' = IF Registered(o) /\ o \in Tcp THEN sockets \cup {o} ELSE sockets
  /\ listeners' = IF Registered(o) /\ o \in Listen THEN listeners \cup {o} ELSE listeners
  /\ UNCHANGED channel

(* GATEWAY_FAIL, LISTEN_FAIL *)
HandleFail(o) ==
  /\ Answered("fail", o)
  /\ IF Registered(o) THEN Settle(o, "failed") ELSE UNCHANGED ops
  /\ UNCHANGED <<sockets, listeners, channel, datagrams>>

(* GATEWAY_CLOSE, LISTEN_CLOSE *)
HandleClose(o) ==
  /\ sockets' = sockets \ {o}
  /\ listeners' = listeners \ {o}
  /\ UNCHANGED <<ops, channel, datagrams, answers>>

HandleInboundAlways(o) ==
  /\ sockets' = sockets \cup {<<"inbound", inbound>>}
  /\ UNCHANGED <<ops, listeners, channel, datagrams, answers>>

(* INBOUND_OPEN: accepted on an active listener, else rejected.  The relay
   socket is stored under the next local id. *)
HandleInbound(o) ==
  /\ sockets' = IF o \in listeners THEN sockets \cup {<<"inbound", inbound>>} ELSE sockets
  /\ UNCHANGED <<ops, listeners, channel, datagrams, answers>>

HandleGatewayMessage ==
  /\ inbox # <<>>
  /\ inbox' = Tail(inbox)
  /\ LET o == Head(inbox)[2] IN
       \/ Head(inbox)[1] = "ok" /\ HandleOk(o)
       \/ Head(inbox)[1] = "fail" /\ HandleFail(o)
       \/ Head(inbox)[1] = "close" /\ HandleClose(o)
       \/ Head(inbox)[1] = "inbound" /\ HandleInbound(o)
  /\ UNCHANGED <<online, queue, drains, direct, inbound, closing, enqueued, replayed>>

(* The await of sendControl() for the datagram is over: the channel is closed
   and the call resolved, or it is rejected; nothing, if its timer fired. *)
DatagramSent(o) ==
  /\ o \in datagrams
  /\ datagrams' = datagrams \ {o}
  /\ channel' = [channel EXCEPT ![o] = IF online THEN "shut" ELSE @]
  /\ IF phase[o] = "pending" THEN Settle(o, "ok") ELSE UNCHANGED ops
  /\ UNCHANGED <<online, queue, drains, direct, inbox, inbound, sockets, listeners, closing, hist>>

DatagramFails(o) ==
  /\ o \in datagrams /\ ~online
  /\ datagrams' = datagrams \ {o}
  /\ IF phase[o] = "pending" THEN Settle(o, "failed") ELSE UNCHANGED ops
  /\ UNCHANGED <<online, queue, drains, direct, gateway, sockets, listeners, closing, hist>>

(* #startDataPump(): the user closes its end, and the gateway is told; the
   entry of #activeSockets stays.  A transport error removes it. *)
PumpEnds(o) ==
  /\ o \in sockets \cap Tcp
  /\ channel' = [channel EXCEPT ![o] = IF online THEN "shut" ELSE @]
  /\ UNCHANGED <<online, queue, drains, ops, direct, datagrams, inbox, sockets, listeners, inbound,
                 closing, hist>>

PumpFails(o) ==
  /\ o \in sockets /\ ~online
  /\ sockets' = sockets \ {o}
  /\ UNCHANGED <<online, queue, drains, ops, direct, gateway, datagrams, listeners, closing, hist>>

(* close(), up to the awaits on the sockets it closes. *)
StartClose ==
  /\ closing = "no"
  /\ closing' = "started"
  /\ queue' = <<>>
  /\ phase' = [o \in Op |-> IF o \in ToSet(queue) THEN "failed" ELSE phase[o]]
  /\ result' = [o \in Op |-> IF o \in ToSet(queue) THEN "error" ELSE result[o]]
  /\ UNCHANGED <<online, drains, direct, gateway, datagrams, sockets, listeners, hist>>

(* close(), after those awaits: what is in the pending maps is rejected. *)
FinishClose ==
  /\ closing = "started"
  /\ closing' = "done"
  /\ sockets' = {} /\ listeners' = {}
  /\ phase' = [o \in Op |-> IF Registered(o) THEN "failed" ELSE phase[o]]
  /\ result' = [o \in Op |-> IF Registered(o) /\ o \in direct THEN "error" ELSE result[o]]
  /\ UNCHANGED <<online, queue, drains, direct, gateway, datagrams, hist>>

-----------------------------------------------------------------------------
Client ==
  \/ \E o \in Op : SendResolves(o) \/ SendFails(o) \/ Timeout(o) \/ DatagramSent(o) \/ DatagramFails(o)
  \/ \E d \in DOMAIN drains : ReplaySettled(d)
  \/ FinishClose

Next ==
  \/ Client
  \/ \E o \in Op : CallDirect(o) \/ Enqueue(o) \/ GatewayCloses(o) \/ GatewayInbound(o)
  \/ \E o \in Op, good \in BOOLEAN : GatewayAnswers(o, good)
  \/ StartDrain \/ SetOnline \/ HandleGatewayMessage \/ StartClose
  \/ \E d \in DOMAIN drains : DrainTimeout(d)
  \/ \E o \in sockets : PumpEnds(o) \/ PumpFails(o)

(* A send resolves or rejects, a timer fires, a continuation runs; nothing is
   assumed of the gateway, the connection or the callers. *)
Spec == Init /\ [][Next]_vars /\ WF_vars(Client)

-----------------------------------------------------------------------------
(* The types of the backend's maps; the queue never exceeds maxSize. *)
TypeOK ==
  /\ online \in BOOLEAN
  /\ queue \in Seq(Op) /\ Len(queue) <= MaxQueue
  /\ \A d \in DOMAIN drains : drains[d] \in Seq(Op)
  /\ phase \in [Op -> {"idle", "refused", "queued", "sending", "pending", "ok", "failed", "timedout"}]
  /\ result \in [Op -> {"none", "waiting", "ok", "error"}]
  /\ direct \subseteq Op
  /\ channel \in [Op -> {"none", "asked", "open", "shut"}]
  /\ datagrams \subseteq Udp
  /\ sockets \subseteq Tcp \cup ({"inbound"} \X (1..MaxInbound))
  /\ listeners \subseteq Listen
  /\ closing \in {"no", "started", "done"}

Underway(o) == result[o] = "waiting" /\ (o \in direct \/ \E d \in DOMAIN drains : o \in ToSet(drains[d]))

(* Every operation that is on its way settles for its caller, whatever the  *)
(* gateway, the connection, the timers and close() do: enqueue() returns "a *)
(* promise that settles when the operation is eventually executed (or times *)
(* out / is cleared)".                                                      *)
Settles ==
  \A o \in Op : Underway(o) ~> result[o] \in {"ok", "error"}

(* A caller is told of success only if the gateway granted its request      *)
(* while the operation waited for it: not after a refusal, a drain timeout  *)
(* or an answer that came too late.                                         *)
SuccessIsReal == \A o \in Op : result[o] = "ok" => <<"ok", o>> \in answered

(* A relay socket for an inbound connection, like one for an outbound one,  *)
(* belongs to a channel the backend knows: no entry of #activeSockets       *)
(* without a successful connect() or listen() behind it.                    *)
SocketsHaveOwner ==
  \A s \in sockets : IF s \in Tcp THEN phase[s] = "ok" ELSE \E l \in Listen : phase[l] = "ok"

(* "timeout does not fire when server responds in time": an operation whose *)
(* answer was dispatched does not time out, unless the answer came while    *)
(* sendControl() was still awaited (it is dropped then), or granted a UDP   *)
(* channel, whose datagram was yet to be sent.                              *)
AnsweredInTime ==
  \A a \in answered :
    phase[a[2]] = "timedout" => a[2] \in early \/ (a[1] = "ok" /\ a[2] \in Udp)

(* "Operations are replayed in FIFO order" by each drain(), none is skipped *)
(* and none is replayed by two, although a second drain() may start while   *)
(* the first is waiting.                                                    *)
FifoReplay ==
  /\ \A d \in DOMAIN replayed : \E k \in 0..Len(enqueued) :
       replayed[d] = SubSeq(enqueued, k + 1, k + Len(replayed[d]))
  /\ \A c, d \in DOMAIN replayed : c # d => ToSet(replayed[c]) \cap ToSet(replayed[d]) = {}
==============================================================================
