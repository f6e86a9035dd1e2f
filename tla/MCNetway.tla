------------------------------- MODULE MCNetway -------------------------------
(***************************************************************************)
(* Connections and pipes, model-checked.  The gateway backend: a            *)
(* connect() and a listen() with inbound connections, then a datagram and  *)
(* a resolve() replayed by two overlapping drain() calls.  The loopback    *)
(* network: its port tables, an accept queue at its limit, a socket pair   *)
(* that fills its buffers.  A tunnel and a WebSocket over the mesh, and    *)
(* the pipes of the kernel.  A behaviour runs one of the eight; the        *)
(* variables of the others stay as they are initially, where none of their *)
(* fair actions is enabled.                                                *)
(***************************************************************************)
EXTENDS Naturals, Sequences

CONSTANTS
  Tcp, Udp, Dns, Listen, MaxQueue, MaxDrains, MaxInbound,          \* GatewayBackend
  FirstEphemeral, LastEphemeral, QueueSize,                        \* Loopback
  MaxBinds, MaxConns, MaxWrites,                                   \* Loopback
  HighWaterMark,        \* of netway's buffers: Loopback, MeshRelay
  MaxChunks,            \* MeshRelay
  MaxMessages,          \* MeshWebSocket
  PipeMark, PipeChunks, PipeReads                                  \* KernelPipe

(* An operation is of one kind, and the number of an inbound connection is  *)
(* no operation.                                                            *)
ASSUME NetwayAssumption ==
  /\ \A S \in {Udp, Dns, Listen} : Tcp \cap S = {}
  /\ Udp \cap Listen = {}
  /\ MaxInbound \in Nat /\ \A n \in 0..MaxInbound : <<"inbound", n>> \notin Tcp
  /\ FirstEphemeral \in Nat /\ LastEphemeral \in Nat
  /\ QueueSize \in Nat /\ HighWaterMark \in Nat /\ PipeMark \in Nat
  /\ MaxChunks \in Nat /\ MaxMessages \in Nat /\ PipeChunks \in Nat

VARIABLES
  run,       \* which of the eight, fixed
  online, queue, drains, phase, result, direct, channel, datagrams, inbox, sockets, listeners,
  inbound, closing, answered, early, enqueued, replayed,                       \* GatewayBackend
  ports, nextEphemeral, binds, conns,                                          \* Loopback
  client, host, tracked, torn, closed, buffer, pump, up, down, wrote, got,     \* MeshRelay
  readyState, wire, sent, heard, lost, opened, unsent,                         \* MeshWebSocket
  pipes, readerClosed, writerClosed, written, copier, eaten, ended             \* KernelPipe

gateway == <<online, queue, drains, phase, result, direct, channel, datagrams, inbox, sockets,
             listeners, inbound, closing, answered, early, enqueued, replayed>>
loopback == <<ports, nextEphemeral, binds, conns>>
relay == <<client, host, tracked, torn, closed, buffer, pump, up, down, wrote, got>>
websocket == <<readyState, wire, sent, heard, lost, opened, unsent>>
kernel == <<pipes, readerClosed, writerClosed, written, copier, eaten, ended>>
vars == <<run, gateway, loopback, relay, websocket, kernel>>

Gateway == INSTANCE GatewayBackend

Loop == INSTANCE Loopback

Tunnel == INSTANCE MeshRelay

Socket == INSTANCE MeshWebSocket WITH got <- heard

Pipe == INSTANCE KernelPipe WITH
  HighWaterMark <- PipeMark, MaxChunks <- PipeChunks, MaxReads <- PipeReads,
  buffer <- pipes, got <- eaten

Init ==
  /\ Gateway!Init /\ Loop!Init /\ Tunnel!Init /\ Pipe!Init /\ Socket!Init
  /\ \/ run = "websocket"
     \/ /\ run \in {"calls", "replay", "ports", "accepts", "streams", "tunnel", "pipe"}
        /\ readyState["client"] = "CLOSED"

(* What a scenario leaves out.  In "calls" a connect() may be queued, but   *)
(* not a listen(); in "replay" a connect() comes when the queue is full.    *)
Without(kinds) == \A o \in kinds : phase'[o] = "idle"
Refusing(kinds) == \A o \in kinds : phase'[o] \in {"idle", "refused"}
OneQueued == Len(drains') < 2 /\ \A o \in Listen : phase'[o] # "idle" => o \in direct'
OneBind == Len(binds') < 2
OneConn == Len(conns') < 2
Untouched ==    \* no socket is used
  \A c \in DOMAIN conns' :
    conns'[c] = [Loop!NewConn(conns'[c].listener) EXCEPT !.place = conns'[c].place]

Next ==
  \/ /\ \/ run = "calls" /\ Gateway!Next /\ Without(Udp \cup Dns) /\ OneQueued
        \/ run = "replay" /\ Gateway!Next /\ Refusing(Tcp) /\ Without(Listen)
     /\ UNCHANGED <<run, loopback, relay, websocket, kernel>>
  \/ /\ \/ run = "ports" /\ Loop!Next /\ OneConn /\ Untouched
        \/ run = "accepts" /\ Loop!Next /\ OneBind /\ Untouched
        \/ run = "streams" /\ Loop!Next /\ OneBind /\ OneConn
     /\ UNCHANGED <<run, gateway, relay, websocket, kernel>>
  \/ run = "tunnel" /\ Tunnel!Next /\ UNCHANGED <<run, gateway, loopback, websocket, kernel>>
  \/ run = "websocket" /\ Socket!Next /\ UNCHANGED <<run, gateway, loopback, relay, kernel>>
  \/ run = "pipe" /\ Pipe!Next /\ UNCHANGED <<run, gateway, loopback, relay, websocket>>

(* Promises and timers settle, envelopes arrive, pumps run. *)
Fairness ==
  /\ WF_gateway(run \in {"calls", "replay"} /\ Gateway!Client)
  /\ WF_relay(run = "tunnel" /\ Tunnel!Steps)
  /\ WF_websocket(run = "websocket" /\ Socket!Steps)

Spec == Init /\ [][Next]_vars /\ Fairness

-----------------------------------------------------------------------------
(* The answer decides: a caller is told of success only if the gateway      *)
(* granted its request while the operation waited for it (not after a       *)
(* refusal, a drain timeout or an answer that came too late), and "timeout  *)
(* does not fire when server responds in time", unless the answer came      *)
(* before sendControl() had resolved, or the datagram it was for is still   *)
(* being sent.  No entry of #activeSockets is without a successful          *)
(* connect() behind it, or a successful listen() for the relay socket of an *)
(* inbound connection.  "Operations are replayed in FIFO order" by each     *)
(* drain(), and none by two, although a second drain() may start while the  *)
(* first is waiting.                                                        *)
GatewayAnswerDecides ==
  Gateway!SuccessIsReal /\ Gateway!AnsweredInTime /\ Gateway!FifoReplay /\ Gateway!SocketsHaveOwner

(* LoopbackBackend's tables hold exactly the open listeners and sockets,    *)
(* under their own port: no two share one, none is unreachable, none stays  *)
(* after close().  A socket waits for its server in the queue of its        *)
(* listener or nowhere, also when the queue is full or the listener closes. *)
(* "both ends can be closed cleanly without dangling readers or writers":   *)
(* once either end is closed, no read() of the other stays pending.         *)
LoopbackExact ==
  Loop!TablesExact /\ Loop!QueuesExact /\ Loop!NoDanglingReader

(* What is read at one end of a socket pair, a tunnel, a WebSocket over the *)
(* mesh, or two pipes in a row is what was written at the other, in order   *)
(* and without gaps, however closes, overflows, rejected sends and          *)
(* teardowns cut it off; and no reader of a pipe waits in vain.             *)
ChannelsKeepOrder ==
  Loop!InOrder /\ Tunnel!RelayedInOrder /\ Socket!MessagesInOrder /\ Pipe!InOrderNoneWaitsInVain

(* Every operation that is on its way settles for its caller, whatever the  *)
(* gateway, the connection, the timers and close() do: enqueue() returns "a *)
(* promise that settles when the operation is eventually executed (or times *)
(* out / is cleared)".                                                      *)
GatewaySettles == Gateway!Settles

(* A close at one end of a tunnel or of a WebSocket over the mesh reaches   *)
(* the other end.                                                           *)
ClosesCross == Tunnel!CloseCrosses /\ Socket!CloseReachesOther
==============================================================================
