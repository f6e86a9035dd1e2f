-------------------------- MODULE ReconnectingClients --------------------------
(***************************************************************************)
(* The connection that WebSocketTransport and WispClient of                *)
(* browsermesh-transport keep, with the same code in websocket.mjs and     *)
(* wisp-client.mjs, and the two clients on top of it.  The connection is   *)
(* one WebSocket after another, reconnecting with backoff until the user   *)
(* closes.  WebSocketTransport has a heartbeat and a jitter queue; its     *)
(* payloads are numbers in the order of send(), and padding is left out.   *)
(* WispClient with its WispStreams has proxied TCP streams; frames are not *)
(* modelled, only what they do to the client's streams.  What the          *)
(* WebSocket does is external: one that close() was called on never opens, *)
(* one that fails fires error and then close.                              *)
(***************************************************************************)
EXTENDS Naturals, Sequences, FiniteSets, Functions

CONSTANTS
  MaxAttempts,   \* maxReconnectAttempts
  MaxConnects,   \* bound: connect() calls of the user
  MaxSockets,    \* bound: sockets created
  MaxSends,      \* bound: payloads and pings of the transport
  MaxStreams     \* bound: streams the client opens

-----------------------------------------------------------------------------
(* The connection.  Each action states what happens to it; the clients add  *)
(* what else happens.                                                       *)
VARIABLES
  state,       \* #state
  userClosed,  \* #userClosed
  attempts,    \* #reconnectAttempts
  cur,         \* #ws: the number of the last socket created, 0 for null
  sockets,     \* sockets[i]: phase of socket i and the listeners it has
  backoffs,    \* reconnect timers of _handleReconnect() pending
  calls,       \* history: connect() calls so far
  crossed      \* history: connect() was called while a close() was under way

conn == <<state, userClosed, attempts, cur, sockets, backoffs, calls, crossed>>

Socket == 1..MaxSockets

(* phase: "none", "connecting", "failed" between error and close, "open",  *)
(* "closed".  retry: connect() was called by _handleReconnect().  aborted: *)
(* close() was called.  steady: #onClose listens.  closers: a pending      *)
(* close() listens.  stale: it is open, and the onError() of its connect() *)
(* still listens.                                                          *)
Unused == [phase |-> "none", retry |-> FALSE, aborted |-> FALSE, steady |-> FALSE,
           closers |-> FALSE, stale |-> FALSE]

ConnInit ==
  /\ state = "disconnected"
  /\ userClosed = FALSE
  /\ attempts = 0
  /\ cur = 0
  /\ sockets = [i \in Socket |-> Unused]
  /\ backoffs = 0
  /\ calls = 0 /\ crossed = FALSE

ClosePending == \E i \in Socket : sockets[i].closers

-----------------------------------------------------------------------------
(* connect() past its state check. *)
StartConnect(retry) ==
  /\ cur < MaxSockets
  /\ userClosed' = FALSE
  /\ state' = "connecting"
  /\ cur' = cur + 1
  /\ sockets' = [sockets EXCEPT ![cur + 1] = [@ EXCEPT !.phase = "connecting", !.retry = retry]]

(* connect() of the user: a close() that is under way does not stop it. *)
Connect ==
  /\ calls < MaxConnects
  /\ state \notin {"connected", "connecting"}
  /\ StartConnect(FALSE)
  /\ calls' = calls + 1
  /\ crossed' = (crossed \/ ClosePending)
  /\ UNCHANGED <<attempts, backoffs>>

(* onOpen(): cleanup() and the new listeners concern the last socket. *)
Opens(i) ==
  /\ sockets[i].phase = "connecting" /\ ~ sockets[i].aborted
  /\ state' = "connected"
  /\ attempts' = 0
  /\ sockets' = [sockets EXCEPT ![i].phase = "open", ![i].stale = i # cur, ![cur].steady = TRUE]
  /\ UNCHANGED <<userClosed, cur, backoffs, calls, crossed>>

(* _handleReconnect() up to its await: an attempt is counted and a backoff  *)
(* timer set, unless the limit is reached.                                  *)
Retry == attempts < MaxAttempts /\ attempts' = attempts + 1

GiveUp == attempts >= MaxAttempts /\ UNCHANGED attempts

(* onError(): the connection attempt fails.  The catch of _handleReconnect() *)
(* starts the next attempt, also when close() is under way.                 *)
Fails(i) ==
  /\ sockets[i].phase = "connecting"
  /\ state' = "disconnected"
  /\ sockets' = [sockets EXCEPT ![i].phase = "failed"]
  /\ \/ /\ sockets[i].retry
        /\ \/ Retry /\ backoffs' = backoffs + 1
           \/ GiveUp /\ UNCHANGED backoffs
     \/ /\ ~ sockets[i].retry
        /\ UNCHANGED <<attempts, backoffs>>
  /\ UNCHANGED <<userClosed, cur, calls, crossed>>

(* An open socket fails whose onError() was not removed. *)
FailsLate(i) ==
  /\ sockets[i].phase = "open" /\ sockets[i].stale
  /\ state' = "disconnected"
  /\ sockets' = [sockets EXCEPT ![i].phase = "failed", ![i].stale = FALSE]
  /\ UNCHANGED <<userClosed, attempts, cur, backoffs, calls, crossed>>

(* The close event of a socket, ... *)
CloseEvent(i) ==
  /\ sockets[i].phase \in {"open", "failed"}
  /\ sockets' = [sockets EXCEPT ![i] =
       [@ EXCEPT !.phase = "closed", !.steady = FALSE, !.closers = FALSE, !.stale = FALSE]]
  /\ UNCHANGED <<userClosed, cur, calls, crossed>>

(* ... heard by #onClose: the connection was lost, ... *)
Drops(i) ==
  /\ sockets[i].steady
  /\ CloseEvent(i)
  /\ \/ /\ userClosed
        /\ state' = "closed"
        /\ UNCHANGED <<attempts, backoffs>>
     \/ /\ ~ userClosed
        /\ state' = "disconnected"
        /\ \/ Retry /\ backoffs' = backoffs + 1
           \/ GiveUp /\ UNCHANGED backoffs

(* ... or by the close() that awaits it, or by nobody. *)
Ends(i) ==
  /\ ~ sockets[i].steady
  /\ CloseEvent(i)
  /\ state' = IF sockets[i].closers THEN "closed" ELSE state
  /\ UNCHANGED <<attempts, backoffs>>

(* _handleReconnect() after its backoff: over if the user closed, else      *)
(* connect(), whose state check or constructor may throw; then the next     *)
(* attempt follows.                                                         *)
BackoffExpires ==
  /\ backoffs > 0
  /\ UNCHANGED <<calls, crossed>>
  /\ \/ /\ userClosed
        /\ backoffs' = backoffs - 1
        /\ UNCHANGED <<state, userClosed, attempts, cur, sockets>>
     \/ /\ ~ userClosed
        /\ state \notin {"connected", "connecting"}
        /\ StartConnect(TRUE)
        /\ backoffs' = backoffs - 1
        /\ UNCHANGED attempts
     \/ /\ ~ userClosed
        /\ \/ state \in {"connected", "connecting"} /\ UNCHANGED state
           \/ state \notin {"connected", "connecting"} /\ state' = "disconnected"
        /\ \/ Retry /\ UNCHANGED backoffs
           \/ GiveUp /\ backoffs' = backoffs - 1
        /\ UNCHANGED <<userClosed, cur, sockets>>

(* close(): nothing at all when disconnected, which leaves a reconnect in   *)
(* its backoff alone; otherwise the socket is closed and its close event    *)
(* awaited.                                                                 *)
Close ==
  /\ state \notin {"closed", "disconnected"}
  /\ userClosed' = TRUE
  /\ state' = "closing"
  /\ sockets' = [sockets EXCEPT ![cur] = [@ EXCEPT !.aborted = TRUE, !.closers = TRUE, !.steady = FALSE]]
  /\ UNCHANGED <<attempts, cur, backoffs, calls, crossed>>

-----------------------------------------------------------------------------
(* The state is the truth about the sockets: connected exactly when the     *)
(* last socket is open and watched, with at most that one in use, so that   *)
(* no connection leaks when drops, retries, connect() and close() meet.     *)
(* The exception: after a connect() that did not wait for a close() under   *)
(* way, the close event of the old socket overwrites the new state, and the *)
(* listeners of one attempt end up on the socket of another.                *)
StateIsTrue == ~ crossed =>
  /\ \A i \in Socket : sockets[i].phase \in {"connecting", "open"} /\ ~ sockets[i].aborted => i = cur
  /\ state = "connected" <=> cur # 0 /\ sockets[cur].phase = "open" /\ ~ sockets[cur].aborted
  /\ state = "connected" => sockets[cur].steady

(* What close() closed stays closed until the user connects again, whatever *)
(* reconnect loops are still in their backoff.  The exception: a connect()  *)
(* that did not wait for close() opens after the state has become closed.   *)
ClosedForGood == state = "closed" => state' = "closed" \/ calls' > calls \/ crossed

(* A reconnect loop ends: connected, closed or out of attempts; and a       *)
(* close() resolves, though it may wait for ever on a socket that is closed *)
(* already, if connect() did not wait for an earlier close().               *)
Settles ==
  /\ backoffs > 0 ~> backoffs = 0
  /\ ClosePending ~> ~ ClosePending \/ crossed

-----------------------------------------------------------------------------
(* WebSocketTransport *)
VARIABLES
  heartbeat,   \* #heartbeatTimer is set
  queue,       \* #jitterQueue: payload, its socket, its timer has fired
  wire,        \* history: wire[i]: what was sent on socket i
  sends        \* history: payloads so far

sending == <<heartbeat, queue, wire, sends>>
transport == <<conn, sending>>

TransportInit ==
  /\ ConnInit
  /\ heartbeat = FALSE
  /\ queue = <<>>
  /\ wire = [i \in Socket |-> <<>>]
  /\ sends = 0

-----------------------------------------------------------------------------
StartHeartbeat(i) == Opens(i) /\ heartbeat' = TRUE /\ UNCHANGED <<queue, wire, sends>>

(* _stopHeartbeat() and #clearJitter() *)
StopSendingKeepsQueue == heartbeat' = FALSE /\ UNCHANGED <<queue, wire, sends>>

StopSending == heartbeat' = FALSE /\ queue' = <<>> /\ UNCHANGED <<wire, sends>>

TransportOnClose(i) == Drops(i) /\ StopSending

CloseTransport == Close /\ StopSending

(* #dispatch() with jitter: the payload waits for a timer of its own. *)
Dispatch ==
  /\ state = "connected"
  /\ sends < MaxSends
  /\ queue' = Append(queue, [payload |-> sends + 1, ws |-> cur, ready |-> FALSE])
  /\ sends' = sends + 1
  /\ UNCHANGED <<conn, heartbeat, wire>>

Send == Dispatch

Heartbeat == heartbeat /\ Dispatch

(* The entries at the head of the queue whose timers have fired. *)
ReadyLength(q) ==
  CHOOSE n \in 0..Len(q) : (\A k \in 1..n : q[k].ready) /\ (n < Len(q) => ~ q[n + 1].ready)

Payloads(q, places) ==
  [k \in 1..Cardinality(places) |->
     q[CHOOSE i \in places : Cardinality({m \in places : m =< i}) = k].payload]

(* A jitter timer: the ready entries at the head leave the queue, in order, *)
(* those of another socket, or of one that is not open, unsent.             *)
JitterTimer(j) ==
  LET q == [queue EXCEPT ![j].ready = TRUE]
      n == ReadyLength(q)
      live == {i \in 1..n : q[i].ws = cur /\ state = "connected" /\ sockets[cur].phase = "open"}
  IN /\ ~ queue[j].ready
     /\ wire' = [wire EXCEPT ![cur] = @ \o Payloads(q, live)]
     /\ queue' = SubSeq(q, n + 1, Len(q))
     /\ UNCHANGED <<conn, heartbeat, sends>>

TransportNext ==
  \/ CloseTransport \/ Send \/ Heartbeat
  \/ (Connect \/ BackoffExpires) /\ UNCHANGED sending
  \/ \E i \in Socket : \/ StartHeartbeat(i) \/ TransportOnClose(i)
                       \/ (Fails(i) \/ FailsLate(i) \/ Ends(i)) /\ UNCHANGED sending
  \/ \E j \in DOMAIN queue : JitterTimer(j)

(* Timers fire, a connection attempt succeeds or fails, and a socket that   *)
(* failed or was closed fires its close event.                              *)
Fairness ==
  /\ WF_transport(BackoffExpires /\ UNCHANGED sending)
  /\ WF_transport(\E i \in Socket : StartHeartbeat(i) \/ (Fails(i) /\ UNCHANGED sending))
  /\ WF_transport(\E i \in Socket : Ends(i) /\ UNCHANGED sending)

-----------------------------------------------------------------------------
(* The heartbeat and the jitter queue live as long as the connection, and   *)
(* what jitter delays still reaches its own socket, in the order of send(). *)
(* The exception is that of StateIsTrue.                                    *)
SendingFollowsConnection == ~ crossed =>
  /\ state = "connected" <=> heartbeat
  /\ \A e \in Range(queue) : state = "connected" /\ e.ws = cur
  /\ \A i \in Socket : \A j, k \in DOMAIN wire[i] : j < k => wire[i][j] < wire[i][k]

-----------------------------------------------------------------------------
(* WispClient and WispStream *)
VARIABLES
  opened,    \* #nextStreamId - 1
  closed,    \* the streams whose #closed is set
  mapped,    \* #streams
  carrier    \* history: carrier[s]: the socket stream s was opened on

streams == <<opened, closed, mapped, carrier>>

Stream == 1..MaxStreams

ClientInit ==
  /\ ConnInit
  /\ opened = 0
  /\ closed = {}
  /\ mapped = {}
  /\ carrier = [s \in Stream |-> 0]

-----------------------------------------------------------------------------
(* open() *)
OpenStream ==
  /\ state = "connected"
  /\ opened < MaxStreams
  /\ opened' = opened + 1
  /\ mapped' = mapped \cup {opened + 1}
  /\ carrier' = [carrier EXCEPT ![opened + 1] = cur]
  /\ UNCHANGED <<conn, closed>>

(* WispStream.close(): the peer is told, and the stream stays in the map    *)
(* until it confirms.                                                       *)
CloseStream(s) ==
  /\ s \in 1..opened \ closed
  /\ closed' = closed \cup {s}
  /\ UNCHANGED <<conn, opened, mapped, carrier>>

(* A CLOSE frame of the server, _handleClose(), heard on the stream's own   *)
(* socket.                                                                  *)
HandleClose(s) ==
  /\ s \in mapped /\ sockets[carrier[s]].phase = "open" /\ sockets[carrier[s]].steady
  /\ closed' = closed \cup {s}
  /\ mapped' = mapped \ {s}
  /\ UNCHANGED <<conn, opened, carrier>>

(* _forceClose() of every stream. *)
ForceCloseAll == closed' = closed \cup mapped /\ mapped' = {} /\ UNCHANGED <<opened, carrier>>

ClientOnClose(i) == Drops(i) /\ ForceCloseAll

CloseClient == Close /\ ForceCloseAll

ClientNext ==
  \/ CloseClient \/ OpenStream
  \/ (Connect \/ BackoffExpires) /\ UNCHANGED streams
  \/ \E s \in Stream : CloseStream(s) \/ HandleClose(s)
  \/ \E i \in Socket : \/ ClientOnClose(i)
                       \/ (Opens(i) \/ Fails(i) \/ FailsLate(i) \/ Ends(i)) /\ UNCHANGED streams

-----------------------------------------------------------------------------
(* No stream outlives the socket it was opened on: one that still accepts   *)
(* writes is in the map of a client connected over that very socket, so a   *)
(* reconnect never carries a stream the new server session does not know.   *)
(* The exception is that of StateIsTrue.                                    *)
StreamsEndWithSocket == ~ crossed =>
  \A s \in 1..opened \ closed : s \in mapped /\ state = "connected" /\ carrier[s] = cur
==============================================================================
