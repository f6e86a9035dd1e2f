------------------------------- MODULE MeshRelay -------------------------------
(***************************************************************************)
(* A connection tunnelled over the mesh: MeshRelayBackend, on the pod of a *)
(* user, reaches a service that MeshRelayHost exposes on another pod       *)
(* (apps/mesh-relay-backend.mjs, apps/mesh-relay-host.mjs).  On each side  *)
(* a pair of netway sockets meets a pump that turns what it reads into     *)
(* envelopes.  Envelopes between two pods arrive in order.  One connection *)
(* is modelled: connection ids are random and keep connections apart.      *)
(***************************************************************************)
EXTENDS Naturals, Sequences, SequencesExt

CONSTANTS
  HighWaterMark,   \* the length at which a socket's buffer closes itself
  MaxChunks        \* bound on the writes of the user and of the service

VARIABLES
  client,    \* connect(): "idle", "pending", "open", "failed"
  host,      \* the host's #handleConnect(): "idle", "connecting", "open", "failed"
  tracked,   \* the sides ("client", "host") whose #connections has an entry
  torn,      \* the sides whose backend or host was closed for good
  closed,    \* the sockets that were closed
  buffer,    \* what goes towards each socket: queue, closed
  pump,      \* the sides whose pump runs
  up, down,  \* envelopes to the host and to the client
  wrote, got \* by the user and by the service

vars == <<client, host, tracked, torn, closed, buffer, pump, up, down, wrote, got>>

Sockets == {"user", "relay", "socket", "service"}
Ends == {"user", "service"}

(* StreamSocket.createPair(): the other socket of a pair *)
Peer == [user |-> "relay", relay |-> "user", socket |-> "service", service |-> "socket"]

Init ==
  /\ client = "idle" /\ host = "idle"
  /\ tracked = {} /\ torn = {} /\ closed = {} /\ pump = {}
  /\ buffer = [s \in Sockets |-> [queue |-> <<>>, closed |-> FALSE]]
  /\ up = <<>> /\ down = <<>>
  /\ wrote = [e \in Ends |-> 0] /\ got = [e \in Ends |-> <<>>]

-----------------------------------------------------------------------------
(* netway's StreamSocket *)

PushDrops(b, x) ==
  IF b.closed \/ Len(b.queue) + 1 >= HighWaterMark THEN b
  ELSE [queue |-> Append(b.queue, x), closed |-> FALSE]

(* AsyncBuffer.push(): the chunk that reaches the mark is kept and closes   *)
(* the buffer.                                                              *)
Push(b, x) ==
  IF b.closed THEN b
  ELSE [queue |-> Append(b.queue, x), closed |-> Len(b.queue) + 1 >= HighWaterMark]

(* A write() by socket s, which fails silently here: both hosts log it. *)
WriteFrom(s, x) ==
  buffer' = [buffer EXCEPT ![Peer[s]] = IF s \in closed THEN @ ELSE Push(@, x)]

(* close() of socket s drops what neither side has read. *)
Dropped == [queue |-> <<>>, closed |-> TRUE]
CloseSocket(s) ==
  /\ closed' = closed \cup {s}
  /\ buffer' = IF s \in closed THEN buffer ELSE [buffer EXCEPT ![s] = Dropped, ![Peer[s]] = Dropped]

TellClosedNever(wire) == wire

(* The envelope that ends a tunnel, sent by the pump that met the end. *)
TellClosed(wire) == Append(wire, [op |-> "close"])

-----------------------------------------------------------------------------
(* The user and the service *)

Opened(e) == IF e = "user" THEN client = "open" ELSE host = "open"

Write(e) ==
  /\ Opened(e) /\ e \notin closed /\ wrote[e] < MaxChunks /\ ~ buffer[Peer[e]].closed
  /\ WriteFrom(e, wrote[e] + 1)
  /\ wrote' = [wrote EXCEPT ![e] = @ + 1]
  /\ UNCHANGED <<client, host, tracked, torn, closed, pump, up, down, got>>

Read(e) ==
  /\ e \notin closed /\ buffer[e].queue # <<>>
  /\ got' = [got EXCEPT ![e] = Append(@, Head(buffer[e].queue))]
  /\ buffer' = [buffer EXCEPT ![e].queue = Tail(@)]
  /\ UNCHANGED <<client, host, tracked, torn, closed, pump, up, down, wrote>>

Close(e) ==
  /\ Opened(e) /\ e \notin closed
  /\ CloseSocket(e)
  /\ UNCHANGED <<client, host, tracked, torn, pump, up, down, wrote, got>>

-----------------------------------------------------------------------------
(* MeshRelayBackend *)

Connect ==
  /\ client = "idle" /\ "client" \notin torn
  /\ client' = "pending" /\ up' = Append(up, [op |-> "connect"])
  /\ UNCHANGED <<host, tracked, torn, closed, buffer, pump, down, wrote, got>>

ConnectTimeout ==
  /\ client = "pending" /\ client' = "failed"
  /\ UNCHANGED <<host, tracked, torn, closed, buffer, pump, up, down, wrote, got>>

(* #handleIncoming(): an answer counts while the connect is pending, data   *)
(* and closes while the connection is tracked.                              *)
ClientReceive ==
  /\ down # <<>> /\ down' = Tail(down)
  /\ LET m == Head(down) IN
     \/ /\ m.op \in {"ok", "refused"}
        /\ IF client = "pending" /\ "client" \notin torn
           THEN \/ /\ m.op = "ok" /\ client' = "open"
                   /\ tracked' = tracked \cup {"client"} /\ pump' = pump \cup {"client"}
                \/ m.op = "refused" /\ client' = "failed" /\ UNCHANGED <<tracked, pump>>
           ELSE UNCHANGED <<client, tracked, pump>>
        /\ UNCHANGED <<closed, buffer>>
     \/ /\ m.op = "data"
        /\ IF "client" \in tracked \ torn THEN WriteFrom("relay", m.data) ELSE UNCHANGED buffer
        /\ UNCHANGED <<client, tracked, pump, closed>>
     \/ /\ m.op = "close"
        /\ IF "client" \in tracked \ torn
           THEN CloseSocket("relay") /\ tracked' = tracked \ {"client"}
           ELSE UNCHANGED <<closed, buffer, tracked>>
        /\ UNCHANGED <<client, pump>>
  /\ UNCHANGED <<host, torn, up, wrote, got>>

(* #pumpToRemote(): a chunk becomes an envelope; at the end the host is     *)
(* told, unless the connection is no longer tracked.                        *)
ClientPump ==
  /\ "client" \in pump
  /\ \/ /\ buffer["relay"].queue # <<>>
        /\ up' = Append(up, [op |-> "data", data |-> Head(buffer["relay"].queue)])
        /\ buffer' = [buffer EXCEPT !["relay"].queue = Tail(@)]
        /\ UNCHANGED <<pump, tracked>>
     \/ /\ buffer["relay"] = Dropped
        /\ pump' = pump \ {"client"} /\ tracked' = tracked \ {"client"}
        /\ up' = IF "client" \in tracked THEN TellClosed(up) ELSE up
        /\ UNCHANGED buffer
  /\ UNCHANGED <<client, host, torn, closed, down, wrote, got>>

(* close(): nothing more is handled, sockets close, pending calls reject. *)
CloseBackend ==
  /\ "client" \notin torn /\ torn' = torn \cup {"client"}
  /\ tracked' = tracked \ {"client"}
  /\ IF "client" \in tracked THEN CloseSocket("relay") ELSE UNCHANGED <<closed, buffer>>
  /\ client' = IF client = "pending" THEN "failed" ELSE client
  /\ UNCHANGED <<host, pump, up, down, wrote, got>>

-----------------------------------------------------------------------------
(* MeshRelayHost *)

Refuse == host' = "failed" /\ down' = Append(down, [op |-> "refused"])

(* #handleIncoming() *)
HostReceive ==
  /\ up # <<>> /\ up' = Tail(up)
  /\ LET m == Head(up) IN
     \/ /\ m.op = "connect"
        /\ \/ "host" \in torn /\ UNCHANGED <<host, down>>
           \/ "host" \notin torn /\ Refuse             \* denied, or unknown service
           \/ "host" \notin torn /\ host' = "connecting" /\ UNCHANGED down
        /\ UNCHANGED <<tracked, closed, buffer>>
     \/ /\ m.op = "data"
        /\ IF "host" \in tracked \ torn THEN WriteFrom("socket", m.data) ELSE UNCHANGED buffer
        /\ UNCHANGED <<host, down, tracked, closed>>
     \/ /\ m.op = "close"
        /\ IF "host" \in tracked \ torn
           THEN CloseSocket("socket") /\ tracked' = tracked \ {"host"}
           ELSE UNCHANGED <<tracked, closed, buffer>>
        /\ UNCHANGED <<host, down>>
  /\ UNCHANGED <<client, torn, pump, wrote, got>>

(* #handleConnect() after network.connect(): detach() is not looked at. *)
HostConnected ==
  /\ host = "connecting"
  /\ \/ /\ host' = "open" /\ down' = Append(down, [op |-> "ok"])
        /\ tracked' = tracked \cup {"host"} /\ pump' = pump \cup {"host"}
     \/ Refuse /\ UNCHANGED <<tracked, pump>>
  /\ UNCHANGED <<client, torn, closed, buffer, up, wrote, got>>

(* #pumpToRemote() and #closeConnection() *)
HostPump ==
  /\ "host" \in pump
  /\ \/ /\ buffer["socket"].queue # <<>>
        /\ down' = Append(down, [op |-> "data", data |-> Head(buffer["socket"].queue)])
        /\ buffer' = [buffer EXCEPT !["socket"].queue = Tail(@)]
        /\ UNCHANGED <<pump, tracked, closed>>
     \/ /\ buffer["socket"].queue = <<>> /\ buffer["socket"].closed
        /\ pump' = pump \ {"host"}
        /\ IF "host" \in tracked
           THEN CloseSocket("socket") /\ tracked' = tracked \ {"host"} /\ down' = TellClosed(down)
           ELSE UNCHANGED <<closed, buffer, tracked, down>>
  /\ UNCHANGED <<client, host, torn, up, wrote, got>>

(* detach(): the clients are not told. *)
Detach ==
  /\ "host" \notin torn /\ torn' = torn \cup {"host"}
  /\ tracked' = tracked \ {"host"}
  /\ IF "host" \in tracked THEN CloseSocket("socket") ELSE UNCHANGED <<closed, buffer>>
  /\ UNCHANGED <<client, host, pump, up, down, wrote, got>>

(* What goes on by itself *)
Steps == ClientReceive \/ ClientPump \/ HostReceive \/ HostPump

Next ==
  \/ Connect \/ ConnectTimeout \/ CloseBackend \/ HostConnected \/ Detach
  \/ Steps
  \/ \E e \in Ends : Write(e) \/ Read(e) \/ Close(e)

-----------------------------------------------------------------------------
(* What either end reads is what the other wrote, from the first chunk on   *)
(* and without gaps, however closes, overflows and teardowns cut it off.    *)
RelayedInOrder ==
  \A e \in Ends : LET other == CHOOSE o \in Ends : o # e IN
    /\ Len(got[e]) <= wrote[other]
    /\ \A i \in DOMAIN got[e] : got[e][i] = i

(* When the user or the service closes its socket, the other sees the end:  *)
(* the close crosses the mesh although the pumps, the sockets of the tunnel *)
(* and a close from the other side race each other.  close() of the backend *)
(* and detach() of the host tell nobody and are excepted; so are a          *)
(* connect() that timed out, whose tunnel the host keeps, and a user whose  *)
(* writes overflowed: the tunnel ends, its own socket stays open.           *)
CloseCrosses ==
  (client = "open" /\ closed \cap Ends # {})
    ~> \/ \A e \in Ends : buffer[e].closed
       \/ torn # {}
       \/ buffer["relay"].closed /\ {"user", "relay"} \cap closed = {}
==============================================================================
