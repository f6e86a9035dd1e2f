------------------------------- MODULE Loopback -------------------------------
(***************************************************************************)
(* The loopback network of browsermesh-netway: the port tables of          *)
(* LoopbackBackend, Listener's accept queue and waiting accept() calls,    *)
(* and pairs of StreamSockets over AsyncBuffers.  Chunks are numbered by   *)
(* their writer; data is left out.                                         *)
(***************************************************************************)
EXTENDS Naturals, Sequences, SequencesExt

CONSTANTS
  FirstEphemeral, LastEphemeral,   \* the range of ports handed out for port 0
  QueueSize,       \* Listener maxQueueSize
  HighWaterMark,   \* of an AsyncBuffer; 0: unlimited
  MaxBinds,        \* bound: listen() and bindDatagram() calls
  MaxConns,        \* bound: connect() calls
  MaxWrites        \* bound: write() calls on a socket

Port == (FirstEphemeral - 1)..LastEphemeral    \* with one port outside the range
Kind == {"listener", "datagram"}
Side == {"client", "server"}
Other(s) == IF s = "client" THEN "server" ELSE "client"

VARIABLES
  ports,          \* ports[kind][port]: the binding in #listeners or #datagramSockets, 0: none
  nextEphemeral,  \* #nextEphemeral, shared by both tables
  binds,          \* the listeners and datagram sockets that were created
  conns           \* the socket pairs that were created

vars == <<ports, nextEphemeral, binds, conns>>

NewBind(kind, port) == [kind |-> kind, port |-> port, closed |-> FALSE, queue |-> <<>>, waiters |-> 0]
NewBuffer == [queue |-> <<>>, closed |-> FALSE, waiter |-> FALSE]
NewConn(l) ==
  [listener |-> l, place |-> "dropped",
   closed |-> [s \in Side |-> FALSE],        \* StreamSocket #closed
   inbound |-> [s \in Side |-> NewBuffer],
   written |-> [s \in Side |-> 0],           \* chunks s has written
   got |-> [s \in Side |-> <<>>],            \* chunks s has read
   eof |-> [s \in Side |-> FALSE]]           \* a read() of s returned null

Init ==
  /\ ports = [k \in Kind |-> [p \in Port |-> 0]]
  /\ nextEphemeral = FirstEphemeral
  /\ binds = <<>>
  /\ conns = <<>>

-----------------------------------------------------------------------------
After(p) == IF p = LastEphemeral THEN FirstEphemeral ELSE p + 1
Ephemeral == FirstEphemeral..LastEphemeral

(* #allocatePort(0): the first port that the table does not have, from nextEphemeral on. *)
Distance(p) == IF p >= nextEphemeral THEN p - nextEphemeral
               ELSE LastEphemeral - FirstEphemeral + 1 + p - nextEphemeral

AllocatedOther(kind, p) ==
  p \in Ephemeral /\ ports["listener"][p] = 0
    /\ \A q \in Ephemeral : ports["listener"][q] = 0 => Distance(p) <= Distance(q)

Allocated(kind, p) ==
  p \in Ephemeral /\ ports[kind][p] = 0
    /\ \A q \in Ephemeral : ports[kind][q] = 0 => Distance(p) <= Distance(q)

Register(kind, p) ==
  /\ binds' = Append(binds, NewBind(kind, p))
  /\ ports' = [ports EXCEPT ![kind][p] = Len(binds) + 1]
  /\ UNCHANGED conns

(* listen() and bindDatagram(); a port that is taken throws AddressInUseError *)
Bind(kind, p) ==
  /\ Len(binds) < MaxBinds
  /\ ports[kind][p] = 0
  /\ Register(kind, p)
  /\ UNCHANGED nextEphemeral

BindEphemeral(kind) ==
  /\ Len(binds) < MaxBinds
  /\ \E p \in Ephemeral : Allocated(kind, p) /\ Register(kind, p) /\ nextEphemeral' = After(p)

(* Listener.close() and DatagramSocket.close(), with the callback that frees the port *)
Closed(b) == [b EXCEPT !.closed = TRUE, !.queue = <<>>, !.waiters = 0]
Orphaned(c) == [c EXCEPT !.place = IF @ = "queued" THEN "dropped" ELSE @]

CloseBind(i) ==
  /\ ~binds[i].closed
  /\ binds' = [binds EXCEPT ![i] = Closed(@)]
  /\ ports' = [ports EXCEPT ![binds[i].kind][binds[i].port] = 0]
  /\ conns' = [c \in DOMAIN conns |-> IF conns[c].listener = i THEN Orphaned(conns[c]) ELSE conns[c]]
  /\ UNCHANGED nextEphemeral

(* LoopbackBackend.close() *)
CloseBackend ==
  /\ \E i \in DOMAIN binds : ~binds[i].closed
  /\ binds' = [i \in DOMAIN binds |-> Closed(binds[i])]
  /\ ports' = [k \in Kind |-> [p \in Port |-> 0]]
  /\ conns' = [c \in DOMAIN conns |-> Orphaned(conns[c])]
  /\ UNCHANGED nextEphemeral

(* connect(): to a waiting accept(), else to the queue if it has room *)
Connect(p) ==
  LET l == ports["listener"][p]  c == Len(conns) + 1 IN
  /\ l # 0 /\ Len(conns) < MaxConns
  /\ IF binds[l].waiters > 0
     THEN /\ binds' = [binds EXCEPT ![l].waiters = @ - 1]
          /\ conns' = Append(conns, [NewConn(l) EXCEPT !.place = "accepted"])
     ELSE IF Len(binds[l].queue) < QueueSize
     THEN /\ binds' = [binds EXCEPT ![l].queue = Append(@, c)]
          /\ conns' = Append(conns, [NewConn(l) EXCEPT !.place = "queued"])
     ELSE /\ conns' = Append(conns, NewConn(l))
          /\ UNCHANGED binds
  /\ UNCHANGED <<ports, nextEphemeral>>

(* Listener.accept(); on a closed listener it resolves with null *)
Accept(l) ==
  /\ binds[l].kind = "listener" /\ ~binds[l].closed
  /\ IF binds[l].queue # <<>>
     THEN /\ conns' = [conns EXCEPT ![Head(binds[l].queue)].place = "accepted"]
          /\ binds' = [binds EXCEPT ![l].queue = Tail(@)]
     ELSE /\ binds[l].waiters = 0   \* one accept loop
          /\ binds' = [binds EXCEPT ![l].waiters = @ + 1]
          /\ UNCHANGED conns
  /\ UNCHANGED <<ports, nextEphemeral>>

-----------------------------------------------------------------------------
Owned(c, s) == s = "client" \/ conns[c].place = "accepted"

(* AsyncBuffer.push(): to a waiting pull(), else queued; a full queue closes the buffer. *)
Full(b) == HighWaterMark > 0 /\ Len(b.queue) >= HighWaterMark

Write(c, s) ==
  LET o == Other(s)
      k == conns[c]
      b == k.inbound[o]
      n == k.written[s] + 1
      grown == [b EXCEPT !.queue = Append(@, n)]
  IN
  /\ Owned(c, s) /\ ~k.closed[s] /\ ~b.closed /\ n <= MaxWrites
  /\ conns' = [conns EXCEPT ![c] =
       IF b.waiter
       THEN [k EXCEPT !.written[s] = n, !.inbound[o].waiter = FALSE, !.got[o] = Append(@, n)]
       ELSE [k EXCEPT !.written[s] = n, !.inbound[o] = [grown EXCEPT !.closed = Full(grown)]]]
  /\ UNCHANGED <<ports, nextEphemeral, binds>>

(* AsyncBuffer.pull(): the queue first, null once closed, else wait *)
Read(c, s) ==
  LET k == conns[c]  b == k.inbound[s] IN
  /\ Owned(c, s) /\ ~k.closed[s] /\ ~k.eof[s] /\ ~b.waiter
  /\ conns' = [conns EXCEPT ![c] =
       IF b.queue # <<>> THEN [k EXCEPT !.inbound[s].queue = Tail(@), !.got[s] = Append(@, Head(b.queue))]
       ELSE IF b.closed THEN [k EXCEPT !.eof[s] = TRUE]
       ELSE [k EXCEPT !.inbound[s].waiter = TRUE]]
  /\ UNCHANGED <<ports, nextEphemeral, binds>>

ClosedBuffer == [queue |-> <<>>, closed |-> TRUE, waiter |-> FALSE]

(* StreamSocket.close(): both buffers are closed and emptied, waiting reads get null *)
CloseSocket(c, s) ==
  LET k == conns[c] IN
  /\ Owned(c, s) /\ ~k.closed[s]
  /\ conns' = [conns EXCEPT ![c] =
       [k EXCEPT !.closed[s] = TRUE,
                 !.inbound = [t \in Side |-> ClosedBuffer],
                 !.eof = [t \in Side |-> k.eof[t] \/ k.inbound[t].waiter]]]
  /\ UNCHANGED <<ports, nextEphemeral, binds>>

Next ==
  \/ \E kind \in Kind : BindEphemeral(kind) \/ \E p \in Port : Bind(kind, p)
  \/ \E i \in DOMAIN binds : CloseBind(i) \/ Accept(i)
  \/ CloseBackend
  \/ \E p \in Port : Connect(p)
  \/ \E c \in DOMAIN conns, s \in Side : Write(c, s) \/ Read(c, s) \/ CloseSocket(c, s)

Spec == Init /\ [][Next]_vars

-----------------------------------------------------------------------------
(* The types of the tables and buffers; a buffer stays within its mark.     *)
TypeOK ==
  /\ ports \in [Kind -> [Port -> 0..Len(binds)]]
  /\ nextEphemeral \in Ephemeral
  /\ \A i \in DOMAIN binds : Len(binds[i].queue) <= QueueSize
  /\ \A c \in DOMAIN conns : \A s \in Side :
       HighWaterMark > 0 => Len(conns[c].inbound[s].queue) <= HighWaterMark

(* The tables hold exactly the open listeners and sockets, under their own  *)
(* port: no two share one, none is unreachable, none stays after close().   *)
TablesExact ==
  \A k \in Kind : \A p \in Port : \A i \in DOMAIN binds :
    ports[k][p] = i <=> binds[i].kind = k /\ binds[i].port = p /\ ~binds[i].closed

(* A socket waits for its server in one place: in the queue of its listener *)
(* or nowhere.                                                              *)
QueuesExact ==
  \A c \in DOMAIN conns :
    conns[c].place = "queued" <=> \E i \in DOMAIN binds : Contains(binds[i].queue, c)

(* "both ends can be closed cleanly without dangling readers or writers":   *)
(* once either end is closed, no read() of the other stays pending.         *)
NoDanglingReader ==
  \A c \in DOMAIN conns : (\E s \in Side : conns[c].closed[s])
    => \A s \in Side : ~conns[c].inbound[s].waiter

(* Chunks are read in the order they were written, without holes.           *)
InOrder ==
  \A c \in DOMAIN conns : \A s \in Side :
    LET g == conns[c].got[s] IN
    Len(g) <= conns[c].written[Other(s)] /\ \A n \in DOMAIN g : g[n] = n
================================================================================
