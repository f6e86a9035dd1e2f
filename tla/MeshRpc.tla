-------------------------------- MODULE MeshRpc --------------------------------
(***************************************************************************)
(* Requests and responses between pods (apps/mesh-rpc.mjs): callers with a *)
(* table of pending requests, a server with a table of the requests it is  *)
(* handling, limited in total and per peer.  Envelopes of one pod to       *)
(* another arrive in order, until the connection of the two is lost.  A    *)
(* handler may ignore its abort signal, and may never end.  Bodies and     *)
(* statuses are left out, except for who gave the answer.                  *)
(***************************************************************************)
EXTENDS Naturals, Sequences, FiniteSets

CONSTANTS
  Callers,              \* pods that call; the server is another pod
  Ids,                  \* requests: pairs of a caller and a number
  MaxInflight,          \* maxInflight of a caller
  MaxIncoming,          \* maxIncoming of the server
  MaxIncomingPerPeer    \* maxIncomingPerPeer of the server

VARIABLES
  call,      \* per request: "none", "unsent", "sent" (both pending), then an outcome
  counts,    \* the server's incomingCounts
  handler,   \* per request: "none", "running", "aborted" (still in incoming), "ended"
  served,    \* the requests that onRequest() answered and that were not aborted
  toServer, toCaller,   \* per caller: the envelopes under way
  closed     \* the pods (callers, "server") whose service was torn down

vars == <<call, counts, handler, served, toServer, toCaller, closed>>

Outcomes == {"answered", "refused", "failed"}

Pending(i) == call[i] \in {"unsent", "sent"}
Incoming == {i \in Ids : handler[i] \in {"running", "aborted"}}

Init ==
  /\ call = [i \in Ids |-> "none"] /\ handler = [i \in Ids |-> "none"]
  /\ counts = [c \in Callers |-> 0] /\ served = {}
  /\ toServer = [c \in Callers |-> <<>>] /\ toCaller = [c \in Callers |-> <<>>]
  /\ closed = {}

-----------------------------------------------------------------------------
(* The caller *)

(* request(): refused at the limit; the envelope goes out in a microtask. *)
Request(i) ==
  /\ call[i] = "none" /\ i[1] \notin closed
  /\ Cardinality({j \in Ids : j[1] = i[1] /\ Pending(j)}) < MaxInflight
  /\ call' = [call EXCEPT ![i] = "unsent"]
  /\ UNCHANGED <<counts, handler, served, toServer, toCaller, closed>>

(* The microtask: a request settled meanwhile is not sent. *)
SendRequest(i) ==
  /\ call[i] = "unsent"
  /\ \/ /\ toServer' = [toServer EXCEPT ![i[1]] = Append(@, [kind |-> "rpc-request", id |-> i])]
        /\ call' = [call EXCEPT ![i] = "sent"]
     \/ call' = [call EXCEPT ![i] = "failed"] /\ UNCHANGED toServer
  /\ UNCHANGED <<counts, handler, served, toCaller, closed>>

(* cancel(), from the timer or from the caller's signal *)
Cancel(i) ==
  /\ Pending(i)
  /\ call' = [call EXCEPT ![i] = "failed"]
  /\ toServer' = [toServer EXCEPT ![i[1]] = Append(@, [kind |-> "rpc-cancel", id |-> i])]
  /\ UNCHANGED <<counts, handler, served, toCaller, closed>>

ReceiveResponse(c) ==
  /\ toCaller[c] # <<>>
  /\ toCaller' = [toCaller EXCEPT ![c] = Tail(@)]
  /\ LET m == Head(toCaller[c]) IN
     call' = IF c \notin closed /\ Pending(m.id) THEN [call EXCEPT ![m.id] = m.status] ELSE call
  /\ UNCHANGED <<counts, handler, served, toServer, closed>>

-----------------------------------------------------------------------------
(* The server *)

Respond(i, status) ==
  toCaller' = [toCaller EXCEPT ![i[1]] = Append(@, [id |-> i, status |-> status])]

(* The finally of handleRequest() *)
Forget(i) ==
  /\ handler' = [handler EXCEPT ![i] = "ended"]
  /\ counts' = [counts EXCEPT ![i[1]] = @ - 1]

(* handleRequest(): up to the call of onRequest() *)
HandleRequest(i) ==
  \/ /\ i \in Incoming /\ UNCHANGED <<handler, counts, toCaller>>
  \/ /\ i \notin Incoming
     /\ Cardinality(Incoming) >= MaxIncoming \/ counts[i[1]] >= MaxIncomingPerPeer
     /\ Respond(i, "refused") /\ UNCHANGED <<handler, counts>>
  \/ /\ i \notin Incoming
     /\ Cardinality(Incoming) < MaxIncoming /\ counts[i[1]] < MaxIncomingPerPeer
     /\ handler' = [handler EXCEPT ![i] = "running"]
     /\ counts' = [counts EXCEPT ![i[1]] = @ + 1]
     /\ UNCHANGED toCaller

ReceiveAtServer(c) ==
  /\ toServer[c] # <<>>
  /\ toServer' = [toServer EXCEPT ![c] = Tail(@)]
  /\ LET m == Head(toServer[c]) IN
     \/ "server" \in closed /\ UNCHANGED <<handler, counts, toCaller>>
     \/ "server" \notin closed /\ m.kind = "rpc-request" /\ HandleRequest(m.id)
     \/ /\ "server" \notin closed /\ m.kind = "rpc-cancel"
        /\ handler' = IF handler[m.id] = "running" THEN [handler EXCEPT ![m.id] = "aborted"] ELSE handler
        /\ UNCHANGED <<counts, toCaller>>
  /\ UNCHANGED <<call, served, closed>>

(* The handler's deadline *)
Deadline(i) ==
  /\ handler[i] = "running"
  /\ handler' = [handler EXCEPT ![i] = "aborted"]
  /\ UNCHANGED <<call, counts, served, toServer, toCaller, closed>>

AnswersRegardless(i) == TRUE

(* "if (closed || controller.signal.aborted) return" *)
Answers(i) == handler[i] = "running" /\ "server" \notin closed

(* onRequest() returns or throws, whether or not it was aborted. *)
HandlerEnds(i) ==
  /\ i \in Incoming
  /\ IF Answers(i) THEN Respond(i, "answered") /\ served' = served \cup {i}
                   ELSE UNCHANGED <<toCaller, served>>
  /\ Forget(i)
  /\ UNCHANGED <<call, toServer, closed>>

-----------------------------------------------------------------------------
(* teardown() of a pod's service *)
Teardown(p) ==
  /\ p \notin closed /\ closed' = closed \cup {p}
  /\ call' = [i \in Ids |-> IF i[1] = p /\ Pending(i) THEN "failed" ELSE call[i]]
  /\ handler' = [i \in Ids |-> IF p = "server" /\ handler[i] = "running" THEN "aborted" ELSE handler[i]]
  /\ UNCHANGED <<counts, served, toServer, toCaller>>

(* The connection of a caller is lost, with what is under way. *)
Disconnect(c) ==
  /\ toServer[c] # <<>> \/ toCaller[c] # <<>>
  /\ toServer' = [toServer EXCEPT ![c] = <<>>] /\ toCaller' = [toCaller EXCEPT ![c] = <<>>]
  /\ UNCHANGED <<call, counts, handler, served, closed>>

Timers == \E i \in Ids : Cancel(i)

Next ==
  \/ \E i \in Ids : Request(i) \/ SendRequest(i) \/ Deadline(i) \/ HandlerEnds(i)
  \/ Timers
  \/ \E c \in Callers : ReceiveResponse(c) \/ ReceiveAtServer(c) \/ Disconnect(c)
  \/ \E p \in Callers \cup {"server"} : Teardown(p)

-----------------------------------------------------------------------------
(* A caller is answered only by a handler that ran for its request and was  *)
(* neither aborted nor outlived by its service; the per-peer counts and the *)
(* limits are exact although handlers end late, after their abort, or after *)
(* the teardown.                                                            *)
AnswersAndTablesAreTrue ==
  /\ \A i \in Ids : call[i] = "answered" => i \in served
  /\ \A c \in Callers : counts[c] = Cardinality({i \in Incoming : i[1] = c})
  /\ Cardinality(Incoming) <= MaxIncoming
  /\ \A c \in Callers : counts[c] <= MaxIncomingPerPeer

(* An outcome is final: late responses, the timer, the caller's signal and  *)
(* the teardown race, and the first one settles the promise; and a request  *)
(* that was cancelled is never reported served after the abort arrived.     *)
SettledOnce ==
  \A i \in Ids : /\ call[i] \in Outcomes => call'[i] = call[i]
                 /\ handler[i] = "aborted" => (i \in served' <=> i \in served)

(* Every request settles, whatever becomes of its handler and its messages. *)
EveryRequestSettles == []<>(\A i \in Ids : ~ Pending(i))
==============================================================================
