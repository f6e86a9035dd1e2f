--------------------------- MODULE ChunkReplication ---------------------------
(***************************************************************************)
(* Replication and repair of the chunks of a bucket                        *)
(* (apps/chunk-replication.mjs): a writer pushes the chunks of a new entry *)
(* to its replicas and waits for their acknowledgements or a timeout; a    *)
(* reader that lacks a chunk asks who has it and fetches it.  A message    *)
(* that is lost is one that is never handled.  The object store below is   *)
(* the set of chunks a pod holds.                                          *)
(***************************************************************************)
EXTENDS Naturals, FiniteSets, FiniteSetsExt

CONSTANTS Pods, Writer, Reader, Chunks,
  MaxFetches  \* bound: calls of fetchChunk()

VARIABLES
  store,     \* pod -> chunks it holds
  online,    \* pods that are connected
  granted,   \* pods that grant the writer write access and are its replicas
  put,       \* replicatePut(): [at, targets, acked]; acked: target -> chunks
  fetch,     \* fetchChunk(): [at, cid]
  wire,      \* messages: [kind, from, to, cid, req]; req: the request it belongs to
  requests   \* fetches so far, the request id of the current one

vars == <<store, online, granted, put, fetch, wire, requests>>

NoPut == [at |-> "none", targets |-> {}, acked |-> [t \in {} |-> {}]]
NoFetch == [at |-> "none", cid |-> CHOOSE c \in Chunks : TRUE]

(* The writer may lack a chunk that its entry names. *)
Init ==
  /\ \E mine \in SUBSET Chunks : store = [p \in Pods |-> IF p = Writer THEN mine ELSE {}]
  /\ online = Pods /\ granted = Pods \ {Writer}
  /\ put = NoPut /\ fetch = NoFetch /\ wire = {} /\ requests = 0

Msg(k, f, t, c, r) == [kind |-> k, from |-> f, to |-> t, cid |-> c, req |-> r]
Take(m) == m \in wire
Reply(m, k) == wire' = (wire \ {m}) \cup {Msg(k, m.to, m.from, m.cid, m.req)}

-----------------------------------------------------------------------------
(* replicatePut(): every chunk the writer holds goes to every replica. *)
ReplicatePut ==
  /\ put = NoPut
  /\ LET targets == granted \cap online IN
       /\ put' = [at |-> IF targets = {} THEN "local-only" ELSE "waiting", targets |-> targets,
                  acked |-> [t \in targets |-> {}]]
       /\ wire' = wire \cup {Msg("chunk-push", Writer, t, c, 0) : t \in targets, c \in store[Writer]}
  /\ UNCHANGED <<store, online, granted, fetch, requests>>

HandleChunkPush(m) ==
  /\ Take(m) /\ m.kind = "chunk-push"
  /\ \/ /\ m.to \in granted
        /\ store' = [store EXCEPT ![m.to] = @ \cup {m.cid}]
        /\ Reply(m, "replicate-ack")
     \/ \* refused, or the store failed
        /\ wire' = wire \ {m} /\ UNCHANGED store
  /\ UNCHANGED <<online, granted, put, fetch, requests>>

Complete(acked, t) == acked[t] = Chunks
FullyAcked(pt) == {t \in pt.targets : Complete(pt.acked, t)}

HandleReplicateAck(m) ==
  /\ Take(m) /\ m.kind = "replicate-ack" /\ wire' = wire \ {m}
  /\ IF put.at # "waiting" THEN UNCHANGED put
     ELSE LET new == [put EXCEPT !.acked[m.from] = @ \cup {m.cid}]
          IN put' = IF FullyAcked(new) = new.targets THEN [new EXCEPT !.at = "replicated"] ELSE new
  /\ UNCHANGED <<store, online, granted, fetch, requests>>

PutTimeout ==
  /\ put.at = "waiting"
  /\ put' = [put EXCEPT !.at = IF FullyAcked(put) = {} THEN "local-only" ELSE "replicated"]
  /\ UNCHANGED <<store, online, granted, fetch, wire, requests>>

ReplicatedTo == IF put.at = "replicated" THEN FullyAcked(put) ELSE {}

-----------------------------------------------------------------------------
(* fetchChunk(): what the store has is returned; otherwise every connected  *)
(* peer is asked, the first that has the chunk ends the query, and the      *)
(* chunk is fetched from it.                                                *)
Fetches == {m \in wire : m.kind \notin {"chunk-push", "replicate-ack"}}

FetchChunk(c) ==
  /\ fetch.at \in {"none", "ok", "failed"} /\ requests < MaxFetches /\ put.at \in {"local-only", "replicated"}
  \* bound: fetches only after the put, whose last messages are lost
  /\ requests' = requests + 1
  /\ IF c \in store[Reader]
     THEN fetch' = [at |-> "ok", cid |-> c] /\ wire' = Fetches
     ELSE /\ fetch' = [at |-> IF online = {Reader} THEN "failed" ELSE "query", cid |-> c]
          /\ wire' = Fetches \cup {Msg("have-query", Reader, p, c, requests + 1) : p \in online \ {Reader}}
  /\ UNCHANGED <<store, online, granted, put>>

HandleHaveQuery(m) ==
  /\ Take(m) /\ m.kind = "have-query"
  /\ IF m.cid \in store[m.to] THEN Reply(m, "have-response") ELSE wire' = wire \ {m}
  /\ UNCHANGED <<store, online, granted, put, fetch, requests>>

(* The request to the responder leaves at once; a response to a query that  *)
(* is over finds nothing.                                                   *)
HandleHaveResponse(m) ==
  /\ Take(m) /\ m.kind = "have-response"
  /\ IF fetch.at = "query" /\ m.req = requests
     THEN /\ fetch' = [fetch EXCEPT !.at = "fetch"]
          /\ Reply(m, "fetch-request")
     ELSE wire' = wire \ {m} /\ UNCHANGED fetch
  /\ UNCHANGED <<store, online, granted, put, requests>>

QueryTimeout ==
  /\ fetch.at = "query" /\ fetch' = [fetch EXCEPT !.at = "failed"]
  /\ UNCHANGED <<store, online, granted, put, wire, requests>>

HandleFetchRequest(m) ==
  /\ Take(m) /\ m.kind = "fetch-request"
  /\ Reply(m, IF m.cid \in store[m.to] THEN "fetch-data" ELSE "fetch-error")
  /\ UNCHANGED <<store, online, granted, put, fetch, requests>>

HandleFetchResponseAnyRequest(m) ==
  /\ Take(m) /\ m.kind \in {"fetch-data", "fetch-error"} /\ wire' = wire \ {m}
  /\ fetch' = [fetch EXCEPT !.at = IF m.kind = "fetch-error" THEN "failed" ELSE "ok"]
  /\ store' = [store EXCEPT ![Reader] = IF m.kind = "fetch-error" THEN @ ELSE @ \cup {m.cid}]
  /\ UNCHANGED <<online, granted, put, requests>>

(* The chunk is stored before it is returned: read repair. *)
HandleFetchResponse(m) ==
  /\ Take(m) /\ m.kind \in {"fetch-data", "fetch-error"} /\ wire' = wire \ {m}
  /\ IF fetch.at # "fetch" \/ m.req # requests THEN UNCHANGED <<fetch, store>>
     ELSE IF m.kind = "fetch-error" THEN fetch' = [fetch EXCEPT !.at = "failed"] /\ UNCHANGED store
     ELSE fetch' = [fetch EXCEPT !.at = "ok"] /\ store' = [store EXCEPT ![Reader] = @ \cup {m.cid}]
  /\ UNCHANGED <<online, granted, put, requests>>

FetchTimeout ==
  /\ fetch.at = "fetch" /\ fetch' = [fetch EXCEPT !.at = "failed"]
  /\ UNCHANGED <<store, online, granted, put, wire, requests>>

-----------------------------------------------------------------------------
Leave(p) == /\ p \in online \ {Reader, Writer} /\ online' = online \ {p}
            /\ wire' = {m \in wire : p \notin {m.from, m.to}}
            /\ UNCHANGED <<store, granted, put, fetch, requests>>
RevokeAccess(p) == /\ p \in granted /\ granted' = granted \ {p}
                   /\ UNCHANGED <<store, online, put, fetch, wire, requests>>

Timeouts == PutTimeout \/ QueryTimeout \/ FetchTimeout

Next ==
  \/ ReplicatePut \/ Timeouts
  \/ \E c \in Chunks : FetchChunk(c)
  \/ \E m \in wire :
       \/ HandleChunkPush(m) \/ HandleReplicateAck(m) \/ HandleHaveQuery(m) \/ HandleHaveResponse(m)
       \/ HandleFetchRequest(m) \/ HandleFetchResponse(m)
  \/ \E p \in Pods : Leave(p) \/ RevokeAccess(p)

Fairness == WF_vars(Timeouts)

Spec == Init /\ [][Next]_vars /\ Fairness

-----------------------------------------------------------------------------
(* The durability that a put reports is real: each pod in replicatedTo has  *)
(* every chunk of the entry, whatever was lost, refused or late, and also   *)
(* when the writer itself lacked a chunk.  A fetch that succeeded left its  *)
(* own chunk in the reader's store, not that of an earlier request.         *)
ReportsAreTrue ==
  /\ \A t \in ReplicatedTo : store[t] = Chunks
  /\ put.at = "replicated" => ReplicatedTo # {}
  /\ fetch.at = "ok" => fetch.cid \in store[Reader]
==============================================================================
