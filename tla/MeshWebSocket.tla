----------------------------- MODULE MeshWebSocket -----------------------------
(***************************************************************************)
(* BrowserMeshWebSocket and the service that accepts its connections       *)
(* (apps/mesh-websocket.mjs): one connection between a client and the      *)
(* session at the accepting pod.  Envelopes of one pod to another arrive   *)
(* in order; sendTo() may also reject.  Messages are numbered by sender.   *)
(***************************************************************************)
EXTENDS Naturals, Sequences

CONSTANT MaxMessages   \* bound on the messages of each side

VARIABLES
  readyState,   \* of "client" and "session"; a session is first "none", "deciding"
  wire,         \* per side: the envelopes on their way to it
  sent, got,    \* per side: number of messages sent; the messages received
  lost,         \* per side: its messages whose sendTo() rejected, or that came too early
  opened,       \* the client saw its connection open
  unsent        \* some ws-close could not be sent

vars == <<readyState, wire, sent, got, lost, opened, unsent>>

Sides == {"client", "session"}
Other == [client |-> "session", session |-> "client"]

(* The constructor: ws-open is sent, or the error closes the connection. *)
Init ==
  /\ \/ readyState = [client |-> "CONNECTING", session |-> "none"]
        /\ wire = [client |-> <<>>, session |-> <<[kind |-> "ws-open"]>>]
     \/ readyState = [client |-> "CLOSED", session |-> "none"]
        /\ wire = [client |-> <<>>, session |-> <<>>]
  /\ sent = [s \in Sides |-> 0] /\ got = [s \in Sides |-> <<>>] /\ lost = [s \in Sides |-> {}]
  /\ opened = FALSE /\ unsent = FALSE

Goes(s, m) == wire' = [wire EXCEPT ![Other[s]] = Append(@, m)]

(* send() *)
Send(s) ==
  /\ readyState[s] = "OPEN" /\ sent[s] < MaxMessages
  /\ sent' = [sent EXCEPT ![s] = @ + 1]
  /\ \/ Goes(s, [kind |-> "ws-message", data |-> sent[s] + 1]) /\ UNCHANGED lost
     \/ lost' = [lost EXCEPT ![s] = @ \cup {sent[s] + 1}] /\ UNCHANGED wire
  /\ UNCHANGED <<readyState, got, opened, unsent>>

(* close(): CLOSING until sendTo() settled, one way or the other *)
Close(s) ==
  /\ readyState[s] \in {"CONNECTING", "OPEN"}
  /\ readyState' = [readyState EXCEPT ![s] = "CLOSING"]
  /\ \/ Goes(s, [kind |-> "ws-close"]) /\ UNCHANGED unsent
     \/ unsent' = TRUE /\ UNCHANGED wire
  /\ UNCHANGED <<sent, got, lost, opened>>

FinalizeClose(s) ==
  /\ readyState[s] = "CLOSING"
  /\ readyState' = [readyState EXCEPT ![s] = "CLOSED"]
  /\ UNCHANGED <<wire, sent, got, lost, opened, unsent>>

(* The client gives up, and does not tell the other side. *)
OpenTimeout ==
  /\ readyState["client"] = "CONNECTING"
  /\ readyState' = [readyState EXCEPT !["client"] = "CLOSED"]
  /\ UNCHANGED <<wire, sent, got, lost, opened, unsent>>

(* #handleEnvelope(): a closed side has unsubscribed; of the rest, each     *)
(* kind counts in some states only.                                         *)
Hears(s) == readyState[s] \in {"CONNECTING", "OPEN", "CLOSING"}
HearsMessage(s) == readyState[s] = "OPEN"

Receive(s) ==
  /\ wire[s] # <<>> /\ Head(wire[s]).kind # "ws-open"
  /\ wire' = [wire EXCEPT ![s] = Tail(@)]
  /\ LET m == Head(wire[s]) IN
     /\ readyState' = [readyState EXCEPT ![s] =
          CASE m.kind = "ws-open-ack" /\ @ = "CONNECTING" -> "OPEN"
            [] m.kind = "ws-reject" /\ @ = "CONNECTING" -> "CLOSED"
            [] m.kind = "ws-close" /\ Hears(s) -> "CLOSED"
            [] OTHER -> @]
     /\ got' = IF m.kind = "ws-message" /\ HearsMessage(s) THEN [got EXCEPT ![s] = Append(@, m.data)] ELSE got
     /\ lost' = IF m.kind = "ws-message" /\ readyState[s] = "CONNECTING"
                THEN [lost EXCEPT !["session"] = @ \cup {m.data}] ELSE lost
     /\ opened' = (opened \/ (m.kind = "ws-open-ack" /\ readyState[s] = "CONNECTING"))
  /\ UNCHANGED <<sent, unsent>>

(* handleOpen() up to the await of onConnection() *)
ReceiveOpen ==
  /\ wire["session"] # <<>> /\ Head(wire["session"]).kind = "ws-open"
  /\ wire' = [wire EXCEPT !["session"] = Tail(@)]
  /\ readyState' = [readyState EXCEPT !["session"] = "deciding"]
  /\ UNCHANGED <<sent, got, lost, opened, unsent>>

Reject ==
  /\ readyState["session"] = "deciding"
  /\ readyState' = [readyState EXCEPT !["session"] = "CLOSED"]
  /\ Goes("session", [kind |-> "ws-reject"]) \/ UNCHANGED wire
  /\ UNCHANGED <<sent, got, lost, opened, unsent>>

(* The session exists, open, before the ack goes out: onIncomingConnection()*)
(* is called in between and may send at once.                               *)
Accept ==
  /\ readyState["session"] = "deciding"
  /\ \E early \in {<<>>, <<[kind |-> "ws-message", data |-> 1]>>} :
       /\ sent' = [sent EXCEPT !["session"] = Len(early)]
       /\ \/ /\ readyState' = [readyState EXCEPT !["session"] = "OPEN"]
             /\ wire' = [wire EXCEPT !["client"] = @ \o early \o <<[kind |-> "ws-open-ack"]>>]
             /\ UNCHANGED unsent
          \/ /\ readyState' = [readyState EXCEPT !["session"] = "CLOSING"]   \* no ack: close(1011)
             /\ \/ /\ wire' = [wire EXCEPT !["client"] = @ \o early \o <<[kind |-> "ws-close"]>>]
                   /\ UNCHANGED unsent
                \/ /\ wire' = [wire EXCEPT !["client"] = @ \o early]
                   /\ unsent' = TRUE
  /\ UNCHANGED <<got, lost, opened>>

(* What goes on by itself *)
Steps == \E s \in Sides : Receive(s) \/ FinalizeClose(s)

Next ==
  \/ \E s \in Sides : Send(s) \/ Close(s)
  \/ Steps
  \/ OpenTimeout \/ ReceiveOpen \/ Accept \/ Reject

-----------------------------------------------------------------------------
(* Each side receives the messages of the other in order; the only ones     *)
(* that are missing before a received one are those whose send() reported   *)
(* an error and those the session sent before its ack, which the client     *)
(* ignores.  And the client is open only while there was a session for it.  *)
MessagesInOrder ==
  /\ \A s \in Sides : \A i \in DOMAIN got[s] :
       \A n \in 1..got[s][i] :
         n \in lost[Other[s]] \/ \E j \in 1..i : got[s][j] = n
  /\ \A s \in Sides : \A i \in DOMAIN got[s] : \A j \in 1..(i - 1) : got[s][j] < got[s][i]
  /\ readyState["client"] = "OPEN" => readyState["session"] \notin {"none", "deciding"}

(* A connection that was open and is closed by one side is closed at both,  *)
(* unless the ws-close could not be sent: closes that cross, messages and   *)
(* the ack race.  (A client that gives up while it is CONNECTING leaves a   *)
(* session behind.)                                                         *)
CloseReachesOther ==
  (opened /\ \E s \in Sides : readyState[s] = "CLOSED")
    ~> (unsent \/ \A s \in Sides : readyState[s] = "CLOSED")
==============================================================================
