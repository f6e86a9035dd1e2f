-------------------------------- MODULE PodBoot --------------------------------
(***************************************************************************)
(* Pods of one origin boot, find each other on a BroadcastChannel and shut *)
(* down (browsermesh-pod: pod.mjs, discovery.mjs, transport.mjs).  A pod   *)
(* in an iframe also greets the page around it, by window messages.  boot()*)
(* and shutdown() are not aware of each other: a boot that was shut down   *)
(* goes on.  A channel delivers what one pod posted to another in order,   *)
(* to the pods that listen at the time of the posting.                     *)
(***************************************************************************)
EXTENDS Naturals, Sequences

CONSTANTS
  Pods, None,
  Parent,       \* per pod: the pod of the page around it, or None
  Silent        \* pods that are shut down with the option `silent'

VARIABLES
  state,        \* #state
  pc,           \* what boot() awaits: "none", "identity", "handshake", "discovery"
  listening,    \* whether the window handler is installed
  discovery,    \* whether #discovery is set, and #transport with it
  channel,      \* whether the transport's channel is open
  role, peers,  \* #role, #peers
  inbox,        \* inbox[p][q]: what q posted and p has not handled
  greetings     \* pods whose POD_HELLO is under way to their parent's window

vars == <<state, pc, listening, discovery, channel, role, peers, inbox, greetings>>

Init ==
  /\ state = [p \in Pods |-> "idle"] /\ pc = [p \in Pods |-> "none"]
  /\ listening = [p \in Pods |-> FALSE] /\ discovery = [p \in Pods |-> FALSE]
  /\ channel = [p \in Pods |-> FALSE]
  /\ role = [p \in Pods |-> "autonomous"] /\ peers = [p \in Pods |-> {}]
  /\ inbox = [p \in Pods |-> [q \in Pods |-> <<>>]]
  /\ greetings = {}

(* The channel with what p posts to the pods in Q; BroadcastChannel does    *)
(* not deliver to the sender, nor to channels that are closed.              *)
Posted(p, Q, type) ==
  [q \in Pods |-> IF channel[p] /\ q \in Q \ {p} /\ channel[q]
                  THEN [inbox[q] EXCEPT ![p] = Append(@, type)] ELSE inbox[q]]

-----------------------------------------------------------------------------
(* boot() *)

(* Phase 0, up to the await of PodIdentity.generate() *)
Boot(p) ==
  /\ state[p] = "idle"
  /\ state' = [state EXCEPT ![p] = "booting"]
  /\ pc' = [pc EXCEPT ![p] = "identity"]
  /\ UNCHANGED <<listening, discovery, channel, role, peers, inbox, greetings>>

(* #peerDiscovery(), TransportDiscovery.start(): the channel is opened and  *)
(* greeted, and boot() awaits the discovery timeout.                        *)
StartDiscovery(p) ==
  /\ discovery' = [discovery EXCEPT ![p] = TRUE]
  /\ channel' = [channel EXCEPT ![p] = TRUE]
  /\ inbox' = [q \in Pods |-> IF q # p /\ channel[q]
                              THEN [inbox[q] EXCEPT ![p] = Append(@, "hello")] ELSE inbox[q]]
  /\ pc' = [pc EXCEPT ![p] = "discovery"]

(* Phases 1 to 3, once there is an identity: the handler, and a greeting to *)
(* the parent if there is one.                                              *)
Identified(p) ==
  /\ pc[p] = "identity"
  /\ listening' = [listening EXCEPT ![p] = TRUE]
  /\ \/ /\ Parent[p] # None
        /\ greetings' = greetings \cup {p}
        /\ pc' = [pc EXCEPT ![p] = "handshake"]
        /\ UNCHANGED <<discovery, channel, inbox>>
     \/ /\ Parent[p] = None
        /\ StartDiscovery(p) /\ UNCHANGED greetings
  /\ UNCHANGED <<state, role, peers>>

(* The parent's page acknowledged, or the handshake timed out. *)
HandshakeEnds(p) ==
  /\ pc[p] = "handshake"
  /\ \/ /\ role' = [role EXCEPT ![p] = "child"]
        /\ peers' = [peers EXCEPT ![p] = @ \cup {Parent[p]}]
     \/ UNCHANGED <<role, peers>>
  /\ StartDiscovery(p)
  /\ UNCHANGED <<state, listening, greetings>>

(* Phase 5 *)
DiscoveryEnds(p) ==
  /\ pc[p] = "discovery" /\ pc' = [pc EXCEPT ![p] = "none"]
  /\ state' = [state EXCEPT ![p] = "ready"]
  /\ role' = [role EXCEPT ![p] = CASE @ = "child" -> "child"
                                   [] @ # "child" /\ peers[p] = {} -> "autonomous"
                                   [] OTHER -> "peer"]
  /\ UNCHANGED <<listening, discovery, channel, peers, inbox, greetings>>

(* There is no identity to be had. *)
BootFails(p) ==
  /\ pc[p] = "identity" /\ pc' = [pc EXCEPT ![p] = "none"]
  /\ state' = [state EXCEPT ![p] = "idle"]
  /\ UNCHANGED <<listening, discovery, channel, role, peers, inbox, greetings>>

-----------------------------------------------------------------------------
(* shutdown(): a goodbye unless silent, the channel is closed, the window   *)
(* handler removed.  A boot that is under way is not stopped.               *)
Shutdown(p) ==
  /\ state[p] \in {"booting", "ready"}
  /\ LET told == IF p \in Silent THEN inbox ELSE Posted(p, Pods, "goodbye")
     IN inbox' = [told EXCEPT ![p] = [q \in Pods |-> <<>>]]
  /\ discovery' = [discovery EXCEPT ![p] = FALSE] /\ channel' = [channel EXCEPT ![p] = FALSE]
  /\ listening' = [listening EXCEPT ![p] = FALSE]
  /\ peers' = [peers EXCEPT ![p] = {}]
  /\ state' = [state EXCEPT ![p] = "shutdown"]
  /\ UNCHANGED <<pc, role, greetings>>

(* TransportDiscovery.#handleMessage() of what q posted *)
Receive(p, q) ==
  /\ inbox[p][q] # <<>>
  /\ LET type == Head(inbox[p][q])
         acked == IF type = "hello" THEN Posted(p, {q}, "ack") ELSE inbox
     IN /\ inbox' = [acked EXCEPT ![p][q] = Tail(@)]
        /\ peers' = [peers EXCEPT ![p] = IF type = "goodbye" THEN @ \ {q} ELSE @ \cup {q}]
  /\ UNCHANGED <<state, pc, listening, discovery, channel, role, greetings>>

(* The parent's window gets the greeting of c: #handleIncoming(), which     *)
(* answers on the channel.                                                  *)
ReceiveGreeting(c) ==
  /\ c \in greetings /\ greetings' = greetings \ {c}
  /\ LET p == Parent[c] IN
     IF listening[p]
     THEN /\ peers' = [peers EXCEPT ![p] = @ \cup {c}]
          /\ inbox' = IF discovery[p] THEN Posted(p, {c}, "ack") ELSE inbox
     ELSE UNCHANGED <<peers, inbox>>
  /\ UNCHANGED <<state, pc, listening, discovery, channel, role>>

Next ==
  \/ \E p \in Pods : \/ Boot(p) \/ Identified(p) \/ HandshakeEnds(p) \/ DiscoveryEnds(p) \/ BootFails(p)
                     \/ Shutdown(p) \/ \E q \in Pods : Receive(p, q)
  \/ \E c \in Pods : ReceiveGreeting(c)

-----------------------------------------------------------------------------
(* When nothing is under way, a pod on the channel knows all others that    *)
(* are on it, and no pod that took leave: only one that left silently, or   *)
(* its own child or parent that is not on the channel.                      *)
PeersAreExact ==
  (greetings = {} /\ \A p, q \in Pods : inbox[p][q] = <<>>) =>
    \A p \in Pods : channel[p] =>
      /\ {q \in Pods \ {p} : channel[q]} \subseteq peers[p]
      /\ \A q \in peers[p] : channel[q] \/ q \in Silent \/ Parent[q] = p \/ Parent[p] = q
==============================================================================
