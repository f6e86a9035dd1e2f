-------------------------------- MODULE PeerNode --------------------------------
(***************************************************************************)
(* A node of the mesh (apps/peer-node.mjs) and the peers of its registry   *)
(* (apps/peer-registry.mjs): boot(), shutdown(), and the sessions that     *)
(* connectToPeer() and adoptIncomingSession() make and disconnectPeer(),   *)
(* removePeer() and shutdown() end.  The awaits are those of discovery, of *)
(* the negotiation and, in shutdown(), of the audit chain; whatever comes  *)
(* meanwhile, the calls go on where they were.                             *)
(***************************************************************************)
EXTENDS Naturals, FiniteSets

CONSTANTS Peers,
  MaxBoots,      \* bound: boot() calls
  MaxSessions    \* bound: connectToPeer() and adoptIncomingSession() calls

VARIABLES
  state,         \* #state
  boots,         \* boot() calls so far
  booting,       \* those that await discovery.start() (or a first identity)
  stopping,      \* shutdown() calls that await discovery.stop()
  auditing,      \* and those that await the audit chain
  peers,         \* peer -> "none" or its status in the registry
  connecting,    \* the peers of connectToPeer() calls that negotiate: <<number, peer>>
  sessions,      \* #sessions: [peer, transport]; transport 0: null
  used,          \* calls that make sessions, so far; numbers the transports
  open           \* transports that nobody closed

lifecycle == <<boots, booting, stopping, auditing>>
vars == <<state, lifecycle, peers, connecting, sessions, used, open>>

Init ==
  /\ state = "stopped" /\ boots = 0 /\ booting = 0 /\ stopping = 0 /\ auditing = 0
  /\ peers = [p \in Peers |-> "none"]
  /\ connecting = {} /\ sessions = {} /\ used = 0 /\ open = {}

SessionsOf(p) == {s \in sessions : s.peer = p}
-----------------------------------------------------------------------------
Boot ==
  /\ state = "stopped" /\ boots < MaxBoots
  /\ state' = "booting" /\ boots' = boots + 1 /\ booting' = booting + 1
  /\ UNCHANGED <<stopping, auditing, peers, connecting, sessions, used, open>>

BootContinues ==
  /\ booting > 0
  /\ booting' = booting - 1 /\ state' \in {"running", "stopped"}
  /\ UNCHANGED <<boots, stopping, auditing, peers, connecting, sessions, used, open>>

Shutdown ==
  /\ state \in {"booting", "running"}
  /\ state' = "shutting_down" /\ stopping' = stopping + 1
  /\ UNCHANGED <<boots, booting, auditing, peers, connecting, sessions, used, open>>

DisconnectAll == peers' = [p \in Peers |-> IF peers[p] = "none" THEN "none" ELSE "disconnected"]

(* The sessions are dropped; their transports stay open. *)
ShutdownContinues ==
  /\ stopping > 0
  /\ stopping' = stopping - 1 /\ auditing' = auditing + 1
  /\ DisconnectAll /\ sessions' = {}
  /\ UNCHANGED <<state, boots, booting, connecting, used, open>>

ShutdownEnds ==
  /\ auditing > 0
  /\ auditing' = auditing - 1 /\ state' = "stopped"
  /\ UNCHANGED <<boots, booting, stopping, peers, connecting, sessions, used, open>>

(* discovery.stop() throws: nothing is cleaned up. *)
ShutdownFails ==
  /\ stopping > 0
  /\ stopping' = stopping - 1 /\ state' = "stopped"
  /\ UNCHANGED <<boots, booting, auditing, peers, connecting, sessions, used, open>>

-----------------------------------------------------------------------------
AddPeer(p) ==
  /\ state = "running" /\ peers[p] = "none"
  /\ peers' = [peers EXCEPT ![p] = "disconnected"]
  /\ UNCHANGED <<state, lifecycle, connecting, sessions, used, open>>

(* registry.connect() and #createSession(). *)
CreateSession(p, transport) ==
  /\ peers' = [peers EXCEPT ![p] = "connected"]
  /\ sessions' = sessions \cup {[peer |-> p, transport |-> transport]}

ConnectToPeer(p) ==
  /\ state = "running" /\ used < MaxSessions
  /\ used' = used + 1 /\ connecting' = connecting \cup {<<used + 1, p>>}
  /\ UNCHANGED <<state, lifecycle, peers, sessions, open>>

(* A failed negotiation makes a session too, without a transport. *)
ConnectContinues(c) ==
  /\ c \in connecting /\ connecting' = connecting \ {c}
  /\ \/ CreateSession(c[2], c[1]) /\ open' = open \cup {c[1]}
     \/ CreateSession(c[2], 0) /\ UNCHANGED open
  /\ UNCHANGED <<state, lifecycle, used>>

AdoptIncomingSession(p) ==
  /\ state = "running" /\ used < MaxSessions
  /\ used' = used + 1 /\ open' = open \cup {used + 1}
  /\ CreateSession(p, used + 1)
  /\ UNCHANGED <<state, lifecycle, connecting>>

CloseSessions(p) ==
  /\ sessions' = sessions \ SessionsOf(p)
  /\ open' = open \ {s.transport : s \in SessionsOf(p)}

DisconnectPeer(p) ==
  /\ state = "running"
  /\ CloseSessions(p)
  /\ peers' = [peers EXCEPT ![p] = IF @ = "none" THEN @ ELSE "disconnected"]
  /\ UNCHANGED <<state, lifecycle, connecting, used>>

RemovePeer(p) ==
  /\ state = "running"
  /\ sessions' = sessions \ SessionsOf(p)
  /\ peers' = [peers EXCEPT ![p] = "none"]
  /\ UNCHANGED <<state, lifecycle, connecting, used, open>>

Next ==
  \/ Boot \/ BootContinues
  \/ Shutdown \/ ShutdownContinues \/ ShutdownEnds \/ ShutdownFails
  \/ \E p \in Peers : AddPeer(p) \/ ConnectToPeer(p) \/ AdoptIncomingSession(p)
                      \/ DisconnectPeer(p) \/ RemovePeer(p)
  \/ \E c \in connecting : ConnectContinues(c)

-----------------------------------------------------------------------------
(* A peer is connected in the registry exactly when the node has a session  *)
(* with it, and the transports of the sessions are open: calls that go on   *)
(* after a shutdown(), a removePeer() or a disconnectPeer() bring both back *)
(* or neither.                                                              *)
SessionsFollowRegistry ==
  /\ \A p \in Peers : peers[p] = "connected" <=> SessionsOf(p) # {}
  /\ \A s \in sessions : s.transport # 0 => s.transport \in open
  /\ \A s, t \in sessions : s.transport = t.transport /\ s.transport # 0 => s = t
==============================================================================
