------------------------------ MODULE MCTransport ------------------------------
(***************************************************************************)
(* What carries the data, model-checked: the scheduler of priority-mux     *)
(* alone with three tiers under arbitrary feeding, and in a mux with two   *)
(* tiers that sends up to two messages; a WebSocket transport; a Wisp     *)
(* client; the WebRTC connections of a mesh manager; two pods that connect *)
(* to each other at the same time; the keep-alive of a peer that comes and *)
(* goes and falls silent; and the calls that connect to a peer, or fail    *)
(* over to another transport, through a circuit breaker.  A behaviour runs *)
(* one of the eight; the variables of the others stay as they are          *)
(* initially.  PriorityScheduler is extended.                              *)
(***************************************************************************)
EXTENDS PriorityScheduler

CONSTANTS
  MuxTiers, MuxInterval, MuxBatch, MaxMessages, MaxArrivals,   \* PriorityMux
  MaxOffers, MaxWaits,                            \* Handshake
  MaxAttempts, MaxConnects, MaxSockets, MaxSends, MaxStreams,   \* ReconnectingClients
  MaxReconnectAttempts, MaxConns, MaxFaults,      \* RtcMesh
  MaxMissed, MaxAppearances, MaxUnderWay,         \* Keepalive
  Types, MaxRetries, MaxCalls                     \* Failover

ASSUME MuxAssumption ==
  /\ MuxTiers \in Nat \ {0} /\ MuxInterval \in Nat \ {0}
  /\ MuxBatch \in Nat /\ MaxMessages \in Nat

ASSUME OffersAssumption == MaxOffers \in Nat

(* A check that tolerates no missed pong and a retry without an attempt are *)
(* no configurations of the code's.                                         *)
ASSUME ConnectionsAssumption ==
  /\ MaxSockets \in Nat /\ MaxSends \in Nat /\ MaxStreams \in Nat
  /\ MaxReconnectAttempts \in Nat /\ MaxConns \in Nat
  /\ MaxMissed \in Nat \ {0} /\ MaxAppearances \in Nat /\ MaxRetries \in Nat \ {0}

VARIABLES
  run,                                                          \* which of them, fixed
  queues, muxSlot, muxWaited, muxServed, draining, ticks, shut, sent, lost,
  frames, peer, pending, delivered, arrivals,                   \* PriorityMux
  state, userClosed, attempts, cur, sockets, backoffs, calls, crossed, \* ReconnectingClients
  heartbeat, queue, wire, sends,                                \* ReconnectingClients
  opened, closed, mapped, carrier,                              \* ReconnectingClients
  conns, made, tracked, restarts, timer, offered, faults,       \* RtcMesh
  offer, call, accept, entry, waiters, waits, offers, answers, hasOnClose,  \* Handshake
  connected, connects, responsive, place, imports, cancelled, check, pings, pongs, unheard, torn,  \* Keepalive
  circuit, failures, cooled, active, failedTypes, failingOver, dials, transports, overlapped  \* Failover

mux == <<queues, muxSlot, muxWaited, muxServed, draining, ticks, shut, sent, lost,
         frames, peer, pending, delivered, arrivals>>
conn == <<state, userClosed, attempts, cur, sockets, backoffs, calls, crossed>>
sending == <<heartbeat, queue, wire, sends>>
streams == <<opened, closed, mapped, carrier>>
rtc == <<conns, made, tracked, restarts, timer, offered, faults>>
glare == <<offer, call, accept, entry, waiters, waits, offers, answers, hasOnClose>>
alive == <<connected, connects, responsive, place, imports, cancelled, check, pings, pongs, unheard, torn>>
backup == <<circuit, failures, cooled, active, failedTypes, failingOver, dials, transports, overlapped>>
all == <<run, vars, mux, conn, sending, streams, rtc, glare, alive, backup>>

Mux == INSTANCE PriorityMux WITH
  LastTier <- MuxTiers, GuardInterval <- MuxInterval, MaxBatch <- MuxBatch,
  slot <- muxSlot, waited <- muxWaited, served <- muxServed, closed <- shut, wire <- frames

Client == INSTANCE ReconnectingClients

Rtc == INSTANCE RtcMesh WITH attempts <- restarts

Glare == INSTANCE Handshake

Alive == INSTANCE Keepalive WITH
  MaxConnects <- MaxAppearances, answers <- responsive, entry <- place

Backup == INSTANCE Failover WITH calls <- dials

MCInit ==
  /\ Init /\ Mux!Init /\ Client!TransportInit /\ Client!ClientInit /\ Rtc!Init /\ Glare!Init /\ Alive!Init /\ Backup!Init
  /\ \/ run = "glare"
     \/ run \in {"scheduler", "mux", "websocket", "wisp", "rtc", "alive", "failover"} /\ hasOnClose

MCNext ==
  \/ run = "scheduler" /\ Next /\ UNCHANGED <<run, mux, conn, sending, streams, rtc, glare, alive, backup>>
  \/ run = "mux" /\ Mux!Next /\ UNCHANGED <<run, vars, conn, sending, streams, rtc, glare, alive, backup>>
  \/ run = "websocket" /\ Client!TransportNext /\ UNCHANGED <<run, vars, mux, streams, rtc, glare, alive, backup>>
  \/ run = "wisp" /\ Client!ClientNext /\ UNCHANGED <<run, vars, mux, sending, rtc, glare, alive, backup>>
  \/ run = "rtc" /\ Rtc!Next /\ UNCHANGED <<run, vars, mux, conn, sending, streams, glare, alive, backup>>
  \/ run = "glare" /\ Glare!Next /\ UNCHANGED <<run, vars, mux, conn, sending, streams, rtc, alive, backup>>
  \/ run = "alive" /\ Alive!Next /\ UNCHANGED <<run, vars, mux, conn, sending, streams, rtc, glare, backup>>
  \/ run = "failover" /\ Backup!Next /\ UNCHANGED <<run, vars, mux, conn, sending, streams, rtc, glare, alive>>

MCSpec ==
  /\ MCInit /\ [][MCNext]_all
  /\ Mux!Fairness /\ Client!Fairness /\ Rtc!Fairness
  /\ WF_alive(run = "alive" /\ Alive!Timers)

-----------------------------------------------------------------------------
(* `A message is never delivered partially', is delivered no more often     *)
(* than each of its frames arrived, and in the order of its tier unless     *)
(* frames of it were redelivered; `closing the underlying adapter           *)
(* mid-flight discards all pending reassembly state'.                       *)
WholeOnceInOrder == Mux!WholeOnceInOrder /\ Mux!NothingPendingAfterClose

(* The scheduler inside the mux behaves as PriorityScheduler. *)
ImplementsScheduler == Mux!ImplementsScheduler

(* The state a WebSocket transport or a Wisp client reports is the truth    *)
(* about its sockets; and sockets, heartbeat, jittered payloads and proxied *)
(* streams live no longer than the connection they belong to, until the     *)
(* user calls connect() while a close() is under way; nor do the timers of  *)
(* a keep-alive, whose verdicts have their cause.  A failover forgets no    *)
(* open transport, and no way out of it locks out the next.                 *)
TransportStateIsTrue ==
  /\ Client!StateIsTrue /\ Client!StreamsEndWithSocket /\ Alive!ChecksAreTracked /\ Backup!FailoverIsSound
  /\ run = "websocket" => Client!SendingFollowsConnection

(* What close() closed stays closed until the user connects again, unless   *)
(* a connect() came while a close() was under way.  A mesh manager tracks   *)
(* the connection that is not closed, and a timer of one that was replaced  *)
(* sends no offer in its name.                                              *)
ClosedStaysClosed ==
  [][/\ run \in {"websocket", "wisp"} => Client!ClosedForGood
     /\ run = "rtc" => Rtc!TrackedIsLive /\ Rtc!OffersForTracked]_all

(* Two pods that call each other at the same time, give up and call again   *)
(* hold the two ends of one connection.                                     *)
SessionsMatch == run = "glare" => Glare!SessionsMatch

(* Unless something is closed or the adapter threw, every message that      *)
(* send() accepted is delivered.  Reconnect loops end, and close()          *)
(* resolves, unless a connect() came while one was under way; a WebRTC      *)
(* failure whose repair is scheduled is repaired, or the connection ends.   *)
(* A peer that falls silent is found unhealthy.                             *)
TransportsSettle ==
  /\ Mux!EverythingArrives /\ (run = "websocket" => Client!Settles)
  /\ Rtc!FailureIsRepaired /\ Alive!SilenceIsNoticed
==============================================================================
