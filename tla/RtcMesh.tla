-------------------------------- MODULE RtcMesh --------------------------------
(***************************************************************************)
(* WebRTCPeerConnection and WebRTCMeshManager of browsermesh-transport     *)
(* (webrtc.mjs): the connections a manager opens to one peer under one     *)
(* connection id, one after another.  The RTCPeerConnection, its control   *)
(* channel and the peer are external: the peer answers offers or not, and  *)
(* the connection state moves as WebRTC defines it.  A closed              *)
(* RTCPeerConnection settles none of its promises, so the awaits of        *)
(* createOffer(), handleOffer() and reconnect() are part of their action.  *)
(* ICE candidates, the bulk and the extra channels are left out.           *)
(***************************************************************************)
EXTENDS Naturals

CONSTANTS
  MaxReconnectAttempts,   \* #maxReconnectAttempts
  MaxConns,               \* bound: connections opened
  MaxFaults               \* bound: disconnections, failures, channel errors and fresh offers

VARIABLES
  conns,      \* conns[c]: the fields of connection c
  made,       \* connections opened so far
  tracked,    \* #connections: the one under the id, 0 if none
  attempts,   \* #reconnectAttempts under the id
  timer,      \* #reconnectTimers under the id: the connection it will restart, 0 if none
  offered,    \* history: the connection the last reconnect offer was for
  faults      \* history: faults so far

vars == <<conns, made, tracked, attempts, timer, offered, faults>>
manager == <<tracked, attempts, timer>>

Conn == 1..MaxConns

(* state: #state.  pc: its connectionState, "none" when #pc is null.  dc:   *)
(* the control channel.  signaling: signalingState.  grace: the             *)
(* disconnected timer is set.                                               *)
Fresh == [state |-> "new", pc |-> "none", dc |-> "none", signaling |-> "stable", grace |-> FALSE]

Init ==
  /\ conns = [c \in Conn |-> Fresh]
  /\ made = 0
  /\ tracked = 0
  /\ attempts = 0
  /\ timer = 0
  /\ offered = 0
  /\ faults = 0

Update(c, conn) == conns' = [conns EXCEPT ![c] = conn]

Fault == faults < MaxFaults /\ faults' = faults + 1

IsOpen(conn) == conn.state = "connected" /\ conn.dc = "open"

-----------------------------------------------------------------------------
(* #clearReconnectState() *)
ClearReconnectState == attempts' = 0 /\ timer' = 0

(* #scheduleReconnect(), from onError of connection c. *)
ScheduleReconnect(c) ==
  /\ UNCHANGED tracked
  /\ \/ /\ timer = 0 /\ attempts < MaxReconnectAttempts
        /\ attempts' = attempts + 1
        /\ timer' = c
     \/ /\ timer # 0 \/ attempts >= MaxReconnectAttempts
        /\ UNCHANGED <<attempts, timer>>

(* The manager's onClose callback. *)
ForgetPeer == tracked' = 0 /\ ClearReconnectState

(* connectToPeer() when nothing is tracked under the id. *)
ConnectToPeer ==
  /\ tracked = 0
  /\ made < MaxConns
  /\ made' = made + 1
  /\ tracked' = made + 1
  /\ UNCHANGED <<conns, attempts, timer, offered, faults>>

-----------------------------------------------------------------------------
(* createOffer(): once per connection. *)
CreateOffer(c) ==
  /\ c <= made /\ conns[c].state # "closed" /\ conns[c].pc = "none"
  /\ Update(c, [conns[c] EXCEPT !.state = "connecting", !.pc = "new", !.dc = "connecting",
                                !.signaling = "have-local-offer"])
  /\ UNCHANGED <<made, manager, offered, faults>>

(* handleAnswer(): after an ICE restart the checks begin anew. *)
HandleAnswer(c) ==
  /\ conns[c].pc # "none" /\ conns[c].signaling = "have-local-offer"
  /\ Update(c, [conns[c] EXCEPT !.signaling = "stable", !.pc = IF @ = "failed" THEN "connecting" ELSE @])
  /\ UNCHANGED <<made, manager, offered, faults>>

(* handleOffer() with a fresh offer: what there was is released without     *)
(* its handlers hearing of it, and a new RTCPeerConnection answers.         *)
HandleFreshOffer(c) ==
  /\ c <= made /\ conns[c].state # "closed"
  /\ Fault
  /\ Update(c, [conns[c] EXCEPT !.state = "connecting", !.pc = "new", !.dc = "none",
                                !.signaling = "stable"])
  /\ UNCHANGED <<made, manager, offered>>

(* The control channel, created here or announced by the peer, opens. *)
ChannelOpens(c) ==
  /\ conns[c].pc = "connected" /\ conns[c].dc \in {"none", "connecting"}
  /\ Update(c, [conns[c] EXCEPT !.dc = "open", !.state = "connected"])
  /\ \/ conns[c].state # "connected" /\ ClearReconnectState
     \/ conns[c].state = "connected" /\ UNCHANGED <<attempts, timer>>
  /\ UNCHANGED <<made, tracked, offered, faults>>

(* close() of a connection that is not closed: everything is released, and  *)
(* the close callback runs once.                                            *)
Released == [Fresh EXCEPT !.state = "closed", !.dc = "closed"]

CloseConn(c) ==
  /\ Update(c, Released)
  /\ ForgetPeer

(* closePeer(), closeAll(), or the control channel's onclose after the peer *)
(* hung up.                                                                 *)
Close(c) ==
  /\ tracked = c
  /\ CloseConn(c)
  /\ UNCHANGED <<made, offered, faults>>

(* The control channel's onerror: an error and then the close callback, but *)
(* the RTCPeerConnection stays.                                             *)
ChannelError(c) ==
  /\ Fault
  /\ conns[c].dc = "open" /\ conns[c].state # "closed"
  /\ Update(c, [conns[c] EXCEPT !.state = "closed", !.dc = "closed", !.grace = FALSE])
  /\ ForgetPeer
  /\ UNCHANGED <<made, offered>>

-----------------------------------------------------------------------------
(* onconnectionstatechange *)
PcConnects(c) ==
  /\ conns[c].pc \in {"new", "connecting", "disconnected"} /\ conns[c].signaling = "stable"
  /\ Update(c, [conns[c] EXCEPT !.pc = "connected", !.grace = FALSE])
  /\ UNCHANGED <<made, manager, offered, faults>>

PcDisconnects(c) ==
  /\ Fault
  /\ conns[c].pc = "connected"
  /\ Update(c, [conns[c] EXCEPT !.pc = "disconnected", !.grace = TRUE])
  /\ UNCHANGED <<made, manager, offered>>

PcFails(c) ==
  /\ Fault
  /\ conns[c].pc \in {"new", "connecting", "connected", "disconnected"}
  /\ Update(c, [conns[c] EXCEPT !.pc = "failed", !.grace = FALSE,
                                !.state = IF @ = "closed" THEN @ ELSE "failed"])
  /\ ScheduleReconnect(c)
  /\ UNCHANGED <<made, offered>>

(* The stack itself closes: the error schedules a reconnect that the close  *)
(* callback takes back.                                                     *)
PcCloses(c) ==
  /\ Fault
  /\ conns[c].pc # "none"
  /\ \/ /\ conns[c].state # "closed"
        /\ CloseConn(c)
     \/ /\ conns[c].state = "closed"
        /\ Update(c, Released)
        /\ UNCHANGED manager
  /\ UNCHANGED <<made, offered>>

(* The disconnected timer: still disconnected counts as an error. *)
GraceExpires(c) ==
  /\ conns[c].grace
  /\ Update(c, [conns[c] EXCEPT !.grace = FALSE])
  /\ \/ /\ conns[c].state # "closed" /\ conns[c].pc = "disconnected"
        /\ ScheduleReconnect(c)
     \/ /\ conns[c].state = "closed" \/ conns[c].pc # "disconnected"
        /\ UNCHANGED manager
  /\ UNCHANGED <<made, offered, faults>>

-----------------------------------------------------------------------------
CanReconnectClosed(conn) == conn.pc # "none"

(* reconnect() throws on a connection that is closed or has no pc, ...      *)
CanReconnect(conn) == conn.state # "closed" /\ conn.pc # "none"

(* ... and has nothing to do while one negotiation is in flight or, unless  *)
(* forced, on a healthy connection.                                         *)
DeclinesUnforced(conn, force) == conn.signaling # "stable" \/ ~ force

Declines(conn, force) ==
  \/ conn.signaling # "stable"
  \/ ~ force /\ IsOpen(conn) /\ conn.pc = "connected"

RestartIce(c) ==
  /\ Update(c, [conns[c] EXCEPT !.signaling = "have-local-offer"])
  /\ offered' = c

(* The timer of #scheduleReconnect() *)
ReconnectTimer ==
  /\ timer # 0
  /\ \/ /\ tracked = 0 \/ ~ CanReconnect(conns[timer])
        /\ timer' = 0
        /\ UNCHANGED <<conns, attempts, offered>>
     \/ /\ tracked # 0 /\ CanReconnect(conns[timer])
        /\ IF Declines(conns[timer], FALSE)
           THEN ClearReconnectState /\ UNCHANGED <<conns, offered>>
           ELSE RestartIce(timer) /\ timer' = 0 /\ UNCHANGED attempts
  /\ UNCHANGED <<made, tracked, faults>>

(* reconnectPeer() *)
ReconnectPeer(force) ==
  /\ tracked # 0 /\ CanReconnect(conns[tracked]) /\ ~ Declines(conns[tracked], force)
  /\ RestartIce(tracked)
  /\ UNCHANGED <<made, manager, faults>>

Next ==
  \/ ConnectToPeer \/ ReconnectTimer
  \/ \E force \in BOOLEAN : ReconnectPeer(force)
  \/ \E c \in Conn :
       \/ CreateOffer(c) \/ HandleAnswer(c) \/ HandleFreshOffer(c)
       \/ ChannelOpens(c) \/ ChannelError(c) \/ Close(c)
       \/ PcConnects(c) \/ PcDisconnects(c) \/ PcFails(c) \/ PcCloses(c) \/ GraceExpires(c)

Spec == Init /\ [][Next]_vars

(* The timer fires and the peer answers. *)
Fairness ==
  /\ WF_vars(ReconnectTimer)
  /\ WF_vars(\E c \in Conn : HandleAnswer(c))

-----------------------------------------------------------------------------
(* The map is exact: of all connections ever opened it holds the one that   *)
(* is not closed, if there is one, however failures, hangups, errors and    *)
(* reopenings follow each other; and the attempts stay within their limit.  *)
TrackedIsLive ==
  /\ \A c \in 1..made : conns[c].state # "closed" <=> tracked = c
  /\ attempts <= MaxReconnectAttempts

(* A reconnect offer goes out for the tracked connection only, although a   *)
(* timer may have been set by the late failure of one already replaced.     *)
OffersForTracked == offered' # offered => offered' = tracked

(* A failure whose repair is scheduled is followed by new connectivity      *)
(* checks or the end of the connection, also when a negotiation was in      *)
(* flight when the timer fired.  (The timer may be taken by a connection    *)
(* already replaced: README, section 4.)                                    *)
FailureIsRepaired ==
  \A c \in Conn :
    timer = c /\ conns[c].pc = "failed" ~> conns[c].pc # "failed" \/ conns[c].state = "closed"

=============================================================================
