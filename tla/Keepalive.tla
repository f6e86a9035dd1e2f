------------------------------- MODULE Keepalive -------------------------------
(***************************************************************************)
(* The keep-alive service of one pod for one peer (apps/mesh-keepalive.mjs *)
(* on TransportHealthCheck of core/hardening.mjs).  Each connection of the *)
(* peer reserves the peer's place in `checks', imports the health check    *)
(* lazily and then installs it; reservations and checks are numbered by    *)
(* connection.  Pings and pongs may be lost.  The failover that follows an *)
(* unhealthy verdict is in the module Failover.                            *)
(***************************************************************************)
EXTENDS Naturals

CONSTANTS
  MaxMissed,      \* maxMissed
  MaxConnects,    \* bound: connections of the peer
  MaxUnderWay     \* bound: pings, and pongs, under way

VARIABLES
  connected,      \* whether the peer is connected
  connects,       \* connections so far
  answers,        \* whether the peer still answers; it may fall silent for good
  entry,          \* checks.get(peer): "none", "reservation" or "check", and its number
  imports,        \* the reservations whose import is under way
  cancelled,      \* the cancelled reservations
  check,          \* the health checks, by number
  pings, pongs,   \* under way
  unheard,        \* pings of the current check since it last heard a pong
  torn            \* whether teardown() was called

vars == <<connected, connects, answers, entry, imports, cancelled, check, pings, pongs, unheard, torn>>

Ids == 1..MaxConnects
None == [kind |-> "none", id |-> 0]

Init ==
  /\ connected = FALSE /\ connects = 0 /\ answers = TRUE /\ torn = FALSE
  /\ entry = None /\ imports = {} /\ cancelled = {}
  /\ check = [n \in Ids |-> [interval |-> FALSE, timer |-> FALSE, waiting |-> FALSE,
                             missed |-> 0, status |-> "healthy"]]
  /\ pings = 0 /\ pongs = 0 /\ unheard = 0

-----------------------------------------------------------------------------
(* Connections *)

(* handlePeerConnect, startCheckFor(): a place that is taken stays so. *)
PeerConnect ==
  /\ ~ connected /\ connects < MaxConnects
  /\ connected' = TRUE /\ connects' = connects + 1
  /\ IF torn \/ entry # None THEN UNCHANGED <<entry, imports>>
     ELSE /\ entry' = [kind |-> "reservation", id |-> connects + 1]
          /\ imports' = imports \cup {connects + 1}
  /\ UNCHANGED <<answers, cancelled, check, pings, pongs, unheard, torn>>

(* stopCheckFor(): the reservation is cancelled, or the check is stopped. *)
StopCheck ==
  /\ entry' = None
  /\ cancelled' = IF entry.kind = "reservation" THEN cancelled \cup {entry.id} ELSE cancelled
  /\ check' = IF entry.kind # "check" THEN check
              ELSE [check EXCEPT ![entry.id].interval = FALSE, ![entry.id].timer = FALSE]

PeerDisconnect ==
  /\ connected /\ connected' = FALSE
  /\ IF torn THEN UNCHANGED <<entry, cancelled, check>> ELSE StopCheck
  /\ UNCHANGED <<connects, answers, imports, pings, pongs, unheard, torn>>

Teardown ==
  /\ ~ torn /\ torn' = TRUE
  /\ StopCheck
  /\ UNCHANGED <<connected, connects, answers, imports, pings, pongs, unheard>>

(* buildCheck() once its import has resolved, or has failed *)
BuildCheck(n) ==
  /\ n \in imports /\ imports' = imports \ {n}
  /\ \/ /\ n \in cancelled
        /\ UNCHANGED <<entry, check, unheard>>
     \/ /\ n \notin cancelled
        /\ entry' = [kind |-> "check", id |-> n]
        /\ check' = [check EXCEPT ![n].interval = TRUE]
        /\ unheard' = 0
  /\ UNCHANGED <<connected, connects, answers, cancelled, pings, pongs, torn>>

ImportFails(n) ==
  /\ n \in imports /\ imports' = imports \ {n}
  /\ entry' = IF entry = [kind |-> "reservation", id |-> n] THEN None ELSE entry
  /\ UNCHANGED <<connected, connects, answers, cancelled, check, pings, pongs, unheard, torn>>

-----------------------------------------------------------------------------
(* The health check *)

(* #onPongTimeout() *)
Missed(c) ==
  [c EXCEPT !.waiting = FALSE, !.timer = FALSE,
            !.missed = IF @ < MaxMissed THEN @ + 1 ELSE @,
            !.status = IF c.missed + 1 >= MaxMissed THEN "unhealthy" ELSE "degraded"]

(* #sendPing(), from the interval: an answer that is still out counts as    *)
(* missed.                                                                  *)
SendPing(n) ==
  /\ check[n].interval
  /\ check' = [check EXCEPT ![n] =
       [(IF @.waiting THEN Missed(@) ELSE @) EXCEPT !.waiting = TRUE, !.timer = TRUE]]
  /\ pings' = IF pings < MaxUnderWay THEN pings + 1 ELSE pings
  /\ unheard' = IF unheard < MaxMissed THEN unheard + 1 ELSE unheard
  /\ UNCHANGED <<connected, connects, answers, entry, imports, cancelled, pongs, torn>>

PongTimeout(n) ==
  /\ check[n].timer
  /\ check' = [check EXCEPT ![n] = Missed(@)]
  /\ UNCHANGED <<connected, connects, answers, entry, imports, cancelled, pings, pongs, unheard, torn>>

(* A pong arrives: recordPong() of the check, if one is installed. *)
Pong ==
  /\ pongs > 0 /\ pongs' = pongs - 1
  /\ IF torn \/ entry.kind # "check" THEN UNCHANGED <<check, unheard>>
     ELSE /\ check' = [check EXCEPT ![entry.id].missed = 0, ![entry.id].waiting = FALSE,
                                    ![entry.id].timer = FALSE, ![entry.id].status = "healthy"]
          /\ unheard' = 0
  /\ UNCHANGED <<connected, connects, answers, entry, imports, cancelled, pings, torn>>

-----------------------------------------------------------------------------
(* The peer and the network *)

Answer ==
  /\ answers /\ pings > 0 /\ pings' = pings - 1
  /\ pongs' = IF pongs < MaxUnderWay THEN pongs + 1 ELSE pongs
  /\ UNCHANGED <<connected, connects, answers, entry, imports, cancelled, check, unheard, torn>>

Lose ==
  /\ \/ pings > 0 /\ pings' = pings - 1 /\ UNCHANGED pongs
     \/ pongs > 0 /\ pongs' = pongs - 1 /\ UNCHANGED pings
  /\ UNCHANGED <<connected, connects, answers, entry, imports, cancelled, check, unheard, torn>>

FallSilent ==
  /\ answers /\ answers' = FALSE
  /\ UNCHANGED <<connected, connects, entry, imports, cancelled, check, pings, pongs, unheard, torn>>

Timers == \E n \in Ids : SendPing(n) \/ PongTimeout(n)

Imports == \E n \in Ids : BuildCheck(n) \/ ImportFails(n)

Next ==
  \/ PeerConnect \/ PeerDisconnect \/ Teardown \/ Imports \/ Timers
  \/ Pong \/ Answer \/ Lose \/ FallSilent

-----------------------------------------------------------------------------
(* At most one health check has timers, the one in `checks', and only while *)
(* the peer is connected and the service attached, although connections     *)
(* come and go while imports are under way.  A verdict has its cause: as    *)
(* many pings in a row without an answer.                                   *)
ChecksAreTracked ==
  /\ \A n \in Ids : check[n].interval \/ check[n].timer =>
       entry = [kind |-> "check", id |-> n] /\ connected /\ ~ torn
  /\ entry.kind = "check" =>
       LET c == check[entry.id] IN
       /\ c.interval
       /\ c.status = "unhealthy" => unheard >= MaxMissed
       /\ c.status = "degraded" => unheard > 0

(* A peer that falls silent while its check runs is found unhealthy, unless *)
(* it is disconnected or the service is torn down.                          *)
SilenceIsNoticed ==
  [](~ answers /\ entry.kind = "check"
     => <>(entry.kind # "check" \/ check[entry.id].status = "unhealthy"))
==============================================================================
