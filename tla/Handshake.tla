------------------------------- MODULE Handshake -------------------------------
(***************************************************************************)
(* Two pods that connect to each other with HandshakeCoordinator of        *)
(* browsermesh-core (handshake.mjs) over WebRTCTransport of                *)
(* browsermesh-transport (websocket.mjs).  The pod whose id sorts lower    *)
(* makes the offers; the other one accepts them, and its own calls wait    *)
(* for that.  Offers are numbered, and so are the transports at both ends. *)
(* Signalling loses and delays messages.  WebRTC is external: two peer     *)
(* connections open when each has the other's description.                 *)
(***************************************************************************)
EXTENDS Naturals, FiniteSets

CONSTANTS
  MaxOffers,    \* bound: transports of the offering pod
  MaxWaits      \* bound: calls of the other pod that wait

VARIABLES
  offer,       \* offer[i]: transport i of the offering pod
  call,        \* call[i]: the promise of connectToPeer() that made it
  accept,      \* accept[i]: the transport with which the other pod answered
  entry,       \* the #peerConnections of the two: the number of the transport, or 0
  waiters, waits,          \* #glareWaiters of the accepting pod; calls so far
  offers, answers,         \* under way
  hasOnClose               \* fixed: whether the factory's transports have onClose(); this one has not

vars == <<offer, call, accept, entry, waiters, waits, offers, answers, hasOnClose>>

Offer == 1..MaxOffers
Live == {"connecting", "open"}

(* An offering transport waits for an answer ("offering"), has applied the  *)
(* one to offer `answer' ("connecting"), is open or closed.                 *)
Init ==
  /\ offer = [i \in Offer |-> [phase |-> "none", answer |-> 0]]
  /\ call = [i \in Offer |-> "none"]
  /\ accept = [i \in Offer |-> "none"]
  /\ entry = [offering |-> 0, accepting |-> 0]
  /\ waiters = 0 /\ waits = 0
  /\ offers = {} /\ answers = {}
  /\ hasOnClose \in BOOLEAN

-----------------------------------------------------------------------------
(* connectToPeer() of the offering pod, unless a negotiation is in the map:  *)
(* negotiate() and connect() of the transport up to its wait for the answer. *)
ConnectOffering(i) ==
  /\ entry.offering = 0
  /\ offer[i].phase = "none" /\ \A k \in 1..(i-1) : offer[k].phase # "none"
  /\ offer' = [offer EXCEPT ![i].phase = "offering"]
  /\ call' = [call EXCEPT ![i] = "pending"]
  /\ entry' = [entry EXCEPT !.offering = i]
  /\ offers' = offers \cup {i}
  /\ UNCHANGED <<accept, waiters, waits, answers, hasOnClose>>

(* connectToPeer() of the other pod: #waitForPeerConnection() *)
ConnectAccepting ==
  /\ entry.accepting = 0 /\ waits < MaxWaits
  /\ waiters' = waiters + 1 /\ waits' = waits + 1
  /\ UNCHANGED <<offer, call, accept, entry, offers, answers, hasOnClose>>

WaiterTimeout ==
  /\ waiters > 0 /\ waiters' = waiters - 1
  /\ UNCHANGED <<offer, call, accept, entry, waits, offers, answers, hasOnClose>>

(* The promise of transport i is forgotten if it is the one in the map. *)
Forget(side, i) == IF entry[side] = i THEN [entry EXCEPT ![side] = 0] ELSE entry

(* acceptConnection(): an offer that meets a negotiation is ignored, and    *)
(* otherwise answered, unless WebRTC refuses it.                            *)
AcceptConnectionAlways(i) ==
  /\ i \in offers /\ offers' = offers \ {i}
  /\ accept' = [accept EXCEPT ![i] = "connecting"]
  /\ entry' = [entry EXCEPT !.accepting = i]
  /\ answers' = answers \cup {i}
  /\ UNCHANGED <<offer, call, waiters, waits, hasOnClose>>

AcceptConnection(i) ==
  /\ i \in offers /\ offers' = offers \ {i}
  /\ \/ entry.accepting # 0 /\ UNCHANGED <<accept, entry, answers, waiters>>
     \/ /\ entry.accepting = 0
        /\ accept' = [accept EXCEPT ![i] = "connecting"]
        /\ entry' = [entry EXCEPT !.accepting = i]
        /\ answers' = answers \cup {i}
        /\ UNCHANGED waiters
     \/ /\ entry.accepting = 0
        /\ waiters' = 0
        /\ UNCHANGED <<accept, entry, answers>>
  /\ UNCHANGED <<offer, call, waits, hasOnClose>>

(* onAnswer: every transport that waits for an answer takes this one, also  *)
(* one whose call has timed out; WebRTC may refuse the answer to another    *)
(* offer, and then the call fails.                                          *)
OnAnswer(i) ==
  /\ i \in answers /\ answers' = answers \ {i}
  /\ LET takers == {j \in Offer : offer[j].phase = "offering"}
     IN \E refusing \in SUBSET (takers \ {i}) :
          /\ offer' = [j \in Offer |->
               CASE j \in refusing -> [phase |-> "closed", answer |-> 0]
                 [] j \in takers \ refusing -> [phase |-> "connecting", answer |-> i]
                 [] OTHER -> offer[j]]
          /\ call' = [j \in Offer |-> IF j \in refusing THEN "rejected" ELSE call[j]]
          /\ entry' = IF entry.offering \in refusing THEN [entry EXCEPT !.offering = 0] ELSE entry
  /\ UNCHANGED <<accept, waiters, waits, offers, hasOnClose>>

(* `WebRTC answer timeout': the call fails, the transport goes on. *)
AnswerTimeout(i) ==
  /\ offer[i].phase = "offering" /\ call[i] = "pending"
  /\ call' = [call EXCEPT ![i] = "rejected"]
  /\ entry' = Forget("offering", i)
  /\ UNCHANGED <<offer, accept, waiters, waits, offers, answers, hasOnClose>>

Lose ==
  /\ \/ \E i \in offers : offers' = offers \ {i} /\ UNCHANGED answers
     \/ \E i \in answers : answers' = answers \ {i} /\ UNCHANGED offers
  /\ UNCHANGED <<offer, call, accept, entry, waiters, waits, hasOnClose>>

-----------------------------------------------------------------------------
Paired(i) == offer[i].phase \in Live /\ offer[i].answer = i /\ accept[i] \in Live

(* The data channel opens at either end, and the promise resolves. *)
OpenOffering(i) ==
  /\ Paired(i) /\ offer[i].phase = "connecting"
  /\ offer' = [offer EXCEPT ![i].phase = "open"]
  /\ call' = [call EXCEPT ![i] = IF @ = "pending" THEN "ok" ELSE @]
  /\ UNCHANGED <<accept, entry, waiters, waits, offers, answers, hasOnClose>>

OpenAccepting(i) ==
  /\ Paired(i) /\ accept[i] = "connecting"
  /\ accept' = [accept EXCEPT ![i] = "open"]
  /\ waiters' = 0
  /\ UNCHANGED <<offer, call, entry, waits, offers, answers, hasOnClose>>

(* A transport is closed, or its peer connection fails.  If its call had    *)
(* resolved and there is onClose(), the pod forgets it; if not, the promise *)
(* stays in the map.                                                        *)
CloseOffering(i) ==
  /\ offer[i].phase \in Live
  /\ offer' = [offer EXCEPT ![i].phase = "closed"]
  /\ entry' = IF call[i] = "ok" /\ hasOnClose THEN Forget("offering", i) ELSE entry
  /\ UNCHANGED <<call, accept, waiters, waits, offers, answers, hasOnClose>>

CloseAccepting(i) ==
  /\ accept[i] \in Live
  /\ accept' = [accept EXCEPT ![i] = "closed"]
  /\ entry' = IF accept[i] = "open" /\ hasOnClose THEN Forget("accepting", i) ELSE entry
  /\ UNCHANGED <<offer, call, waiters, waits, offers, answers, hasOnClose>>

Next ==
  \/ ConnectAccepting \/ WaiterTimeout \/ Lose
  \/ \E i \in Offer : \/ ConnectOffering(i) \/ AcceptConnection(i) \/ OnAnswer(i) \/ AnswerTimeout(i)
                      \/ OpenOffering(i) \/ OpenAccepting(i) \/ CloseOffering(i) \/ CloseAccepting(i)

-----------------------------------------------------------------------------
(* Two pods that call each other at the same time, give up and call again   *)
(* end up with one session: what either side holds for established is one   *)
(* transport, and the two are the ends of one connection, whatever late     *)
(* answers reach the transports of calls that were given up.                *)
SessionsMatch ==
  LET mine == {i \in Offer : call[i] = "ok" /\ offer[i].phase = "open"}
      theirs == {i \in Offer : accept[i] = "open"}
  IN /\ Cardinality(mine) <= 1 /\ Cardinality(theirs) <= 1
     /\ \A i \in mine, j \in theirs : i = j
==============================================================================
