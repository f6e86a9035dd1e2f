-------------------------------- MODULE Failover --------------------------------
(***************************************************************************)
(* How a node gets a transport to one peer: the hardened negotiator of     *)
(* apps/mesh-hardening.mjs, which connects or fails over with the          *)
(* TransportFailover of core/hardening.mjs, which tries through a          *)
(* RetryWithBackoff.  Calls overlap at every await: the negotiation of an  *)
(* attempt and the delay before the next.  Which of the allowed endpoints  *)
(* answers is a choice.  reset() and resetFailedTypes(), which nothing     *)
(* calls, are left out.                                                    *)
(***************************************************************************)
EXTENDS Naturals, Sequences

CONSTANTS
  Types,        \* of transports; the peer has an endpoint of each
  MaxRetries,   \* attempts of a call, failures that open the circuit
  MaxCalls      \* bound: calls altogether

VARIABLES
  circuit, failures,   \* RetryWithBackoff: #circuitState, #failureCount
  cooled,              \* resetTimeoutMs have passed since #lastFailureTime
  active,              \* #activeTransport, as an index of transports; 0: null
  failedTypes, failingOver,
  calls,               \* connect() and failover() calls: [kind, pc, left, allowed]
  transports,          \* all that were negotiated: [type, open]
  overlapped           \* some call has begun while another was in progress

vars == <<circuit, failures, cooled, active, failedTypes, failingOver, calls, transports, overlapped>>

Init ==
  /\ circuit = "closed" /\ failures = 0 /\ cooled = FALSE
  /\ active = 0 /\ failedTypes = {} /\ failingOver = FALSE
  /\ calls = <<>> /\ transports = <<>> /\ overlapped = FALSE

InProgress(i) == calls[i].pc \in {"negotiating", "sleeping"}
Busy == \E i \in DOMAIN calls : InProgress(i)

-----------------------------------------------------------------------------
(* execute(): an open circuit refuses until it has cooled down, and then    *)
(* half opens for one attempt.                                              *)
Admits == circuit # "open" \/ cooled
Attempts == IF circuit = "closed" THEN MaxRetries ELSE 1

Call(kind, pc, allowed) ==
  calls' = Append(calls, [kind |-> kind, pc |-> pc, left |-> Attempts - 1, allowed |-> allowed])

Execute(kind, allowed) ==
  /\ Admits
  /\ circuit' = (IF circuit = "open" THEN "half-open" ELSE circuit)
  /\ failingOver' = (failingOver \/ kind = "failover")
  /\ Call(kind, "negotiating", allowed)
  /\ overlapped' = (overlapped \/ Busy)

Refused(kind) == Call(kind, "error", {}) /\ UNCHANGED <<circuit, failingOver, overlapped>>

Connect ==
  /\ \/ Execute("connect", Types)
     \/ ~ Admits /\ Refused("connect")
  /\ UNCHANGED <<failures, cooled, active, failedTypes, transports>>

(* failover(): the type of the active transport counts as failed for good, *)
(* and the transport is closed, also when nothing is left to fail over to.  *)
NotFailingOver == ~ failingOver
FailedNow == IF active = 0 THEN failedTypes ELSE failedTypes \cup {transports[active].type}
CloseActive ==
  /\ active' = 0
  /\ transports' = [n \in DOMAIN transports |-> [transports[n] EXCEPT !.open = @ /\ n # active]]

StartFailover ==
  /\ NotFailingOver
  /\ failedTypes' = FailedNow /\ CloseActive
  /\ LET allowed == Types \ FailedNow IN
       \/ allowed # {} /\ Execute("failover", allowed)
       \/ (allowed = {} \/ ~ Admits) /\ Refused("failover")
  /\ UNCHANGED <<failures, cooled>>

(* negotiate() of the hardened negotiator. *)
Negotiate ==
  /\ Len(calls) < MaxCalls
  /\ \/ active = 0 /\ Connect
     \/ active # 0 /\ StartFailover
     \/ /\ active # 0 /\ failingOver
        /\ Refused("failover")
        /\ UNCHANGED <<failures, cooled, active, failedTypes, transports>>

(* triggerFailover() of the keep-alive: a peer is unhealthy. *)
TriggerFailover == Len(calls) < MaxCalls /\ ~ failingOver /\ StartFailover

-----------------------------------------------------------------------------
(* The end of a call, in the finally of failover() too. *)
Ends(i, pc) ==
  /\ calls' = [calls EXCEPT ![i].pc = pc]
  /\ failingOver' = (failingOver /\ calls[i].kind # "failover")

Succeeds(i, t) ==
  /\ calls[i].pc = "negotiating" /\ t \in calls[i].allowed
  /\ failures' = 0 /\ circuit' = (IF circuit = "half-open" THEN "closed" ELSE circuit)
  /\ transports' = Append(transports, [type |-> t, open |-> TRUE])
  /\ active' = Len(transports) + 1
  /\ Ends(i, "ok")
  /\ UNCHANGED <<cooled, failedTypes, overlapped>>

Fails(i) ==
  /\ calls[i].pc = "negotiating"
  /\ failures' = failures + 1 /\ cooled' = FALSE
  /\ \/ /\ calls[i].left > 0
        /\ calls' = [calls EXCEPT ![i].pc = "sleeping", ![i].left = @ - 1]
        /\ UNCHANGED <<circuit, failingOver>>
     \/ /\ calls[i].left = 0
        /\ circuit' = (IF failures + 1 >= MaxRetries THEN "open" ELSE circuit)
        /\ Ends(i, "error")
  /\ UNCHANGED <<active, failedTypes, transports, overlapped>>

Wakes(i) ==
  /\ calls[i].pc = "sleeping"
  /\ calls' = [calls EXCEPT ![i].pc = "negotiating"]
  /\ UNCHANGED <<circuit, failures, cooled, active, failedTypes, failingOver, transports, overlapped>>

Cool ==
  /\ circuit = "open" /\ ~ cooled
  /\ cooled' = TRUE
  /\ UNCHANGED <<circuit, failures, active, failedTypes, failingOver, calls, transports, overlapped>>

Next ==
  \/ Negotiate \/ TriggerFailover \/ Cool
  \/ \E i \in DOMAIN calls : Fails(i) \/ Wakes(i) \/ \E t \in Types : Succeeds(i, t)

-----------------------------------------------------------------------------
(* The active transport is open, and, as long as no two calls overlapped,   *)
(* it is the only one that is: none is forgotten without being closed,      *)
(* whatever attempts fail or are refused.                                   *)
NoneForgotten ==
  /\ active # 0 => transports[active].open
  /\ ~ overlapped => \A n \in DOMAIN transports : transports[n].open => n = active

(* "Failover already in progress" is said while, and only while, one is; so *)
(* no way out of failover() locks the next one out.                         *)
FlagIsTrue ==
  /\ failingOver <=> \E i \in DOMAIN calls : InProgress(i) /\ calls[i].kind = "failover"
  /\ \A i, j \in DOMAIN calls :
       InProgress(i) /\ InProgress(j) /\ calls[i].kind = "failover" /\ calls[j].kind = "failover" => i = j

(* A circuit that is not closed has seen MaxRetries failures with no        *)
(* success between, unless calls overlapped.                                *)
OpenedForCause == circuit # "closed" /\ ~ overlapped => failures >= MaxRetries

FailoverIsSound == NoneForgotten /\ FlagIsTrue /\ OpenedForCause
==============================================================================
