----------------------------- MODULE SwarmService -----------------------------
(***************************************************************************)
(* The swarm of one pod as createSwarmService() of browsermesh-apps        *)
(* (mesh-swarm.mjs) composes it: SWIM's table, whose callbacks drive the   *)
(* members and the election of SwarmCoordinator (swarm.mjs), which in turn *)
(* calls SWIM.  What other pods gossip arrives in any order.  Pods are     *)
(* numbered in the order of their ids.  Tasks, and swarms other than       *)
(* 'local', which SWIM knows nothing of, are left out.                     *)
(***************************************************************************)
EXTENDS Naturals, FiniteSetsExt

CONSTANTS
  Pods, Local,
  MaxIncarnation   \* bound

VARIABLES
  swim,          \* #members of SwimMembership, for the other pods
  members,       \* the distributor's members
  candidates,    \* the election's
  leader,        \* 0 for null
  leaveHandled,
  forced         \* history: pods added by join() although SWIM knows that they left

vars == <<swim, members, candidates, leader, leaveHandled, forced>>

Peers == Pods \ {Local}
State == {"alive", "suspect", "dead", "left"}
Priority == [alive |-> 0, suspect |-> 1, dead |-> 2, left |-> 3]
Entry(s, i) == [state |-> s, incarnation |-> i]
Unknown == Entry("unknown", 0)

Init ==
  /\ swim = [q \in Peers |-> Unknown]
  /\ members = {Local} /\ candidates = {Local}
  /\ leader = Local
  /\ leaveHandled = {}
  /\ forced = {}

-----------------------------------------------------------------------------
(* SWIM sets an entry, and no callback of the coordinator follows. *)
SetEntry(q, e) ==
  /\ swim' = [swim EXCEPT ![q] = e]
  /\ UNCHANGED <<members, candidates, leader, leaveHandled, forced>>

(* onJoin after SWIM set the entry: join() of the coordinator *)
OnJoin(q, e) ==
  /\ swim' = [swim EXCEPT ![q] = e]
  /\ leaveHandled' = leaveHandled \ {q}
  /\ members' = members \cup {q} /\ candidates' = candidates \cup {q}
  /\ forced' = forced \ {q}
  /\ UNCHANGED leader

(* leave() of the coordinator: the election forgets the pod, SWIM lists it  *)
(* as left if it knows it, the distributor forgets it.                      *)
CoordinatorLeave(q, e) ==
  /\ candidates' = candidates \ {q} /\ members' = members \ {q}
  /\ leader' = IF leader = q THEN 0 ELSE leader
  /\ swim' = [swim EXCEPT ![q] = IF e = Unknown THEN e ELSE Entry("left", e.incarnation)]
  /\ forced' = forced \ {q}

OnLeaveUnwired(q, e) == SetEntry(q, e)

(* onDead and onLeave after SWIM set the entry, and handleLeave():          *)
(* ensureCoordinatorLeave(), once until the pod joins again.                *)
OnLeave(q, e) ==
  \/ q \in leaveHandled /\ SetEntry(q, e)
  \/ q \notin leaveHandled /\ leaveHandled' = leaveHandled \cup {q} /\ CoordinatorLeave(q, e)

(* addMember() of SWIM: nothing for a pod it knows, whatever its state *)
AddMember(q) == swim[q] = Unknown /\ OnJoin(q, Entry("alive", 0))

-----------------------------------------------------------------------------
Newer(e, u) ==
  \/ e = Unknown /\ u.state \in {"alive", "suspect"}
  \/ e # Unknown /\ \/ u.incarnation > e.incarnation
                    \/ u.incarnation = e.incarnation /\ Priority[u.state] > Priority[e.state]

(* #processUpdate() of what a message carries, and #fireStateCallbacks() *)
ProcessUpdate(q, u) ==
  /\ Newer(swim[q], u)
  /\ \/ u.state \in {"suspect", swim[q].state} /\ SetEntry(q, u)
     \/ u.state = "alive" /\ swim[q].state # "alive" /\ OnJoin(q, u)
     \/ u.state = "dead" /\ swim[q].state # "dead" /\ OnLeave(q, u)
     \/ u.state = "left" /\ swim[q].state # "left" /\ OnLeave(q, u)

(* #onIndirectTimeout() and #onSuspectTimeout() *)
Suspect(q) == swim[q].state = "alive" /\ SetEntry(q, Entry("suspect", swim[q].incarnation))

SuspectTimeout(q) == swim[q].state = "suspect" /\ OnLeave(q, Entry("dead", swim[q].incarnation))

(* handleJoinRequest() of a pod that may join *)
HandleJoinRequest(q) == AddMember(q)

HandleLeave(q) == OnLeave(q, swim[q])

(* join() of the API *)
Join(q) ==
  \/ AddMember(q)
  \/ /\ swim[q] # Unknown
     /\ members' = members \cup {q} /\ candidates' = candidates \cup {q}
     /\ forced' = IF swim[q].state = "alive" THEN forced ELSE forced \cup {q}
     /\ UNCHANGED <<swim, leader, leaveHandled>>

(* leave() of the API: SWIM's onLeave, if the pod is known, comes back *)
Leave(q) ==
  /\ CoordinatorLeave(q, swim[q])
  /\ leaveHandled' = IF swim[q] = Unknown THEN leaveHandled ELSE leaveHandled \cup {q}

(* heartbeatTick(): elect() *)
HeartbeatTick ==
  /\ leader' = Min(candidates)
  /\ UNCHANGED <<swim, members, candidates, leaveHandled, forced>>

(* yieldLeadership(): the next candidate, or the first one *)
YieldLeadership ==
  LET higher == {q \in candidates : q > leader}
  IN /\ leader' = IF candidates = {Local} THEN 0
                  ELSE IF leader = 0 \/ higher = {} THEN Min(candidates) ELSE Min(higher)
     /\ UNCHANGED <<swim, members, candidates, leaveHandled, forced>>

Next ==
  \/ \E q \in Peers : \/ Suspect(q) \/ SuspectTimeout(q)
                      \/ HandleJoinRequest(q) \/ HandleLeave(q) \/ Join(q) \/ Leave(q)
                      \/ \E s \in State, i \in 0..MaxIncarnation : ProcessUpdate(q, Entry(s, i))
  \/ HeartbeatTick \/ YieldLeadership

-----------------------------------------------------------------------------
(* Through all the callbacks that lead from SWIM to the coordinator and     *)
(* back, the swarm is what SWIM believes: it holds every pod that SWIM      *)
(* knows to be alive and none that SWIM knows to be dead or gone, except    *)
(* one that the application put back; members and candidates are the same   *)
(* pods, and the leader is one of them.                                     *)
SwarmFollowsSwim ==
  /\ \A q \in Peers :
       /\ swim[q].state = "alive" => q \in members
       /\ q \in members \ forced => swim[q].state \in {"alive", "suspect"}
  /\ candidates = members
  /\ leader \in candidates \cup {0}
==============================================================================
