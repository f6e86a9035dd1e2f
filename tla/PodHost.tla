-------------------------------- MODULE PodHost --------------------------------
(***************************************************************************)
(* Hosts of pods.  Init and Next: the driver that owns the life cycle of   *)
(* the pods of one name (pod/host-protocol.mjs, InMemoryPodHostDriver),    *)
(* the service that gates the verbs of remote clients and forwards the     *)
(* driver's exit events to those interested, and their clients             *)
(* (apps/pod-host-service.mjs).  Verbs that change nothing (status, send,  *)
(* list, describe) are left out.                                           *)
(*                                                                         *)
(* PageInit and PageNext: the driver of a page that spawns pods in frames, *)
(* windows or workers of its own, createInPageDriver() of                  *)
(* pod/browser-host-driver.mjs and bootHostedPod() of                      *)
(* browser-host-child.mjs.  A child announces itself by name on a shared   *)
(* channel when it has booted; spawn() waits for that with a timer.        *)
(* Announcements are late, and a name is used again once its pod is gone.  *)
(***************************************************************************)
EXTENDS Naturals, Sequences, FiniteSets

CONSTANTS MaxCalls,   \* bound: calls of the clients
          MaxSpawns,  \* bound: records the driver makes
          Names, None,
          MaxPageSpawns   \* bound: spawns of the page per name

VARIABLES
  rec,         \* the driver's records in order, by state; the last is the one in the map
  granted,     \* does the registry grant the verbs?
  calls,       \* call -> [verb, at, rec]; at follows the call through service and driver
  outcome,     \* call -> "pending", "ok", "error", "timeout"
  interested,  \* calls whose callers wait for the pod's events
  heard,       \* call -> the records whose exit its caller heard of
  \* the page
  record,      \* per name: the entry of `pods`: state, handle, the pod that announced itself
  spawns,      \* spawns per name; child n of a name is the one of its nth spawn
  alive,       \* the browsing contexts that exist: <<name, n>>
  announced,   \* the children whose pod has booted
  channel,     \* announcements under way: <<name, n>>
  waiting,     \* spawn() calls that wait: <<name, n>>
  ended        \* <<name, n>> -> what spawn() returned

vars == <<rec, granted, calls, outcome, interested, heard>>
pageVars == <<record, spawns, alive, announced, channel, waiting, ended>>

Verbs == {"spawn", "exec", "snapshot", "restore", "drain"}
Ids == 1..Len(calls)

Init == /\ rec = <<>> /\ granted = TRUE /\ calls = <<>> /\ outcome = <<>>
        /\ interested = {} /\ heard = <<>>

CanTransition(from, to) ==
  to \in (CASE from = "cold" -> {"booting"}
            [] from = "booting" -> {"registered"}
            [] from = "registered" -> {"serving", "paused", "draining"}
            [] from = "serving" -> {"registered", "draining"}
            [] from = "paused" -> {"snapshotted", "registered", "draining"}
            [] from = "snapshotted" -> {"restoring"}
            [] from = "restoring" -> {"registered"}
            [] from = "draining" -> {"cold"}
            [] from = "gone" -> {})
         \cup (IF from = "gone" THEN {} ELSE {"gone"})

Cur == Len(rec)
Live == Cur > 0 /\ rec[Cur] # "gone"
SetRec(r, s) == rec' = [rec EXCEPT ![r] = s]

(* forwardDriverEvent() of an EXIT: the interest ends with the pod. *)
ForwardExit ==
  /\ heard' = [c \in Ids |-> IF c \in interested THEN heard[c] \cup {Cur} ELSE heard[c]]
  /\ interested' = {}
NoExit == UNCHANGED <<heard, interested>>

-----------------------------------------------------------------------------
(* A client calls; the request travels.  A call has its own caller. *)
Call(v) ==
  /\ Len(calls) < MaxCalls /\ (v = "spawn" \/ calls # <<>>)   \* the first call is a spawn
  /\ calls' = Append(calls, [verb |-> v, at |-> "sent", rec |-> 0])
  /\ outcome' = Append(outcome, "pending")
  /\ heard' = Append(heard, {})
  /\ UNCHANGED <<rec, granted, interested>>

At(c, from, to) == calls[c].at = from /\ calls' = [calls EXCEPT ![c].at = to]

(* gatedDispatch(): an ungranted verb is refused; the others note the       *)
(* caller's interest, and a spawn waits for its audit record.               *)
Gate(c) ==
  /\ \/ ~ granted /\ At(c, "sent", "error") /\ UNCHANGED interested
     \/ granted /\ At(c, "sent", "dispatch") /\ interested' = interested \cup {c}
  /\ UNCHANGED <<rec, granted, outcome, heard>>

Fails(c) == At(c, "dispatch", "error") /\ UNCHANGED rec /\ NoExit

SpawnFree == ~ Live
Spawn(c) ==
  IF SpawnFree
  THEN /\ Len(rec) < MaxSpawns
       /\ calls' = [calls EXCEPT ![c].at = "ok", ![c].rec = Cur + 1]
       /\ rec' = Append(rec, "registered") /\ NoExit
  ELSE Fails(c)

(* exec() up to its await: the call keeps the record it started on. *)
ExecStarts(c) ==
  IF Live /\ CanTransition(rec[Cur], "serving")
  THEN /\ calls[c].at = "dispatch"
       /\ calls' = [calls EXCEPT ![c].at = "running", ![c].rec = Cur]
       /\ SetRec(Cur, "serving") /\ NoExit
  ELSE Fails(c)

Snapshot(c) ==
  IF Cur > 0 /\ rec[Cur] \in {"registered", "paused"}
  THEN At(c, "dispatch", "ok") /\ SetRec(Cur, "snapshotted") /\ NoExit
  ELSE Fails(c)

Restore(c) ==
  IF Cur > 0 /\ CanTransition(rec[Cur], "restoring")
  THEN At(c, "dispatch", "ok") /\ SetRec(Cur, "registered") /\ NoExit
  ELSE Fails(c)

(* A drain of a pod that is gone announces its exit once more. *)
Drain(c) ==
  IF Cur > 0 /\ (rec[Cur] = "gone" \/ CanTransition(rec[Cur], "draining"))
  THEN At(c, "dispatch", "ok") /\ SetRec(Cur, "gone") /\ ForwardExit
  ELSE Fails(c)

Dispatch(c) ==
  /\ calls[c].at = "dispatch"
  /\ CASE calls[c].verb = "spawn" -> Spawn(c)
       [] calls[c].verb = "exec" -> ExecStarts(c)
       [] calls[c].verb = "snapshot" -> Snapshot(c)
       [] calls[c].verb = "restore" -> Restore(c)
       [] calls[c].verb = "drain" -> Drain(c)
  /\ UNCHANGED <<granted, outcome>>

(* The finally of exec(): back to registered, unless the record has moved   *)
(* on, which turns the call into an error.                                  *)
ExecEnds(c) ==
  /\ calls[c].at = "running"
  /\ LET r == calls[c].rec IN
       \/ CanTransition(rec[r], "registered") /\ SetRec(r, "registered") /\ At(c, "running", "ok")
       \/ ~ CanTransition(rec[r], "registered") /\ UNCHANGED rec /\ At(c, "running", "error")
  /\ UNCHANGED <<granted, outcome, interested, heard>>

Crash ==
  /\ Live /\ SetRec(Cur, "gone") /\ ForwardExit
  /\ UNCHANGED <<granted, calls, outcome>>

-----------------------------------------------------------------------------
RespondAnyway(c) ==
  /\ calls[c].at \in {"ok", "error"}
  /\ calls' = [calls EXCEPT ![c].at = "answered"]
  /\ outcome' = [outcome EXCEPT ![c] = calls[c].at]
  /\ UNCHANGED <<rec, granted, interested, heard>>

(* The response reaches the client; one that the network loses or delays is *)
(* overtaken by the timeout, and finds no pending entry.                    *)
Respond(c) ==
  /\ calls[c].at \in {"ok", "error"}
  /\ calls' = [calls EXCEPT ![c].at = "answered"]
  /\ outcome' = [outcome EXCEPT ![c] = IF @ = "pending" THEN calls[c].at ELSE @]
  /\ UNCHANGED <<rec, granted, interested, heard>>

Timeout(c) ==
  /\ outcome[c] = "pending"
  /\ outcome' = [outcome EXCEPT ![c] = "timeout"]
  /\ UNCHANGED <<rec, granted, calls, interested, heard>>

Revoke == granted /\ granted' = FALSE /\ UNCHANGED <<rec, calls, outcome, interested, heard>>

Next == \/ \E v \in Verbs : Call(v)
        \/ \E c \in Ids : Gate(c) \/ Dispatch(c) \/ ExecEnds(c) \/ Respond(c) \/ Timeout(c)
        \/ Crash \/ Revoke

-----------------------------------------------------------------------------
(* A name has one pod: an incarnation ends before its successor starts, and *)
(* the exec that outlives its pod neither revives it nor touches the        *)
(* successor.                                                               *)
OnePodPerName == \A r \in 1..Len(rec) : r # Cur => rec[r] = "gone"

(* A call has one outcome, whichever of answer and timeout comes first, and *)
(* a pod that is gone stays gone.                                           *)
EndsAreFinal ==
  /\ \A c \in Ids : outcome[c] # "pending" => outcome'[c] = outcome[c]
  /\ \A r \in 1..Cur : rec[r] = "gone" => rec'[r] = "gone"

-----------------------------------------------------------------------------
(* The page. *)
Child == Names \X (1..MaxPageSpawns)
PageRec(state, handle, pod) == [state |-> state, handle |-> handle, pod |-> pod]

PageInit ==
  /\ record = [x \in Names |-> PageRec("none", 0, 0)]
  /\ spawns = [x \in Names |-> 0]
  /\ alive = {} /\ announced = {} /\ channel = {} /\ waiting = {}
  /\ ended = [c \in Child |-> None]
-----------------------------------------------------------------------------
CanSpawn(x) == spawns[x] < MaxPageSpawns /\ record[x].state \in {"none", "gone"}

PageSpawn(x) ==
  LET n == spawns[x] + 1 IN
  /\ CanSpawn(x)
  /\ spawns' = [spawns EXCEPT ![x] = n]
  /\ record' = [record EXCEPT ![x] = PageRec("booting", n, 0)]
  /\ alive' = alive \cup {<<x, n>>}
  /\ waiting' = waiting \cup {<<x, n>>}
  /\ UNCHANGED <<announced, channel, ended>>

(* createChild() throws: a blocked popup, for instance.                     *)
SpawnFails(x) ==
  LET n == spawns[x] + 1 IN
  /\ CanSpawn(x)
  /\ spawns' = [spawns EXCEPT ![x] = n]
  /\ record' = [record EXCEPT ![x] = PageRec("gone", 0, 0)]
  /\ ended' = [ended EXCEPT ![<<x, n>>] = "failed"]
  /\ UNCHANGED <<alive, announced, channel, waiting>>

(* bootHostedPod() has booted the child's pod. *)
Announce(c) ==
  /\ c \in alive \ announced
  /\ announced' = announced \cup {c} /\ channel' = channel \cup {c}
  /\ UNCHANGED <<record, spawns, alive, waiting, ended>>

(* handleIncoming(): the announcement goes to the record of that name,      *)
(* whichever child sent it.                                                 *)
HandleIncoming(c) ==
  LET r == record[c[1]]
      mine == {w \in waiting : w[1] = c[1] /\ w[2] = spawns[c[1]]}
  IN
  /\ c \in channel /\ channel' = channel \ {c}
  /\ IF r.state \in {"none", "gone"} THEN UNCHANGED <<record, waiting, ended>>
     ELSE /\ record' = [record EXCEPT ![c[1]] = PageRec("registered", r.handle, c[2])]
          /\ waiting' = waiting \ mine
          /\ ended' = [w \in Child |-> IF w \in mine THEN "ok" ELSE ended[w]]
  /\ UNCHANGED <<spawns, alive, announced>>

WaitTimeout(c) ==
  /\ c \in waiting
  /\ waiting' = waiting \ {c}
  /\ ended' = [ended EXCEPT ![c] = "timeout"]
  /\ UNCHANGED <<record, spawns, alive, announced, channel>>

(* drain(): destroys the child; a pod that is booting cannot be drained.    *)
PageDrain(x) ==
  /\ record[x].state = "registered"
  /\ record' = [record EXCEPT ![x] = PageRec("gone", 0, record[x].pod)]
  /\ alive' = alive \ {<<x, record[x].handle>>}
  /\ UNCHANGED <<spawns, announced, channel, waiting, ended>>

PageNext ==
  \/ \E x \in Names : PageSpawn(x) \/ SpawnFails(x) \/ PageDrain(x)
  \/ \E c \in Child : Announce(c) \/ HandleIncoming(c) \/ WaitTimeout(c)

(* A host and a page have nothing to do with each other. *)
Spec == Init /\ [][Next]_vars /\ PageInit /\ [][PageNext]_pageVars

-----------------------------------------------------------------------------
(* Whatever timed out or was announced late: each browsing context is the   *)
(* one its name's record holds, so there is one per name and drain() can    *)
(* reach it; a pod that is gone has none; and spawn() reports success only  *)
(* of a pod of that name that announced itself, and that runs unless it was *)
(* drained.                                                                 *)
ChildrenAreHeld ==
  /\ \A c \in alive : record[c[1]].handle = c[2]
  /\ \A x \in Names : record[x].handle # 0 =>
       <<x, record[x].handle>> \in alive /\ record[x].state \in {"booting", "registered"}
  /\ \A c \in Child : ended[c] = "ok" /\ c[2] = spawns[c[1]] =>
       record[c[1]].pod # 0 /\ (c \in alive \/ record[c[1]].state = "gone")
================================================================================
