----------------------------- MODULE PodSupervisor -----------------------------
(***************************************************************************)
(* The supervisor of hosted pods (apps/pod-supervisor.mjs) and the hosts   *)
(* it works with, as far as it sees them (apps/pod-host-service.mjs):      *)
(* restarts with backoff and a budget, a gate on concurrent restarts,      *)
(* re-placement when a host refuses or is lost, and cascading drains.      *)
(*                                                                         *)
(* A call of the supervisor that awaits something is a task; its steps     *)
(* interleave with those of the others.  Audit records and monitors are    *)
(* left out; what the audit of a scheduled restart is awaited for shows as *)
(* the step SetTimer.                                                      *)
(***************************************************************************)
EXTENDS Naturals, Sequences, FiniteSets, SequencesExt

CONSTANTS Hosts, Pods,
  Home,          \* [Pods -> Hosts]: where a pod is first placed
  Specs,         \* functions from the pods that are supervised to their [policy, maxRestarts, parent]
  None,
  MaxConcurrent,
  MaxTasks, MaxEvents   \* bounds: concurrent calls; crashes, losses, refusals, drains, reconciles and pods together

VARIABLES
  entry,      \* pod -> [state, host, restarts, spec]; the entry outlives its place in pods
  listed,     \* pods that the map pods holds, each under <<entry.host, pod>>
  childrenOf, \* <<parent key, child key>> pairs
  parentOf,   \* <<child key, parent key>> pairs
  armed,      \* pod -> reasons of its backoff timers
  held,       \* pod -> is entry.backoffTimer set (to the last of armed)?
  tasks,      \* calls in progress
  active, restartQueue,
  up,         \* keys of the live pods of the hosts
  online,     \* hosts that are connected
  refusing,   \* hosts that answer spawn with EACCES or EBUSY
  exits,      \* onExit calls that will start: [key, reason, by]
  spawned,    \* pod -> spawns that a host carried out (history)
  events      \* crashes, losses, refusals, drains, reconciles so far

vars == <<entry, listed, childrenOf, parentOf, armed, held, tasks, active, restartQueue,
          up, online, refusing, exits, spawned, events>>

Keys == Hosts \X Pods
KeyOf(p) == <<entry[p].host, p>>
Idle == [op |-> "idle"]
Ids == 1..MaxTasks

Init ==
  /\ \E spec \in Specs :
       entry = [p \in DOMAIN spec |-> [state |-> "none", host |-> Home[p], restarts |-> 0, spec |-> spec[p]]]
  /\ listed = {} /\ childrenOf = {} /\ parentOf = {}
  /\ armed = [p \in Pods |-> <<>>] /\ held = [p \in Pods |-> FALSE]
  /\ tasks = [i \in Ids |-> Idle]
  /\ active = 0 /\ restartQueue = <<>>
  /\ up = {} /\ online = Hosts /\ refusing = {} /\ exits = {}
  /\ spawned = [p \in Pods |-> 0] /\ events = 0

Happens == events + Cardinality(DOMAIN entry) =< MaxEvents /\ events' = events + 1

maps == <<listed, childrenOf, parentOf>>
timers == <<armed, held>>
gate == <<active, restartQueue>>
world == <<online, refusing, exits, events>>

Free(i) == /\ tasks[i] = Idle
           /\ \A j \in Ids : j < i => tasks[j] # Idle
Goto(i, t) == tasks' = [tasks EXCEPT ![i] = t]
OutOfRestarts(p) == entry[p].restarts >= entry[p].spec.maxRestarts
SetState(p, s) == [entry EXCEPT ![p].state = s]

(* What a host does with spawn: the live pod of that name is in the way. *)
Spawns(h, p) == h \in online \ refusing /\ <<h, p>> \notin up
SpawnDone(h, p) == /\ up' = up \cup {<<h, p>>}
                   /\ spawned' = [spawned EXCEPT ![p] = @ + 1]

Link(pk, ck) == /\ childrenOf' = childrenOf \cup {<<pk, ck>>}
                /\ parentOf' = {l \in parentOf : l[1] # ck} \cup {<<ck, pk>>}

(* supervise(): the entry is made after the await of the spawn. *)
Supervise(i, p) ==
  /\ Free(i) /\ spawned[p] = 0    \* bound: once per pod
  /\ Spawns(Home[p], p) /\ SpawnDone(Home[p], p)
  /\ Goto(i, [op |-> "register", pod |-> p])
  /\ UNCHANGED <<entry, maps, timers, gate, world>>

Register(i) ==
  /\ tasks[i].op = "register"
  /\ LET p == tasks[i].pod IN
       /\ entry' = SetState(p, "running")
       /\ listed' = listed \cup {p}
       /\ IF entry[p].spec.parent = None THEN UNCHANGED <<childrenOf, parentOf>>
          ELSE Link(<<Home[p], entry[p].spec.parent>>, <<Home[p], p>>)
  /\ Goto(i, Idle)
  /\ UNCHANGED <<timers, gate, up, spawned, world>>

Unsupervise(p) ==
  /\ p \in listed /\ Happens
  /\ listed' = listed \ {p}
  \* entry.backoffTimer is cleared, and stays set
  /\ armed' = [armed EXCEPT ![p] = IF held[p] THEN Front(@) ELSE @]
  /\ held' = [held EXCEPT ![p] = FALSE]
  /\ UNCHANGED <<entry, childrenOf, parentOf, tasks, gate, up, online, refusing, exits, spawned>>

-----------------------------------------------------------------------------
(* The end of onExit() and scheduleRestart() until its await. *)
ScheduleRestart(i, p, reason) ==
  IF OutOfRestarts(p)
  THEN /\ entry' = SetState(p, "dead")
       /\ Goto(i, Idle)
  ELSE /\ entry' = [entry EXCEPT ![p].restarts = @ + 1, ![p].state = "restarting"]
       /\ Goto(i, [op |-> "schedule", pod |-> p, reason |-> reason])

FullNever == FALSE

Full == active >= MaxConcurrent
(* A backoff timer fires: entry.backoffTimer is set to null whichever of    *)
(* the entry's timers it was, and the restart starts or waits for its turn. *)
BackoffFires(i, p) ==
  /\ Free(i)
  /\ \E n \in 1..Len(armed[p]) :
       /\ armed' = [armed EXCEPT ![p] = RemoveAt(@, n)]
       /\ Goto(i, [op |-> IF Full THEN "wait" ELSE "spawn", pod |-> p, reason |-> armed[p][n],
                   host |-> entry[p].host])
  /\ held' = [held EXCEPT ![p] = FALSE]
  /\ IF Full THEN restartQueue' = Append(restartQueue, i) /\ UNCHANGED active
     ELSE active' = active + 1 /\ UNCHANGED restartQueue
  /\ UNCHANGED <<entry, maps, up, spawned, world>>

(* The finally of runRestart(): the next restart reads its host now. *)
Release(next) ==
  IF restartQueue = <<>> THEN active' = active - 1 /\ UNCHANGED restartQueue /\ tasks' = next
  ELSE LET j == Head(restartQueue) IN
         /\ restartQueue' = Tail(restartQueue) /\ UNCHANGED active
         /\ tasks' = [next EXCEPT ![j].op = "spawn", ![j].host = entry'[tasks[j].pod].host]

(* The end of scheduleRestart(); a restart that failed keeps its place at   *)
(* the gate until then.                                                     *)
SetTimer(i) ==
  /\ tasks[i].op \in {"schedule", "reschedule"}
  /\ LET p == tasks[i].pod IN
       /\ armed' = [armed EXCEPT ![p] = Append(@, tasks[i].reason)]
       /\ held' = [held EXCEPT ![p] = TRUE]
  /\ UNCHANGED <<entry, maps, up, spawned, world>>
  /\ IF tasks[i].op = "reschedule" THEN Release([tasks EXCEPT ![i] = Idle])
     ELSE Goto(i, Idle) /\ UNCHANGED gate

(* rekey(): the links under the old key move to the new one, except that    *)
(* the children of the pod still name the old key as their parent.          *)
Rekey(p, h) ==
  LET old == KeyOf(p)
      new == <<h, p>>
      over == {l[2] : l \in {m \in parentOf : m[1] = old}}
  IN /\ listed' = listed \cup {p}
     /\ childrenOf' = {<<IF l[1] = old THEN new ELSE l[1],
                         IF l[2] = old /\ l[1] \in over THEN new ELSE l[2]>> : l \in childrenOf}
     /\ parentOf' = {<<IF l[1] = old THEN new ELSE l[1], l[2]>> : l \in parentOf}

Restarted(i, p, h) ==
  /\ entry' = [entry EXCEPT ![p].state = "running", ![p].host = h]
  /\ IF h = entry[p].host THEN UNCHANGED maps ELSE Rekey(p, h)
  /\ Release([tasks EXCEPT ![i] = Idle])

RestartFailedForgets(i, p) ==
  /\ UNCHANGED maps
  /\ entry' = (IF OutOfRestarts(p) THEN SetState(p, "dead") ELSE entry)
  /\ Release([tasks EXCEPT ![i] = Idle])

RestartFailed(i, p) ==
  /\ UNCHANGED maps
  /\ IF OutOfRestarts(p)
     THEN entry' = SetState(p, "dead") /\ Release([tasks EXCEPT ![i] = Idle])
     ELSE /\ entry' = [entry EXCEPT ![p].restarts = @ + 1]
          /\ Goto(i, [op |-> "reschedule", pod |-> p, reason |-> "restart-failed"])
          /\ UNCHANGED gate

(* runRestart() on the host of the entry.  A refusal leads on to another    *)
(* host; an error of any other kind (EEXIST, or a host that is gone) fails  *)
(* the restart.                                                             *)
RestartInPlace(i) ==
  /\ tasks[i].op = "spawn"
  /\ LET p == tasks[i].pod
         h == tasks[i].host
     IN \/ /\ tasks[i].reason = "host-lost" \/ h \in online \cap refusing
           /\ Goto(i, [tasks[i] EXCEPT !.op = "place"])
           /\ UNCHANGED <<entry, maps, gate, up, spawned>>
        \/ /\ tasks[i].reason # "host-lost"
           /\ IF Spawns(h, p)
              THEN SpawnDone(h, p) /\ Goto(i, [tasks[i] EXCEPT !.op = "inplace"])
                   /\ UNCHANGED <<entry, maps, gate>>
              ELSE /\ h \notin online \cap refusing
                   /\ RestartFailed(i, p) /\ UNCHANGED <<up, spawned>>
  /\ UNCHANGED <<timers, world>>

(* choosePlacement() excludes the host that was tried: it may name another, *)
(* or none, which it does whenever the best one is the one excluded.        *)
RestartElsewhere(i) ==
  /\ tasks[i].op = "place"
  /\ LET p == tasks[i].pod
     IN \/ RestartFailed(i, p) /\ UNCHANGED <<up, spawned>>
        \/ \E h \in online \ {tasks[i].host} :
             IF Spawns(h, p)
             THEN /\ SpawnDone(h, p)
                  /\ Goto(i, [tasks[i] EXCEPT !.op = "placed", !.host = h])
                  /\ UNCHANGED <<entry, maps, gate>>
             ELSE RestartFailed(i, p) /\ UNCHANGED <<up, spawned>>
  /\ UNCHANGED <<timers, world>>

(* The answer of the host: without it the restart counts as failed.  In     *)
(* place only the state is set, wherever the entry is by now.               *)
SpawnAnswered(i) ==
  /\ tasks[i].op \in {"inplace", "placed"}
  /\ LET p == tasks[i].pod IN
       IF tasks[i].host \notin online THEN RestartFailed(i, p)
       ELSE IF tasks[i].op = "placed" THEN Restarted(i, p, tasks[i].host)
       ELSE /\ entry' = SetState(p, "running") /\ UNCHANGED maps
            /\ Release([tasks EXCEPT ![i] = Idle])
  /\ UNCHANGED <<timers, up, spawned, world>>

-----------------------------------------------------------------------------
PolicyWantsRestart(p, reason) ==
  CASE entry[p].spec.policy = "always" -> TRUE
    [] entry[p].spec.policy = "on-failure" -> reason \in {"crashed", "host-lost"}
    [] OTHER -> FALSE

Known(k) == k[2] \in listed /\ KeyOf(k[2]) = k

(* A child that drainChildren() leaves alone, with everything below it (a   *)
(* pod that is always restarted is taken to have detachOnParentExit set).   *)
Detached(k) == Known(k) /\ entry[k[2]].spec.policy = "always"

(* onExit() and drain() drain the children first, one at a time, each after *)
(* its own: calls holds the pod itself and then the descendants that are    *)
(* being drained, each with the children that drainChildren() read when it  *)
(* got there and with whether there was an entry.                           *)
Call(k) == [key |-> k, known |-> Known(k), todo |-> {l[2] : l \in {m \in childrenOf : m[1] = k}}]
Start(i, op, k, why) ==
  Free(i) /\ Goto(i, [op |-> op, reason |-> why, calls |-> <<Call(k)>>, draining |-> FALSE])

OnExit(i) ==
  \E e \in exits :
    /\ Start(i, "exit", e.key, e.reason)
    /\ exits' = exits \ {e}
    /\ UNCHANGED <<entry, maps, timers, gate, up, online, refusing, spawned, events>>

Drain(i, p) ==
  /\ p \in listed /\ Happens
  /\ Start(i, "drain", KeyOf(p), "drained")
  /\ UNCHANGED <<entry, maps, timers, gate, up, online, refusing, exits, spawned>>

Calls(i) == tasks[i].calls
Current(i) == Last(Calls(i))
Runs(i, op) == tasks[i].op \in op /\ ~ tasks[i].draining

NextChild(i) ==
  /\ Runs(i, {"exit", "drain"})
  /\ \E k \in Current(i).todo :
       LET rest == [Calls(i) EXCEPT ![Len(Calls(i))].todo = @ \ {k}] IN
       Goto(i, [tasks[i] EXCEPT !.calls = IF Detached(k) THEN rest ELSE Append(rest, Call(k))])
  /\ UNCHANGED <<entry, maps, timers, gate, up, spawned, world>>

(* The drain at the host where the pod is by now, after the timer of the    *)
(* entry is cleared; the host announces the exit.                           *)
DrainAtHost(k) ==
  IF k[1] \in online
  THEN up' = up \ {k} /\ exits' = exits \cup {[key |-> k, reason |-> "drained", by |-> "host"]}
  ELSE UNCHANGED <<up, exits>>

DrainPod(i) ==
  /\ Runs(i, {"exit", "drain"}) /\ Current(i).todo = {}
  /\ Len(Calls(i)) > 1 \/ tasks[i].op = "drain"
  /\ LET k == Current(i).key
         known == IF Len(Calls(i)) > 1 THEN Current(i).known ELSE Known(k)   \* drain() looks its own entry up now
     IN /\ IF known /\ held[k[2]]
           THEN armed' = [armed EXCEPT ![k[2]] = Front(@)] /\ held' = [held EXCEPT ![k[2]] = FALSE]
           ELSE UNCHANGED timers
        /\ DrainAtHost(IF known THEN KeyOf(k[2]) ELSE k)
        /\ Goto(i, [tasks[i] EXCEPT !.draining = TRUE, !.calls[Len(Calls(i))].known = known])
  /\ UNCHANGED <<entry, maps, gate, online, refusing, spawned, events>>

(* The pod is dead, and its links are severed: a child's from the set that  *)
(* its parent's call goes through, the pod's own from its parent's.         *)
PodDrained(i) ==
  /\ tasks[i].op \in {"exit", "drain"} /\ tasks[i].draining
  /\ LET k == Current(i).key
         n == Len(Calls(i)) - 1
         above == IF n > 0 THEN {<<h, Calls(i)[n].key[2]>> : h \in Hosts}
                  ELSE {pk \in Keys : <<k, pk>> \in parentOf}
     IN /\ entry' = IF Current(i).known THEN SetState(k[2], "dead") ELSE entry
        /\ childrenOf' = {l \in childrenOf : l[1] # k /\ (l[2] = k => l[1] \notin above)}
        /\ parentOf' = {l \in parentOf : l[1] # k}
        /\ Goto(i, IF n > 0 THEN [tasks[i] EXCEPT !.draining = FALSE, !.calls = Front(@)] ELSE Idle)
  /\ UNCHANGED <<listed, timers, gate, up, spawned, world>>

(* onExit() after the children. *)
ExitDecides(i) ==
  /\ Runs(i, {"exit"}) /\ Len(Calls(i)) = 1 /\ Current(i).todo = {}
  /\ LET k == Current(i).key
         p == k[2]
         reason == tasks[i].reason
     IN IF ~ Known(k) \/ entry[p].state = "dead"
        THEN Goto(i, Idle) /\ UNCHANGED entry
        ELSE IF reason # "drained" /\ PolicyWantsRestart(p, reason)
        THEN ScheduleRestart(i, p, reason)
        ELSE entry' = SetState(p, "dead") /\ Goto(i, Idle)
  /\ UNCHANGED <<maps, timers, gate, up, spawned, world>>

-----------------------------------------------------------------------------
(* What happens to the hosts. *)
Crash(k) ==
  /\ Happens /\ k \in up
  /\ up' = up \ {k}
  /\ exits' = IF k[1] \in online THEN exits \cup {[key |-> k, reason |-> "crashed", by |-> "host"]}
              ELSE exits
  /\ UNCHANGED <<entry, maps, timers, tasks, gate, online, refusing, spawned>>

(* peer:disconnect, and onHostLost() of the pods that run there. *)
HostLost(h) ==
  /\ Happens /\ h \in online
  /\ online' = online \ {h}
  /\ exits' = exits \cup {[key |-> KeyOf(p), reason |-> "host-lost", by |-> "disconnect"] :
                            p \in {q \in listed : entry[q].host = h /\ entry[q].state = "running"}}
  /\ UNCHANGED <<entry, maps, timers, tasks, gate, up, refusing, spawned>>

HostRefuses(h) ==
  /\ Happens
  /\ refusing' = IF h \in refusing THEN refusing \ {h} ELSE refusing \cup {h}
  /\ UNCHANGED <<entry, maps, timers, tasks, gate, up, online, exits, spawned>>

(* reconcile(): the pods that the entries hold for running and the list of  *)
(* the host shows as gone.                                                  *)
Reconcile(h) ==
  /\ Happens /\ h \in online
  /\ LET gone == {p \in listed : entry[p].host = h /\ entry[p].state = "running" /\ <<h, p>> \notin up}
     IN /\ gone # {}
        /\ exits' = exits \cup {[key |-> <<h, p>>, reason |-> "crashed", by |-> "reconcile"] : p \in gone}
  /\ UNCHANGED <<entry, maps, timers, tasks, gate, up, online, refusing, spawned>>

Step(i) ==
  \/ Register(i) \/ SetTimer(i)
  \/ RestartInPlace(i) \/ RestartElsewhere(i) \/ SpawnAnswered(i)
  \/ OnExit(i) \/ NextChild(i) \/ DrainPod(i) \/ PodDrained(i) \/ ExitDecides(i)
  \/ \E p \in DOMAIN entry : BackoffFires(i, p)

Next ==
  \/ \E i \in Ids : Step(i) \/ \E p \in DOMAIN entry : Supervise(i, p) \/ Drain(i, p)
  \/ \E p \in DOMAIN entry : Unsupervise(p)
  \/ \E k \in Keys : Crash(k)
  \/ \E h \in Hosts : HostLost(h) \/ HostRefuses(h) \/ Reconcile(h)

Fairness == \A i \in Ids : WF_vars(Step(i))

Spec == Init /\ [][Next]_vars /\ Fairness

-----------------------------------------------------------------------------
(* Restart storms are bounded: however exits, reconciles, losses and failed *)
(* restarts overlap, a pod is spawned at most once per unit of its budget   *)
(* after its first spawn, and at most MaxConcurrent restarts run at a time. *)
RestartBudget ==
  /\ \A p \in DOMAIN entry : entry[p].restarts <= entry[p].spec.maxRestarts /\ spawned[p] <= 1 + entry[p].restarts
  /\ Cardinality({i \in Ids : tasks[i].op \in {"spawn", "inplace", "place", "placed", "reschedule"}}) = active
  /\ active <= MaxConcurrent

(* A pod in restart comes back or is given up: the gate hands on, a timer   *)
(* that is overwritten still fires, and failed restarts use up the budget.  *)
InRestart(p) == entry[p].state = "restarting" /\ p \in listed
RestartsEnd == []<>(\A p \in DOMAIN entry : ~ InRestart(p))

==============================================================================
