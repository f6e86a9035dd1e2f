----------------------------- MODULE MeshScheduler -----------------------------
(***************************************************************************)
(* MeshScheduler of browsermesh-apps (scheduler.mjs): tasks wait in a      *)
(* priority queue, are assigned to nodes that meet their constraints,      *)
(* complete, fail and are retried.  Reports about a task may come late,    *)
(* twice and after its end.  The order of the queue is that of the tasks,  *)
(* so that the queue is known by how often it holds each task.  The        *)
(* policies differ only in the node they choose, which is left out.        *)
(***************************************************************************)
EXTENDS Naturals, FiniteSets

CONSTANTS
  Task,            \* numbers, the lower one first in the queue: priority, deadline, time
  Node,
  Fits,            \* Fits[t]: the nodes that meet the constraints of t
  MaxConcurrent, MaxRetries,
  MaxReports,      \* bound: reports about tasks that are not running
  MaxRestarts      \* bound: toJSON() and fromJSON()

VARIABLES
  status, retries,   \* of the tasks; status "none" before submit()
  copies,            \* how often the queue holds a task
  nodes,             \* registered
  reports, restarts

task == <<status, retries, copies>>
vars == <<task, nodes, reports, restarts>>

Init ==
  /\ status = [t \in Task |-> "none"]
  /\ retries = [t \in Task |-> 0]
  /\ copies = [t \in Task |-> 0]
  /\ nodes = {}
  /\ reports = 0 /\ restarts = 0

Running == {t \in Task : status[t] = "assigned"}
Ended(t) == status[t] \in {"completed", "failed", "cancelled"}

(* remove() of the queue: one copy, if there is one *)
Without(t) == [copies EXCEPT ![t] = IF @ = 0 THEN 0 ELSE @ - 1]

(* A report that is no surprise, or one of a bounded number of others *)
Reported(t) ==
  \/ status[t] = "assigned" /\ UNCHANGED reports
  \/ status[t] \notin {"none", "assigned"} /\ reports < MaxReports /\ reports' = reports + 1

-----------------------------------------------------------------------------
Submit(t) ==
  /\ status[t] = "none"
  /\ status' = [status EXCEPT ![t] = "queued"]
  /\ copies' = [copies EXCEPT ![t] = @ + 1]
  /\ UNCHANGED <<retries, nodes, reports, restarts>>

Cancel(t) ==
  /\ status[t] # "none" /\ ~ Ended(t)
  /\ status' = [status EXCEPT ![t] = "cancelled"]
  /\ copies' = Without(t)
  /\ UNCHANGED <<retries, nodes, reports, restarts>>

Complete(t) ==
  /\ Reported(t)
  /\ status' = [status EXCEPT ![t] = "completed"]
  /\ copies' = Without(t)
  /\ UNCHANGED <<retries, nodes, restarts>>

(* canRetry() *)
CanRetry(t) == retries[t] + 1 < MaxRetries

(* fail(): whatever the task is doing, it is queued again while it has retries. *)
Fail(t) ==
  /\ Reported(t)
  /\ retries' = [retries EXCEPT ![t] = @ + 1]
  /\ \/ /\ CanRetry(t)
        /\ status' = [status EXCEPT ![t] = "queued"]
        /\ copies' = [copies EXCEPT ![t] = @ + 1]
     \/ /\ ~ CanRetry(t)
        /\ status' = [status EXCEPT ![t] = "failed"]
        /\ UNCHANGED copies
  /\ UNCHANGED <<nodes, restarts>>

RegisterNode(n) == n \notin nodes /\ nodes' = nodes \cup {n} /\ UNCHANGED <<task, reports, restarts>>

UnregisterNode(n) == n \in nodes /\ nodes' = nodes \ {n} /\ UNCHANGED <<task, reports, restarts>>

-----------------------------------------------------------------------------
Waiting == {t \in Task : status[t] = "queued" /\ copies[t] > 0 /\ Fits[t] \cap nodes # {}}

Before(u, t) == u < t

(* The tasks that schedule() assigns: the first ones for which there is     *)
(* room.  A second copy of a task is assigned as well, unless the first one *)
(* took the last place.                                                     *)
Place(t) == Cardinality({u \in Waiting : Before(u, t)}) + 1
Room == IF Cardinality(Running) >= MaxConcurrent THEN 0 ELSE MaxConcurrent - Cardinality(Running)
ChosenBeyond == {t \in Waiting : Place(t) <= Room + 1}

Chosen == {t \in Waiting : Place(t) <= Room}

Schedule ==
  LET chosen == Chosen IN
  /\ chosen # {}
  /\ status' = [t \in Task |-> IF t \in chosen THEN "assigned" ELSE status[t]]
  /\ copies' = [t \in Task |-> IF t \notin chosen THEN copies[t]
                               ELSE IF Place(t) = Room THEN copies[t] - 1 ELSE 0]
  /\ UNCHANGED <<retries, nodes, reports, restarts>>

(* toJSON() and fromJSON(): the queue is made again from the tasks. *)
Restore ==
  /\ restarts < MaxRestarts /\ restarts' = restarts + 1
  /\ copies' = [t \in Task |-> IF status[t] = "queued" THEN 1 ELSE 0]
  /\ UNCHANGED <<status, retries, nodes, reports>>

(* A running task ends. *)
TaskEnds == \E t \in Running : Complete(t) \/ Fail(t)

Next ==
  \/ \E t \in Task : Submit(t) \/ Cancel(t) \/ Complete(t) \/ Fail(t)
  \/ \E n \in Node : RegisterNode(n) \/ UnregisterNode(n)
  \/ Schedule \/ Restore

-----------------------------------------------------------------------------
(* A step never takes more tasks than there is room for, and none while one *)
(* that comes first and could run as well is left waiting.                  *)
WithinLimits ==
  LET started == {t \in Task : status[t] = "queued" /\ status'[t] = "assigned"}
  IN started # {} =>
       /\ Cardinality({t \in Task : status'[t] = "assigned"}) <= MaxConcurrent
       /\ \A t \in started, u \in Task :
            Before(u, t) /\ status'[u] = "queued" => Fits[u] \cap nodes = {}

(* While the nodes stay registered no task waits for ever, whatever late,   *)
(* repeated or contradictory reports put tasks back into the queue.         *)
EveryTaskIsServed ==
  []<>(nodes # Node \/ \A t \in Task : status[t] # "queued")
==============================================================================
