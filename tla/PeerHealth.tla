------------------------------ MODULE PeerHealth ------------------------------
(***************************************************************************)
(* HealthMonitor and AutoMigrator of browsermesh-apps/src/peer-health.mjs: *)
(* a monitor counts the ticks since each peer's last heartbeat, and a      *)
(* migrator moves the workload of a peer that has failed.  A migration     *)
(* awaits the drain of its source, the resolution of the workload and the  *)
(* deployment of each item; ticks, heartbeats and further migrations come  *)
(* in between.                                                             *)
(***************************************************************************)
EXTENDS Integers, Sequences, SequencesExt

CONSTANTS
  Pods, None,
  MaxMissed,   \* maxMissedHeartbeats
  Items,       \* number of items of a pod's workload
  Preferred,   \* failoverPriority: a sequence of pods
  MaxRuns      \* bound on the migrations in progress

VARIABLES
  peers,       \* the keys of #peers, in the order of the map
  status,      \* per tracked pod
  missed,      \* missedHeartbeats, counted up to MaxMissed
  silent,      \* ticks since the last heartbeat, counted up to MaxMissed
  enabled,     \* the migrator listens
  moves,       \* the migrations in progress, each with the await it is at
  settled      \* pods whose failure was answered; no sign of life since

vars == <<peers, status, missed, silent, enabled, moves, settled>>

(* migrateNow() with the target that was selected; without one it ends at   *)
(* once.                                                                    *)
Move(from, to) ==
  IF to = None THEN <<>> ELSE <<[from |-> from, to |-> to, at |-> "drain", deployed |-> 0]>>

Capped(n) == IF n > MaxMissed THEN MaxMissed ELSE n

Init ==
  /\ peers = <<>> /\ moves = <<>> /\ settled = {}
  /\ status = [p \in Pods |-> "unknown"]
  /\ missed = [p \in Pods |-> 0] /\ silent = [p \in Pods |-> 0]
  /\ enabled = TRUE
-----------------------------------------------------------------------------
(* #selectTarget(): the first preferred pod that is healthy or degraded,    *)
(* else any that has not failed; among those the latencies decide.          *)
Targets(st, tracked, from) ==
  LET able == {i \in 1..Len(Preferred) :
                 /\ Preferred[i] # from /\ Preferred[i] \in tracked
                 /\ st[Preferred[i]] \in {"healthy", "degraded"}}
      others == {p \in tracked \ {from} : st[p] # "failed"}
  IN  IF able # {} THEN {Preferred[CHOOSE i \in able : \A j \in able : i =< j]}
      ELSE IF others # {} THEN others ELSE {None}

(* What #tick() makes of one peer.                                          *)
NextStatus(s, n) ==
  IF n >= MaxMissed THEN "failed" ELSE IF s # "failed" THEN "degraded" ELSE s

(* #tick() goes through the map in order, so the migration of a peer that   *)
(* fails is aimed by what the later peers showed before this tick; live are *)
(* the pods with a session.                                                 *)
Tick(live) ==
  LET fresh == SetToSeq(live \ ToSet(peers))
      order == peers \o fresh
      n(p) == missed[p] + 1
      new == [p \in Pods |-> IF p \in ToSet(order) THEN NextStatus(status[p], n(p)) ELSE status[p]]
      failing == {p \in ToSet(order) : new[p] = "failed" /\ status[p] # "failed"}
      fails == SelectSeq(order, LAMBDA p : p \in failing)
      seen(p) == [q \in Pods |->
                    IF \E i, j \in 1..Len(order) : i =< j /\ order[i] = q /\ order[j] = p
                    THEN new[q] ELSE status[q]]
  IN
  /\ peers' = order /\ status' = new
  /\ missed' = [p \in Pods |-> IF p \in ToSet(order) THEN Capped(n(p)) ELSE missed[p]]
  /\ silent' = [p \in Pods |-> IF p \in ToSet(order) THEN Capped(silent[p] + 1) ELSE silent[p]]
  /\ IF enabled
       THEN /\ Len(moves) + Len(fails) =< MaxRuns
            /\ \E to \in [1..Len(fails) -> Pods \cup {None}] :
                 /\ \A i \in 1..Len(fails) : to[i] \in Targets(seen(fails[i]), ToSet(order), fails[i])
                 /\ moves' = moves \o FlattenSeq([i \in 1..Len(fails) |-> Move(fails[i], to[i])])
            /\ settled' = settled \cup failing
       ELSE UNCHANGED <<moves, settled>>
  /\ UNCHANGED enabled

RecordHeartbeat(p, slow) ==
  /\ peers' = IF p \in ToSet(peers) THEN peers ELSE Append(peers, p)
  /\ status' = [status EXCEPT ![p] = IF slow THEN "degraded" ELSE "healthy"]
  /\ missed' = [missed EXCEPT ![p] = 0]
  /\ silent' = [silent EXCEPT ![p] = 0]
  /\ settled' = settled \ {p}
  /\ UNCHANGED <<enabled, moves>>

ClearHeartbeat(p) ==
  /\ p \in ToSet(peers) /\ missed[p] > 0
  /\ missed' = [missed EXCEPT ![p] = 0]
  /\ UNCHANGED <<peers, status, silent, enabled, moves, settled>>

Untrack(p) ==
  /\ p \in ToSet(peers)
  /\ peers' = RemoveAt(peers, CHOOSE i \in DOMAIN peers : peers[i] = p)
  /\ status' = [status EXCEPT ![p] = "unknown"]
  /\ missed' = [missed EXCEPT ![p] = 0]
  /\ silent' = [silent EXCEPT ![p] = 0]
  /\ settled' = settled \ {p}
  /\ UNCHANGED <<enabled, moves>>

EnableOrDisable ==
  /\ enabled' = ~enabled
  /\ UNCHANGED <<peers, status, missed, silent, moves, settled>>
-----------------------------------------------------------------------------
(* migrateNow() called by the user. *)
MigrateNow(from, to) ==
  /\ Len(moves) < MaxRuns
  /\ moves' = moves \o Move(from, to)
  /\ UNCHANGED <<peers, status, missed, silent, enabled, settled>>

Advance(i) ==
  /\ LET m == moves[i] IN
     moves' = CASE m.at = "drain" -> [moves EXCEPT ![i].at = "resolve"]
                [] m.at = "resolve" -> [moves EXCEPT ![i].at = "deploy"]
                [] m.at = "deploy" /\ m.deployed + 1 < Items -> [moves EXCEPT ![i].deployed = @ + 1]
                [] OTHER -> RemoveAt(moves, i)
  /\ UNCHANGED <<peers, status, missed, silent, enabled, settled>>

(* A step throws or reports failure, or there is no workload.               *)
Ends(i) ==
  /\ moves' = RemoveAt(moves, i)
  /\ UNCHANGED <<peers, status, missed, silent, enabled, settled>>

Next ==
  \/ EnableOrDisable
  \/ \E live \in SUBSET Pods : Tick(live)
  \/ \E p \in Pods : ClearHeartbeat(p) \/ Untrack(p)
  \/ \E p \in Pods, slow \in BOOLEAN : RecordHeartbeat(p, slow)
  \/ \E p \in Pods : \E to \in Targets(status, ToSet(peers), p) : MigrateNow(p, to)
  \/ \E i \in DOMAIN moves : Advance(i) \/ Ends(i)

Spec == Init /\ [][Next]_vars
-----------------------------------------------------------------------------
(* A peer counts as failed only after MaxMissed ticks without a heartbeat,  *)
(* whatever was cleared or forgotten in between; and one whose failure was  *)
(* answered by a migration stays failed until it gives a sign of life, so   *)
(* that it is not migrated a second time for the same failure.              *)
VerdictsAreEarned ==
  /\ \A p \in ToSet(peers) : status[p] = "failed" => silent[p] = MaxMissed
  /\ \A p \in settled : status[p] = "failed"
==============================================================================
