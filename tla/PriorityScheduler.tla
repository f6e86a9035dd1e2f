--------------------------- MODULE PriorityScheduler ---------------------------
(***************************************************************************)
(* PriorityScheduler of browsermesh-priority-mux (scheduler.mjs): strict   *)
(* priority, except that every GuardInterval-th dequeue() serves the       *)
(* lowest non-empty tier.  Queues are represented by their lengths; what   *)
(* the items are is PriorityMux's business.  Tier 1 is the highest.        *)
(***************************************************************************)
EXTENDS Integers

CONSTANTS
  LastTier,       \* number of tiers; LastTier is the lowest priority
  GuardInterval,  \* starvationGuardInterval
  MaxBatch,       \* most chunks one send() enqueues
  QueueCap        \* bound: items waiting in one tier

ASSUME SchedulerAssumption ==
  /\ LastTier \in Nat \ {0}
  /\ GuardInterval \in Nat \ {0}
  /\ MaxBatch \in Nat
  /\ QueueCap \in Nat

Tier == 1..LastTier

VARIABLES
  qlen,    \* qlen[t]: queues.get(t).length
  slot,    \* slotCounter modulo GuardInterval, all that dequeue() reads of it
  waited,  \* history: dequeues the head of the lowest tier has waited for
  served   \* history: the tier the last dequeue() served, 0 if none

vars == <<qlen, slot, waited, served>>

Init ==
  /\ qlen = [t \in Tier |-> 0]
  /\ slot = 0
  /\ waited = 0
  /\ served = 0

(* enqueue(), once per chunk of a message. *)
Enqueue(t, k) ==
  /\ qlen[t] + k <= QueueCap
  /\ qlen' = [qlen EXCEPT ![t] = @ + k]
  /\ UNCHANGED <<slot, waited, served>>

NextSlot(n) == (n + 1) % GuardInterval

(* The tier that dequeue() serves among those that have items. *)
PickHighest(waiting, guardSlot) == CHOOSE t \in waiting : \A u \in waiting : t <= u

Pick(waiting, guardSlot) ==
  CHOOSE t \in waiting :
    \A u \in waiting : IF guardSlot THEN t >= u ELSE t <= u

Waiting == {t \in Tier : qlen[t] > 0}

(* dequeue(): the slot advances even when nothing is queued. *)
Dequeue ==
  /\ slot' = NextSlot(slot)
  /\ \/ /\ Waiting = {}
        /\ UNCHANGED <<qlen, waited, served>>
     \/ /\ Waiting # {}
        /\ served' = Pick(Waiting, slot' = 0)
        /\ qlen' = [qlen EXCEPT ![served'] = @ - 1]
        /\ waited' = IF LastTier \in Waiting /\ served' # LastTier THEN waited + 1 ELSE 0

Next ==
  \/ Dequeue
  \/ \E t \in Tier, k \in 1..MaxBatch : Enqueue(t, k)

Spec == Init /\ [][Next]_vars

-----------------------------------------------------------------------------
(* Types of the scheduler's fields. *)
TypeOK ==
  /\ qlen \in [Tier -> Nat]
  /\ slot \in 0..(GuardInterval - 1)
  /\ waited \in Nat
  /\ served \in 0..LastTier

(* `any single item sitting alone in the lowest tier is dequeued within    *)
(* starvationGuardInterval dequeue() calls', and so is any head of that    *)
(* tier's queue, however the higher tiers are fed.                         *)
StarvationBound == waited < GuardInterval

(* The inductive form: the wait never outgrows the slots since the last    *)
(* guard slot.                                                             *)
WaitWithinPeriod == waited <= slot

=============================================================================
