------------------------------ MODULE Migration ------------------------------
(***************************************************************************)
(* MigrationEngine of browsermesh-sync (migration.mjs): plans initiated,   *)
(* executed step by step with an await between steps, cancelled at any of  *)
(* those awaits, and checkpoints whose data the caller still holds.        *)
(***************************************************************************)
EXTENDS Naturals, FiniteSets

CONSTANTS
  Plan,           \* migration ids
  MaxConcurrent   \* #maxConcurrent

Step == {"checkpoint", "transfer", "verify", "activate"}
Terminal == {"completed", "failed", "rolledBack"}

VARIABLES
  state,     \* plan.state; "none" before initiateMigration()
  step,      \* step[p][s]: status of step s of plan p
  pc,        \* where executePlan(p) waits: "none", "hashing", the next step, or "returned"
  altered,   \* the caller changed the data its checkpoint refers to
  received,  \* a checkpoint from the wire replaced the plan's own
  hashOk,    \* what verify() will answer, fixed when it serialises the data
  cancelled  \* history: cancelPlan(p) returned true while executePlan(p) ran

vars == <<state, step, pc, altered, received, hashOk, cancelled>>

Init ==
  /\ state = [p \in Plan |-> "none"]
  /\ step = [p \in Plan |-> [s \in Step |-> "pending"]]
  /\ pc = [p \in Plan |-> "none"]
  /\ altered = [p \in Plan |-> FALSE]
  /\ received = [p \in Plan |-> FALSE]
  /\ hashOk = [p \in Plan |-> FALSE]
  /\ cancelled = [p \in Plan |-> FALSE]

-----------------------------------------------------------------------------
(* The getter activeMigrations: idle plans are not counted. *)
ActiveMigrations == {p \in Plan : state[p] \notin Terminal \cup {"none", "idle"}}

InitiateMigration(p) ==
  /\ state[p] = "none"
  /\ Cardinality(ActiveMigrations) < MaxConcurrent
  /\ state' = [state EXCEPT ![p] = "idle"]
  /\ UNCHANGED <<step, pc, altered, received, hashOk, cancelled>>

(* The caller writes to the object it made the checkpoint of. *)
AlterData(p) ==
  /\ state[p] # "none" /\ ~altered[p]
  /\ altered' = [altered EXCEPT ![p] = TRUE]
  /\ UNCHANGED <<state, step, pc, received, hashOk, cancelled>>

(* The MIGRATION_CHECKPOINT subscription: only checkpoints that verify are kept. *)
ReceiveCheckpoint(p) ==
  /\ state[p] # "none" /\ ~received[p]
  /\ received' = [received EXCEPT ![p] = TRUE]
  /\ UNCHANGED <<state, step, pc, altered, hashOk, cancelled>>

(* Checkpoint.verify(): serialises the data as it is now. *)
DataMatchesHash(p) == received[p] \/ ~altered[p]

(* executePlan() up to the await inside verify(); it never looks at plan.state. *)
ExecutePlan(p) ==
  /\ state[p] # "none" /\ pc[p] = "none"
  /\ step' = [step EXCEPT ![p]["checkpoint"] = "running"]
  /\ state' = [state EXCEPT ![p] = "checkpointing"]
  /\ hashOk' = [hashOk EXCEPT ![p] = DataMatchesHash(p)]
  /\ pc' = [pc EXCEPT ![p] = "hashing"]
  /\ UNCHANGED <<altered, received, cancelled>>

VerifiedCheckpointRegardless(p) ==
  /\ pc[p] = "hashing"
  /\ pc' = [pc EXCEPT ![p] = "transfer"]
  /\ step' = [step EXCEPT ![p]["checkpoint"] = "completed"]
  /\ UNCHANGED <<state, altered, received, hashOk, cancelled>>

(* The rest of stepCheckpoint(), when the digest is there. *)
VerifiedCheckpoint(p) ==
  /\ pc[p] = "hashing"
  /\ pc' = [pc EXCEPT ![p] = "transfer"]
  /\ IF hashOk[p]
       THEN /\ step' = [step EXCEPT ![p]["checkpoint"] = "completed"]
            /\ UNCHANGED state
       ELSE /\ step' = [step EXCEPT ![p]["checkpoint"] = "failed"]
            /\ state' = [state EXCEPT ![p] = "failed"]
  /\ UNCHANGED <<altered, received, hashOk, cancelled>>

(* if (plan.isFailed) return plan, after each awaited step. *)
Fails(p) == state[p] = "failed"

ReturnFailed(p) ==
  /\ pc[p] \in Step
  /\ Fails(p)
  /\ pc' = [pc EXCEPT ![p] = "returned"]
  /\ UNCHANGED <<state, step, altered, received, hashOk, cancelled>>

(* A step that succeeds: transfer and activate always do; verify is given  *)
(* the checkpoint's own hash to compare with.                              *)
TakeStep(p, s, during, next) ==
  /\ pc[p] = s /\ ~Fails(p)
  /\ step' = [step EXCEPT ![p][s] = "completed"]
  /\ state' = [state EXCEPT ![p] = IF during = "activating" THEN "completed" ELSE during]
  /\ pc' = [pc EXCEPT ![p] = next]
  /\ UNCHANGED <<altered, received, hashOk, cancelled>>

StepTransfer(p) == TakeStep(p, "transfer", "transferring", "verify")
StepVerify(p) == TakeStep(p, "verify", "verifying", "activate")
StepActivate(p) == TakeStep(p, "activate", "activating", "returned")

(* MigrationPlan.rollback(): what has not run yet is skipped. *)
Rollback(p) ==
  /\ step' = [step EXCEPT ![p] =
       [s \in Step |-> IF @[s] \in {"pending", "running"} THEN "skipped" ELSE @[s]]]
  /\ state' = [state EXCEPT ![p] = "rolledBack"]

CancelPlan(p) ==
  /\ state[p] \notin Terminal \cup {"none"}
  /\ Rollback(p)
  /\ cancelled' = [cancelled EXCEPT ![p] = pc[p] # "none"]
  /\ UNCHANGED <<pc, altered, received, hashOk>>

Execution(p) ==
  \/ VerifiedCheckpoint(p) \/ ReturnFailed(p)
  \/ StepTransfer(p) \/ StepVerify(p) \/ StepActivate(p)

Next == \E p \in Plan :
  \/ InitiateMigration(p) \/ AlterData(p) \/ ReceiveCheckpoint(p)
  \/ ExecutePlan(p) \/ Execution(p) \/ CancelPlan(p)

(* The awaits of executePlan() are settled by the platform: a digest ends and
   a settled promise's continuation runs. *)
Fairness == \A p \in Plan : WF_vars(Execution(p))

Spec == Init /\ [][Next]_vars /\ Fairness

-----------------------------------------------------------------------------
(* The types of the plans' fields (MIGRATION_STATES, STEP_STATUSES). *)
TypeOK ==
  /\ state \in [Plan -> Terminal \cup {"none", "idle", "checkpointing", "transferring",
                                       "verifying", "activating"}]
  /\ step \in [Plan -> [Step -> {"pending", "running", "completed", "failed", "skipped"}]]
  /\ pc \in [Plan -> {"none", "hashing", "transfer", "verify", "activate", "returned"}]
  /\ \A f \in {altered, received, hashOk, cancelled} : f \in [Plan -> BOOLEAN]

(* A plan that executePlan() reports completed ran every one of its steps,  *)
(* and its checkpoint matched its hash when it was read, whatever cancels,  *)
(* writes to the data and received checkpoints came in between.             *)
CompletedWasVerified ==
  \A p \in Plan : state[p] = "completed" =>
    hashOk[p] /\ \A s \in Step : step[p][s] = "completed"

(* executePlan() always ends, with its plan in a terminal state. *)
ExecutionEnds ==
  \A p \in Plan : pc[p] = "hashing" ~> pc[p] = "returned" /\ state[p] \in Terminal

(* cancelPlan(): "Cancel a pending or in-progress migration", true "if      *)
(* cancelled": a cancelled migration does not come alive again.             *)
CancelIsFinal == \A p \in Plan : cancelled[p] => state[p] \in {"rolledBack", "failed"}

-----------------------------------------------------------------------------
(* The checkpoint of p matched its hash, and the steps S of p were taken. *)
Ran(p, S) == hashOk[p] /\ \A s \in S : step[p][s] = "completed"

(* What executePlan() has done when it waits before a step; a completed     *)
(* plan has no execution under way that could still change it.              *)
PlanInv(p) ==
  /\ pc[p] = "transfer" /\ ~Fails(p) => Ran(p, {"checkpoint"})
  /\ pc[p] = "verify" /\ ~Fails(p) => Ran(p, {"checkpoint", "transfer"})
  /\ pc[p] = "activate" /\ ~Fails(p) => Ran(p, {"checkpoint", "transfer", "verify"})
  /\ state[p] = "completed" => pc[p] = "returned" /\ Ran(p, Step)

MigrationInv == TypeOK /\ \A p \in Plan : PlanInv(p)
==============================================================================
