----------------------- MODULE ExecutionReconciliation -----------------------
(***************************************************************************)
(* services/executionReconciliation.js: the integrity check that compares  *)
(* checkpoint, execution snapshot, attempts, ledger, lock and recovery     *)
(* queue, and the reconciliation that decides what a holder of the lock    *)
(* may do with an interrupted execution; with the preflight of             *)
(* services/executionEngine.js that comes before a recovery.               *)
(*                                                                         *)
(* The functions read several tables and then write; here each is one      *)
(* action, the reads included.                                             *)
(***************************************************************************)
EXTENDS ExecutionStore, FiniteSets

-----------------------------------------------------------------------------
(* collectExecutionLifecycleIssues *)

Seen(e) == \E k \in Kinds : ledger[e][k] > 0
Count(e, k) == ledger[e][k]
SomeOf(e, K) == \E k \in K : Count(e, k) > 0
SeveralOf(e, K) ==
    \/ \E k \in K : Count(e, k) > 1
    \/ \E k, l \in K : k # l /\ Count(e, k) > 0 /\ Count(e, l) > 0

(* The ledger event a terminal checkpoint asks of every execution that has *)
(* any event at all.                                                       *)
ExpectedKind(st) == IF st = "execution_abandoned" THEN "abandoned" ELSE st

LedgerIssue(e) ==
    /\ Seen(e)
    /\ \/ Count(e, "created") > 1
       \/ Count(e, "started") > 1
       \/ SeveralOf(e, TerminalKinds)
       \/ SomeOf(e, TerminalKinds \cup {"started"}) /\ Count(e, "created") # 1
       \/ SomeOf(e, TerminalKinds) /\ Count(e, "started") # 1
       \/ Count(e, "stageEnded") > 1
       \/ SomeOf(e, {"stageEnded", "stagePaused"}) /\ Count(e, "stageStarted") = 0
       \/ ckpt.status \in TerminalCheckpoint /\ Count(e, ExpectedKind(ckpt.status)) = 0

-----------------------------------------------------------------------------
(* collectExecutionSnapshotIssues, of the execution that has rows          *)

DoneSteps(e) == Cardinality({s \in Steps : snap[e].steps[s] = "completed"})
Unsettled == {"running", "paused", "awaiting_review", "pause_for_operator_recovery"}

SnapshotIssue(e) ==
    /\ HasRow(e)
    /\ \/ snap[e].stage = "completed" /\ DoneSteps(e) # NumSteps
       \/ /\ snap[e].stage = "failed"
          /\ \A s \in Steps : snap[e].steps[s] \notin {"failed", "cancelled"}
       \/ /\ ckpt.status # "none"
          /\ \/ DoneSteps(e) < ckpt.last
             \/ ckpt.status \in {"completed", "failed", "cancelled"} /\ snap[e].status # ckpt.status
             \/ ckpt.status = "running" /\ snap[e].status \notin {"running", "pending"}
             \/ /\ ckpt.status \in Unsettled \ {"running"}
                /\ snap[e].status \in TerminalExecution
             \/ ckpt.status # "completed" /\ DoneSteps(e) > ckpt.last
             \/ /\ ckpt.status \in Unsettled
                /\ ckpt.cur \in Steps /\ snap[e].steps[ckpt.cur] = "completed"

-----------------------------------------------------------------------------
(* collectIntegrityIssues; q is the recovery queue after expiry            *)

CheckpointIssue ==
    /\ ckpt.status \notin TerminalCheckpoint \cup {"none"}
    /\ ckpt.cur <= ckpt.last

LockIssue == ckpt.status \in TerminalCheckpoint /\ lock.held

RunningAttempts(e, s) == {n \in DOMAIN attempts[e][s] : attempts[e][s][n].status = "running"}
AttemptIssue == \E e \in Execs, s \in Steps : Cardinality(RunningAttempts(e, s)) > 1

RecoveryIssue(q) == ckpt.status = "pause_for_operator_recovery" /\ q = "none"

IntegrityIssue(q) ==
    \/ CheckpointIssue
    \/ LockIssue
    \/ \E e \in Execs : LedgerIssue(e) \/ SnapshotIssue(e)
    \/ AttemptIssue
    \/ RecoveryIssue(q)

QueueAfterExpiry == IF queue = "due" THEN "none" ELSE queue

(* validateExecutionIntegrity: expire, then compare.  What it does on an   *)
(* issue comes in later transactions (ExecutionEngine's Corrupt).          *)
IntegrityHolds ==
    /\ ~IntegrityIssue(QueueAfterExpiry)
    /\ queue' = QueueAfterExpiry
    /\ UNCHANGED <<lock, ckpt, snap, attempts, ledger>>

IntegrityFails ==
    /\ IntegrityIssue(QueueAfterExpiry)
    /\ queue' = QueueAfterExpiry
    /\ UNCHANGED <<lock, ckpt, snap, attempts, ledger>>

-----------------------------------------------------------------------------
(* reconcileExecutionState, for the execution that holds the lock.  Its    *)
(* branches for a terminal checkpoint, for a completed current step and    *)
(* for a failed attempt of it are not here: the integrity check before     *)
(* them turns each of these states into an issue.                          *)

LastAttempt(e, s) == attempts[e][s][Len(attempts[e][s])]
HasAttempts(e, s) == attempts[e][s] # << >>

(* The running step may still be at work: the taker leaves things as they  *)
(* are, and keeps the lock it has taken.                                   *)
StillLeased(e, s) == HasAttempts(e, s) /\ LastAttempt(e, s).status = "running"
                                       /\ LastAttempt(e, s).live

(* Mistaken variant: only a finished step shows that it had started.       *)
FinishedEvidence(e, s) == snap[e].steps[s] \in TerminalStep

(* hasStepStartedEvidence, of a step without hasStepTerminalEvidence: a    *)
(* step that failed before it had any attempt shows nothing.               *)
StartedEvidence(e, s) == HasAttempts(e, s) \/ snap[e].steps[s] \notin {"pending", "failed"}

(* An execution whose first attempt is older than an hour goes to the      *)
(* operator whatever its state; time is not modelled, so it may be that    *)
(* old as soon as it has an attempt.                                       *)
MayBeOverdue(e) == \E s \in Steps : HasAttempts(e, s)

QueueRecoveryReview(e) ==
    FinalizeExecutionTransition(e, "pause_for_operator_recovery", {}, "open")

Abandon ==
    /\ lock.held /\ queue = "due"
    /\ FinalizeExecutionTransition(lock.exec, "execution_abandoned", {"abandoned"}, "none")

CanReconcile == lock.held /\ queue # "due" /\ ~IntegrityIssue(queue)

ReconcileToOperator ==
    /\ CanReconcile
    /\ \/ ckpt.status # "none" /\ queue = "open"
       \/ /\ ckpt.status = "running"
          /\ \/ MayBeOverdue(lock.exec)
             \/ StartedEvidence(lock.exec, ckpt.cur) /\ ~StillLeased(lock.exec, ckpt.cur)
    /\ QueueRecoveryReview(lock.exec)

ReconcileNoop ==
    /\ CanReconcile /\ queue = "none"
    /\ ckpt.status = "running" /\ StillLeased(lock.exec, ckpt.cur)
    /\ UNCHANGED storeVars

ReconcileResume ==
    /\ CanReconcile
    /\ \/ ckpt.status = "none"
       \/ /\ queue = "none"
          /\ \/ ckpt.status \in {"pending", "paused", "awaiting_review"}
             \/ ckpt.status = "running" /\ ~StartedEvidence(lock.exec, ckpt.cur)
    /\ UNCHANGED storeVars

(* LOCK_REQUIRED *)
ReconcileUnlocked ==
    /\ ~lock.held
    /\ queue' = QueueAfterExpiry
    /\ UNCHANGED <<lock, ckpt, snap, attempts, ledger>>

ReconcileFails == lock.held /\ queue # "due" /\ IntegrityFails

-----------------------------------------------------------------------------
(* runRecoveryPreflight of the engine *)

Resumable(e) == snap[e].status \in {"running", "paused", "paused_for_review"}

(* The execution a recovery is about: the lock's, else the one with rows,  *)
(* else the one the caller named.                                          *)
RecoveryTarget(e) ==
    IF lock.held THEN lock.exec
    ELSE IF \E d \in Execs : Resumable(d) THEN CHOOSE d \in Execs : Resumable(d)
    ELSE e

SomeoneActive(e) ==
    \/ \E d \in Execs : snap[d].status = "running" /\ snap[d].live
    \/ /\ lock.held
       /\ \E s \in Steps : \E n \in DOMAIN attempts[e][s] :
            attempts[e][s][n].status = "running" /\ attempts[e][s][n].live

NeedsOperator == ckpt.status \in TerminalCheckpoint
                                 \cup {"awaiting_review", "pause_for_operator_recovery"}

(* Not eligible: nothing to recover, someone active, or not recoverable by *)
(* itself.  The statuses are those read before the integrity check.        *)
PreflightRefuses(e) ==
    \/ /\ ckpt.status = "none" \/ SomeoneActive(e)
       /\ UNCHANGED storeVars
    \/ /\ ckpt.status # "none" /\ ~SomeoneActive(e) /\ NeedsOperator
       /\ IntegrityHolds

PreflightFails(e) == ckpt.status # "none" /\ ~SomeoneActive(e) /\ IntegrityFails

PreflightAllows(e) ==
    /\ ckpt.status # "none" /\ ~SomeoneActive(e)
    /\ ~NeedsOperator
    /\ IntegrityHolds

=============================================================================
