--------------------------- MODULE ExecutionStore ---------------------------
(***************************************************************************)
(* The durable state of one plan's execution, and the SQLite transactions  *)
(* that change it: services/executionStateStore.js (checkpoint and         *)
(* execution snapshot), services/executionIntegrityStore.js (lock,         *)
(* attempts, ledger, operator recovery queue), services/lifecycleAtomic.js *)
(* and services/lifecycleAttemptAtomic.js (the composite transactions).    *)
(*                                                                         *)
(* Every function of these files runs inside BEGIN IMMEDIATE ... COMMIT    *)
(* (services/transaction.js), so each is one atomic action here.  Several  *)
(* operating-system processes open the same database; nothing in this      *)
(* module says in which order they call: Next lets any process call any    *)
(* transaction at any time, and only the guards the transactions           *)
(* themselves check restrict it.  ExecutionEngine composes these actions   *)
(* in the order the engine calls them.                                     *)
(***************************************************************************)
EXTENDS Integers, Sequences

CONSTANTS
    Execs,          \* execution ids that may run the plan
    Procs,          \* process incarnations; each has its own worker id
    NumSteps,       \* number of steps of the plan
    NoExec, NoProc, \* "no row" in the lock table, a NULL worker
    MaxAttempts     \* bound: attempts of one step of one execution

Steps == 1..NumSteps

(* Statuses after normalizeExecutionStatus, normalizeStageStatus and       *)
(* normalizeStepStatus: what the rows can hold.                            *)
ExecutionStatuses == {"pending", "running", "paused", "paused_for_review",
                      "completed", "failed", "cancelled"}
StageStatuses == {"pending", "running", "paused_for_review", "completed", "failed", "cancelled"}
StepStatuses  == {"pending", "running", "paused", "paused_for_review",
                  "completed", "failed", "cancelled"}
CheckpointStatuses == {"pending", "running", "paused", "awaiting_review",
                       "pause_for_operator_recovery", "completed", "failed",
                       "cancelled", "execution_abandoned", "corrupted"}
TerminalCheckpoint == {"completed", "failed", "cancelled", "execution_abandoned", "corrupted"}
TerminalExecution  == {"completed", "failed", "cancelled"}
TerminalStep       == {"completed", "failed", "cancelled"}
AttemptStatuses    == {"running", "completed", "failed", "cancelled"}

(* What persistExecutionSnapshot writes of a run: the execution row's      *)
(* status, its stage's status and its steps' statuses.                     *)
Write == [status : ExecutionStatuses, stage : StageStatuses, steps : [Steps -> StepStatuses]]

ASSUME StepsAssumption == NumSteps \in Nat \ {0}
ASSUME BoundAssumption == MaxAttempts \in Nat
ASSUME NullAssumption  == NoExec \notin Execs /\ NoProc \notin Procs

(* Ledger events the integrity check counts.  "lease" stands for the       *)
(* lease.* and recovery.* events, which only make the ledger non-empty.    *)
Kinds == {"lease", "created", "started", "stageStarted", "stagePaused", "stageEnded",
          "completed", "failed", "cancelled", "abandoned", "corrupted"}
TerminalKinds == {"completed", "failed", "cancelled", "abandoned", "corrupted"}

VARIABLES
    lock,      \* execution_locks: the plan's row, kept after a release
    ckpt,      \* execution_state: the plan's checkpoint
    snap,      \* executions + execution_stages + execution_steps, per execution
    attempts,  \* execution_attempts, per execution and step, by attempt number
    ledger,    \* execution_ledger: how many events of each kind, per execution
    queue      \* operator_recovery_queue: the plan's unresolved item

storeVars == <<lock, ckpt, snap, attempts, ledger, queue>>

-----------------------------------------------------------------------------
(* Rows and their types *)

(* cur is currentStep + 1 and last is lastCompletedStepIndex + 1.          *)
NoCheckpoint == [status |-> "none", cur |-> 1, last |-> 0]
NoRow == [status |-> "none", owner |-> NoProc, live |-> FALSE,
          stage |-> "pending", steps |-> [s \in Steps |-> "pending"]]

Attempt     == [status : AttemptStatuses, live : BOOLEAN, proc : Procs]
LockRow     == [exec : Execs \cup {NoExec}, worker : Procs \cup {NoProc}, held : BOOLEAN]
Checkpoint  == [status : CheckpointStatuses \cup {"none"},
                cur : 1..NumSteps + 1, last : 0..NumSteps]
Row         == [status : ExecutionStatuses \cup {"none"}, owner : Procs \cup {NoProc},
                live : BOOLEAN, stage : StageStatuses, steps : [Steps -> StepStatuses]]

(* The check asks of some kinds only whether there is one, and of the      *)
(* others whether there is more than one.                                  *)
CountCap(k) == IF k \in {"lease", "stageStarted", "stagePaused"} THEN 1 ELSE 2

TypeOK ==
    /\ lock \in LockRow
    /\ ckpt \in Checkpoint
    /\ snap \in [Execs -> Row]
    /\ attempts \in [Execs -> [Steps -> Seq(Attempt)]]
    /\ ledger \in [Execs -> [Kinds -> 0..2]]
    /\ queue \in {"none", "open", "due"}

StoreInit ==
    /\ lock = [exec |-> NoExec, worker |-> NoProc, held |-> FALSE]
    /\ ckpt = NoCheckpoint
    /\ snap = [e \in Execs |-> NoRow]
    /\ attempts = [e \in Execs |-> [s \in Steps |-> << >>]]
    /\ ledger = [e \in Execs |-> [k \in Kinds |-> 0]]
    /\ queue = "none"

-----------------------------------------------------------------------------
(* Helpers *)

HasRow(e) == snap[e].status # "none"

(* appendLedgerEventTx: one more event of each of these kinds.             *)
Logged(l, e, kinds) ==
    [l EXCEPT ![e] = [k \in Kinds |->
        IF k \in kinds /\ l[e][k] < CountCap(k) THEN l[e][k] + 1 ELSE l[e][k]]]

(* Mistaken variant: a terminal row may be opened again.                   *)
LegalChangeReopens(from, to) ==
    \/ from \in {"none", "paused", "paused_for_review", "completed", "failed", "cancelled"}
    \/ from = to
    \/ from \in {"pending", "running"} /\ to # "pending"

(* ALLOWED_STATUS_TRANSITIONS, for the statuses that rows hold.            *)
LegalChange(from, to) ==
    \/ from = "none"
    \/ from = to
    \/ from \in {"pending", "running"} /\ to # "pending"
    \/ from \in {"paused", "paused_for_review"}

(* persistExecutionSnapshot throws, and rolls back, unless every row of    *)
(* the execution may change as the run asks.                               *)
MayPersist(e, w) ==
    /\ LegalChange(snap[e].status, w.status)
    /\ HasRow(e) => /\ LegalChange(snap[e].stage, w.stage)
                    /\ \A s \in Steps : LegalChange(snap[e].steps[s], w.steps[s])

(* upsertExecutionRow writes the lease columns it is given: those of the   *)
(* run, or of the row when the caller merged the row's metrics into the    *)
(* run first (mergeExecutionMetrics).                                      *)
Overwritten(e, w, owner, live) ==
    [snap EXCEPT ![e] = [status |-> w.status, owner |-> owner, live |-> live,
                         stage |-> w.stage, steps |-> w.steps]]
Merged(e, w)    == Overwritten(e, w, snap[e].owner, snap[e].live)
Unleased(e, w)  == Overwritten(e, w, NoProc, FALSE)

(* syncExecutionLeaseTx updates the row if there is one.                   *)
LeaseMirrored(sn, e, owner) ==
    IF sn[e].status = "none" THEN sn
    ELSE [sn EXCEPT ![e].owner = owner, ![e].live = owner # NoProc]

(* Mistaken variant: only the worker on the execution row may release.     *)
MayReleaseLeased(e) == lock.exec = e /\ snap[e].owner = lock.worker

(* releaseExecutionLockTx: the row must name the execution; neither the    *)
(* worker that releases nor an earlier release is looked at.               *)
MayRelease(e) == lock.exec = e
Released(e)   == IF MayRelease(e) THEN [lock EXCEPT !.held = FALSE] ELSE lock

(* applyStageStatuses, for the plan's stage.                               *)
StageAfter(steps) ==
    IF \E s \in Steps : steps[s] = "failed" THEN "failed"
    ELSE IF \A s \in Steps : steps[s] = "completed" THEN "completed"
    ELSE IF \E s \in Steps : steps[s] = "running" THEN "running"
    ELSE IF \E s \in Steps : steps[s] = "paused_for_review" THEN "paused_for_review"
    ELSE "pending"

(* Mistaken variants: a step that begins starts the checkpoint anew; the   *)
(* next index is kept as the last one; a failed step counts as behind; a   *)
(* paused step leaves the checkpoint merely paused.                        *)
CheckpointBeforeAnew(s)   == [NoCheckpoint EXCEPT !.status = "running", !.cur = s]
CheckpointAfterNext(s)    == [status |-> IF s = NumSteps THEN "completed" ELSE "running",
                              cur |-> s + 1, last |-> s + 1]
CheckpointFailedBehind(s) == [ckpt EXCEPT !.status = "failed", !.cur = s, !.last = s]
CheckpointReviewPaused(s) == [ckpt EXCEPT !.status = "paused", !.cur = s]

(* checkpointBeforeStep, checkpointAfterStep, failExecutionCheckpoint and   *)
(* markAwaitingReview of step s.                                           *)
CheckpointBefore(s)  == [ckpt EXCEPT !.status = "running", !.cur = s]
CheckpointAfter(s)   == [status |-> IF s = NumSteps THEN "completed" ELSE "running",
                         cur |-> s + 1, last |-> s]
CheckpointFailed(s)  == [ckpt EXCEPT !.status = "failed", !.cur = s]
CheckpointReview(s)  == [ckpt EXCEPT !.status = "awaiting_review", !.cur = s]

(* Mistaken variant: the step's own status is not looked at.               *)
StepIsOpenUnlessOver(e, s) == snap[e].status \notin TerminalExecution \cup {"none"}

(* getExecutionAndStep: refuse a missing or terminal execution, and a      *)
(* terminal step.                                                          *)
StepIsOpen(e, s) ==
    /\ snap[e].status \notin TerminalExecution \cup {"none"}
    /\ snap[e].steps[s] \notin TerminalStep

-----------------------------------------------------------------------------
(* executionIntegrityStore.js: the execution lock *)

(* Mistaken variant: a lock whose execution has no live lease is taken.    *)
AcquireExecutionLockUnleased(e, p) ==
    /\ lock.held => ~snap[lock.exec].live
    /\ lock' = [exec |-> e, worker |-> p, held |-> TRUE]
    /\ snap' = LeaseMirrored(snap, e, p)
    /\ ledger' = Logged(ledger, e, {"lease"})
    /\ UNCHANGED <<ckpt, attempts, queue>>

AcquireExecutionLock(e, p) ==
    /\ ~lock.held
    /\ lock' = [exec |-> e, worker |-> p, held |-> TRUE]
    /\ snap' = LeaseMirrored(snap, e, p)
    /\ ledger' = Logged(ledger, e, {"lease"})
    /\ UNCHANGED <<ckpt, attempts, queue>>

(* An unreleased lock refuses, whatever its lease says and whoever asks:   *)
(* lease.conflict is logged for the execution that asked.                  *)
AcquireConflict(e) ==
    /\ lock.held
    /\ ledger' = Logged(ledger, e, {"lease"})
    /\ UNCHANGED <<lock, ckpt, snap, attempts, queue>>

(* Recovery and resumption take the lock over from any worker of the same  *)
(* execution.                                                              *)
AcquireOrReuseExecutionLock(e, p) ==
    /\ lock.held => lock.exec = e
    /\ lock' = [exec |-> e, worker |-> p, held |-> TRUE]
    /\ snap' = LeaseMirrored(snap, e, p)
    /\ ledger' = Logged(ledger, e, {"lease"})
    /\ UNCHANGED <<ckpt, attempts, queue>>

AcquireOrReuseConflict(e) == lock.exec # e /\ AcquireConflict(e)

ReleaseExecutionLock(e) ==
    /\ MayRelease(e)
    /\ lock' = Released(e)
    /\ snap' = LeaseMirrored(snap, e, NoProc)
    /\ ledger' = Logged(ledger, e, {"lease"})
    /\ UNCHANGED <<ckpt, attempts, queue>>

(* heartbeatExecutionAttempt renews the attempt's lease if it is running,  *)
(* then the lock's if this worker still holds it for this execution; the   *)
(* attempt stays renewed when the lock is refused.                         *)
HoldsLock(e, p) == lock.held /\ lock.exec = e /\ lock.worker = p

HeartbeatAttempt(e, p, s, n) ==
    /\ n \in DOMAIN attempts[e][s]
    /\ attempts[e][s][n].status = "running"
    /\ attempts' = [attempts EXCEPT ![e][s][n].live = TRUE]
    /\ snap' = IF HoldsLock(e, p) THEN LeaseMirrored(snap, e, p) ELSE snap
    /\ ledger' = IF lock.held THEN Logged(ledger, e, {"lease"}) ELSE ledger
    /\ UNCHANGED <<lock, ckpt, queue>>

-----------------------------------------------------------------------------
(* executionStateStore.js: checkpoint and snapshot *)

(* Mistaken variant: starting writes over the checkpoint that is there.    *)
StartExecutionStateAgain ==
    /\ ckpt' = [NoCheckpoint EXCEPT !.status = "pending"]
    /\ UNCHANGED <<lock, snap, attempts, ledger, queue>>

StartExecutionState ==
    /\ ckpt.status = "none"
    /\ ckpt' = [NoCheckpoint EXCEPT !.status = "pending"]
    /\ UNCHANGED <<lock, snap, attempts, ledger, queue>>

SetCheckpointStatus(st) ==
    /\ ckpt.status # "none"
    /\ ckpt' = [ckpt EXCEPT !.status = st]
    /\ UNCHANGED <<lock, snap, attempts, ledger, queue>>

(* recoverExecutionState closes a checkpoint whose last step is behind it. *)
CompleteCheckpoint ==
    /\ ckpt.last = NumSteps
    /\ ckpt' = [ckpt EXCEPT !.status = "completed", !.cur = NumSteps + 1]
    /\ UNCHANGED <<lock, snap, attempts, ledger, queue>>

(* A whole run is written over the rows of its execution, lease columns    *)
(* and counters included.                                                  *)
PersistExecutionSnapshot(e, w, owner, live) ==
    /\ MayPersist(e, w)
    /\ snap' = Overwritten(e, w, owner, live)
    /\ UNCHANGED <<lock, ckpt, attempts, ledger, queue>>

(* An execution.* or stage.* event appended on its own.                    *)
AppendLedgerEvent(e, kind) ==
    /\ ledger' = Logged(ledger, e, {kind})
    /\ UNCHANGED <<lock, ckpt, snap, attempts, queue>>

(* finalizeExecutionTransition: checkpoint status, ledger event and lock   *)
(* release in one transaction, rolled back when the lock names another     *)
(* execution.  kinds are the events the execution's ledger gains, q the    *)
(* recovery queue afterwards (queueRecoveryReview enqueues in the same     *)
(* transaction).                                                           *)
FinalizeExecutionTransition(e, st, kinds, q) ==
    /\ ckpt.status # "none"
    /\ MayRelease(e)
    /\ ckpt' = [ckpt EXCEPT !.status = st]
    /\ ledger' = Logged(ledger, e, kinds \cup {"lease"})
    /\ lock' = Released(e)
    /\ snap' = LeaseMirrored(snap, e, NoProc)
    /\ queue' = q
    /\ UNCHANGED attempts

(* expireOperatorRecoveryItems resolves the item whose time has passed.    *)
ExpireRecoveryItems ==
    /\ queue = "due"
    /\ queue' = "none"
    /\ UNCHANGED <<lock, ckpt, snap, attempts, ledger>>

-----------------------------------------------------------------------------
(* lifecycleAttemptAtomic.js: one step's attempt *)

RunningSnapshot(e, s) ==
    LET steps == [snap[e].steps EXCEPT ![s] = "running"]
    IN  [status |-> "running", stage |-> StageAfter(steps), steps |-> steps]

(* The engine's checkpoint may only move to step s while the plan has a    *)
(* checkpoint; the lock and the attempts already running are not looked at.*)
MayBegin(e, s) ==
    /\ StepIsOpen(e, s)
    /\ ckpt.status # "none"
    /\ MayPersist(e, RunningSnapshot(e, s))

BeginExecutionAttempt(e, p, s) ==
    /\ MayBegin(e, s)
    /\ Len(attempts[e][s]) < MaxAttempts
    /\ ckpt' = CheckpointBefore(s)
    /\ attempts' = [attempts EXCEPT ![e][s] =
                       Append(@, [status |-> "running", live |-> TRUE, proc |-> p])]
    /\ snap' = Merged(e, RunningSnapshot(e, s))
    /\ UNCHANGED <<lock, ledger, queue>>

(* finalizeAttempt sets the status whatever it was and ends the lease.     *)
AttemptEnded(e, s, n, st) ==
    [attempts EXCEPT ![e][s][n].status = st, ![e][s][n].live = FALSE]

TerminalSnapshot(e, s, st) ==
    [status |-> "running", stage |-> snap[e].stage, steps |-> [snap[e].steps EXCEPT ![s] = st]]

MayEndAttempt(e, s, n, st) ==
    /\ StepIsOpen(e, s)
    /\ n \in DOMAIN attempts[e][s]
    /\ ckpt.status # "none"
    /\ MayPersist(e, TerminalSnapshot(e, s, st))

CompleteExecutionAttempt(e, s, n) ==
    /\ MayEndAttempt(e, s, n, "completed")
    /\ attempts' = AttemptEnded(e, s, n, "completed")
    /\ ckpt' = CheckpointAfter(s)
    /\ snap' = Merged(e, TerminalSnapshot(e, s, "completed"))
    /\ UNCHANGED <<lock, ledger, queue>>

FailExecutionAttempt(e, s, n) ==
    /\ MayEndAttempt(e, s, n, "failed")
    /\ attempts' = AttemptEnded(e, s, n, "failed")
    /\ ckpt' = CheckpointFailed(s)
    /\ snap' = Merged(e, TerminalSnapshot(e, s, "failed"))
    /\ UNCHANGED <<lock, ledger, queue>>

(* Both pauses mark the checkpoint for review at step s, write the run     *)
(* that was paused, log it and release the lock; a lock that is missing or *)
(* names another execution is let be.                                      *)
PausedForReview(e, s, w) ==
    /\ ckpt' = CheckpointReview(s)
    /\ lock' = Released(e)
    /\ snap' = IF MayRelease(e) THEN Unleased(e, w) ELSE Merged(e, w)
    /\ ledger' = Logged(ledger, e, IF MayRelease(e) THEN {"stagePaused", "lease"}
                                   ELSE {"stagePaused"})
    /\ UNCHANGED queue

MayPauseAttempt(e, s, n, w) ==
    /\ StepIsOpen(e, s)
    /\ n \in DOMAIN attempts[e][s]
    /\ ckpt.status # "none"
    /\ MayPersist(e, w)

PauseExecutionAttemptForReview(e, s, n, w) ==
    /\ MayPauseAttempt(e, s, n, w)
    /\ attempts' = AttemptEnded(e, s, n, "cancelled")
    /\ PausedForReview(e, s, w)

(* A pause before the step begins has no attempt and checks no row.        *)
MayPauseBefore(e, w) == ckpt.status # "none" /\ MayPersist(e, w)

PauseBeforeExecutionForReview(e, s, w) ==
    /\ MayPauseBefore(e, w)
    /\ PausedForReview(e, s, w)
    /\ UNCHANGED attempts

-----------------------------------------------------------------------------
(* lifecycleAtomic.js: the whole execution *)

(* finalizeExecution: refuse another terminal status than the row's; any   *)
(* part that fails, the release included, rolls everything back.           *)
MayFinalize(e, w, st) ==
    /\ HasRow(e)
    /\ snap[e].status \in TerminalExecution => snap[e].status = st
    /\ ckpt.status # "none"
    /\ MayPersist(e, w)
    /\ MayRelease(e)

FinalizeExecution(e, w, st) ==
    /\ MayFinalize(e, w, st)
    /\ ckpt' = [ckpt EXCEPT !.status = st]
    /\ snap' = Unleased(e, w)
    /\ ledger' = Logged(ledger, e, {st, "lease"})
    /\ lock' = Released(e)
    /\ UNCHANGED <<attempts, queue>>

(* pauseExecutionForReview holds the whole execution; the checkpoint stays *)
(* at its step.                                                            *)
PauseExecutionForReview(e, w) ==
    /\ MayPauseBefore(e, w)
    /\ ckpt' = [ckpt EXCEPT !.status = "awaiting_review"]
    /\ lock' = Released(e)
    /\ snap' = IF MayRelease(e) THEN Unleased(e, w) ELSE Merged(e, w)
    /\ ledger' = Logged(ledger, e, {"lease"})
    /\ UNCHANGED <<attempts, queue>>

-----------------------------------------------------------------------------
(* The passing of time: leases run out 30 s after they were last renewed,  *)
(* a recovery item is due 24 h after it was queued.                        *)

AttemptLeaseLapses(e, s, n) ==
    /\ n \in DOMAIN attempts[e][s]
    /\ attempts[e][s][n].status = "running" /\ attempts[e][s][n].live
    /\ attempts' = [attempts EXCEPT ![e][s][n].live = FALSE]
    /\ UNCHANGED <<lock, ckpt, snap, ledger, queue>>

ExecutionLeaseLapses(e) ==
    /\ snap[e].live
    /\ snap' = [snap EXCEPT ![e].live = FALSE]
    /\ UNCHANGED <<lock, ckpt, attempts, ledger, queue>>

RecoveryItemDue ==
    /\ queue = "open"
    /\ queue' = "due"
    /\ UNCHANGED <<lock, ckpt, snap, attempts, ledger>>

-----------------------------------------------------------------------------
(* Any process, any transaction, any time: callers write any of Writes     *)
(* over the rows, set any of Marks, append any of Events and end an        *)
(* execution in any of Ends.                                               *)

LockStep(e, p) ==
    \/ AcquireExecutionLock(e, p)
    \/ AcquireConflict(e)      \* AcquireOrReuseConflict(e) is a case of it
    \/ AcquireOrReuseExecutionLock(e, p)
    \/ ReleaseExecutionLock(e)

AttemptStep(e, p, s, Writes) ==
    \/ BeginExecutionAttempt(e, p, s)
    \/ \E n \in DOMAIN attempts[e][s] :
          \/ HeartbeatAttempt(e, p, s, n)
          \/ CompleteExecutionAttempt(e, s, n)
          \/ FailExecutionAttempt(e, s, n)
          \/ AttemptLeaseLapses(e, s, n)
          \/ \E w \in Writes : PauseExecutionAttemptForReview(e, s, n, w)

CheckpointStep(e, Marks, Events) ==
    \/ StartExecutionState
    \/ \E st \in Marks : SetCheckpointStatus(st)
    \/ CompleteCheckpoint
    \/ \E kind \in Events : AppendLedgerEvent(e, kind)
    \/ \E st \in Marks, kind \in Events, q \in {"none", "open"} :
          FinalizeExecutionTransition(e, st, {kind}, q)
    \/ ExecutionLeaseLapses(e)

RunStep(e, Writes, Ends) ==
    \E w \in Writes :
      \/ \E p \in Procs \cup {NoProc}, live \in BOOLEAN : PersistExecutionSnapshot(e, w, p, live)
      \/ \E s \in Steps : PauseBeforeExecutionForReview(e, s, w)
      \/ \E st \in Ends : FinalizeExecution(e, w, st)
      \/ PauseExecutionForReview(e, w)

QueueStep == ExpireRecoveryItems \/ RecoveryItemDue

StoreStep(Writes, Marks, Events, Ends) ==
    \/ QueueStep
    \/ \E e \in Execs :
         \/ CheckpointStep(e, Marks, Events)
         \/ \E p \in Procs : LockStep(e, p) \/ \E s \in Steps : AttemptStep(e, p, s, Writes)
         \/ RunStep(e, Writes, Ends)

StoreNext == StoreStep(Write, CheckpointStatuses, Kinds, {"completed", "failed"})

StoreSpec == StoreInit /\ [][StoreNext]_storeVars

-----------------------------------------------------------------------------
(* What the transactions promise whoever calls them, in whatever order.    *)

CompletedAttempts(e, s) == {n \in DOMAIN attempts[e][s] : attempts[e][s][n].status = "completed"}
IsCompleted(e, s)       == CompletedAttempts(e, s) # {}

(* No step of an execution is recorded as completed twice: two workers     *)
(* that both hold a running attempt of it cannot both complete.  Rests on  *)
(* getExecutionAndStep refusing terminal steps and on the transition table *)
(* of persistExecutionSnapshot, which keeps a completed step completed.    *)
AtMostOneCompletion ==
    \A e \in Execs, s \in Steps :
      \A m, n \in CompletedAttempts(e, s) : m = n

(* The checkpoint's lastCompletedStepIndex points at a step that some      *)
(* execution really completed: checkpoint and attempt are written in one   *)
(* transaction by finalizeExecutionAttemptAtomic, and nothing else moves   *)
(* the index.                                                              *)
LastStepIsCompleted == ckpt.last > 0 => \E e \in Execs : IsCompleted(e, ckpt.last)

(* The rows of an execution never lose a completion that its attempts      *)
(* record: a stale run that would write an older status over the step is   *)
(* refused by the transition table, whichever caller carries it.           *)
CompletionInRows ==
    \A e \in Execs, s \in Steps :
      IsCompleted(e, s) => HasRow(e) /\ snap[e].steps[s] = "completed"

(* Once an attempt of a step has completed it stays so, and no further     *)
(* attempt of the step begins, however many recoveries, reviews and stale  *)
(* workers follow.                                                         *)
CompletedIsSettled ==
    [][\A e \in Execs, s \in Steps :
         IsCompleted(e, s) => /\ DOMAIN attempts'[e][s] = DOMAIN attempts[e][s]
                              /\ CompletedAttempts(e, s)' = CompletedAttempts(e, s)]_storeVars

=============================================================================
