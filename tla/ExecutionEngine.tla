--------------------------- MODULE ExecutionEngine ---------------------------
(***************************************************************************)
(* services/executionEngine.js: execute, recoverExecution and              *)
(* resumeExecution of one plan with one stage, run by several calls in     *)
(* several operating-system processes over the store of ExecutionStore.    *)
(*                                                                         *)
(* A call is a program counter and the in-memory run it carries.  One step *)
(* of a call is one transaction of the store, or one read that the call    *)
(* acts on later.  Node runs one call of a process at a time and leaves it *)
(* only where it awaits the tool; processes interleave freely and may      *)
(* crash between any two steps.                                            *)
(***************************************************************************)
EXTENDS ExecutionReconciliation

CONSTANTS
    Calls,      \* calls made of the engine
    Op,         \* [Calls -> {"execute", "recover", "approve", "reject"}]
    ProcOf,     \* [Calls -> Procs]
    ExecOf,     \* [Calls -> Execs]: the execution id the caller names
    Behaviour,  \* [Steps -> SUBSET Behaviours]: what a step may turn out to do
    Idempotent, \* steps whose metadata says they may be repeated
    Admission,  \* SUBSET Admissions: what may become of a staged run
    CanCrash,   \* processes that may crash
    Stalls,     \* processes that may fail to renew a lease in time
    CarefulRecovery, \* recovery is called only once the workers are gone
    ItemsExpire \* whether the 24 h of a recovery item may pass

(* What a step may do: succeed, report an error, ask for review, throw or  *)
(* time out; need a review before it starts; be blocked by capabilities.   *)
Behaviours == {"ok", "error", "asks", "throws", "reviewed", "blocked"}
Outcomes   == {"ok", "error", "asks", "throws"}

(* What becomes of a staged run: it runs, is held for approval (anomalies, *)
(* confirm_required with a safe rewrite, safe mode, throttling), is set    *)
(* aside (simulate, blocked or unauthorized mode), or has its steps        *)
(* blocked (confirm_required without a safe rewrite).                      *)
Admissions == {"runs", "held", "aside", "barred"}

ASSUME CallsAssumption ==
    /\ Op \in [Calls -> {"execute", "recover", "approve", "reject"}]
    /\ ProcOf \in [Calls -> Procs]
    /\ ExecOf \in [Calls -> Execs]
    /\ Behaviour \in [Steps -> SUBSET Behaviours]
    /\ Idempotent \subseteq Steps /\ CanCrash \subseteq Procs /\ Stalls \subseteq Procs
    /\ Admission \subseteq Admissions
    /\ {CarefulRecovery, ItemsExpire} \subseteq BOOLEAN

VARIABLES
    pc,      \* where each call is
    run,     \* the run object each call carries
    target,  \* the execution id each call works for
    out,     \* how each call ended
    crashed  \* processes that are gone

callVars == <<pc, run, target, out, crashed>>
vars == <<storeVars, callVars>>

-----------------------------------------------------------------------------
(* The in-memory run: globalState, reviewStatus, stage and step statuses   *)
(* and the lease columns it was hydrated with; the step a review has       *)
(* acknowledged; the step and attempt in hand and what its heartbeats      *)
(* found; the lock a failed integrity check saw; the checkpoint a recovery *)
(* goes on from.                                                           *)
StagedRun == [gs |-> "paused", rv |-> "approved", stage |-> "pending",
              steps |-> [s \in Steps |-> "pending"],
              acked |-> 0, step |-> 0, n |-> 0, lost |-> FALSE,
              owner |-> NoProc, live |-> FALSE, seen |-> NoExec, from |-> NoCheckpoint]

(* normalizeExecutionStatus                                                *)
StatusOf(m) ==
    IF m.gs = "running" THEN "running"
    ELSE IF \E s \in Steps : m.steps[s] = "failed" THEN "failed"
    ELSE IF \A s \in Steps : m.steps[s] = "completed" THEN "completed"
    ELSE IF m.rv = "pending" THEN "paused_for_review"
    ELSE IF m.gs = "paused" THEN "paused"
    ELSE "pending"

WriteOf(m) == [status |-> StatusOf(m), stage |-> m.stage, steps |-> m.steps]

(* Mistaken variant: the persisted status is the run's state as it is.     *)
GlobalStateAsStored(status) == status

(* hydrateRunFromPersistedState of the rows of execution e                 *)
GlobalStateOf(status) ==
    CASE status = "running" -> "running"
      [] status \in {"paused", "paused_for_review"} -> "paused"
      [] status = "completed" -> "idle"
      [] OTHER -> "error"

HydratedRun(e) ==
    [StagedRun EXCEPT !.gs = GlobalStateOf(snap[e].status),
                      !.rv = IF snap[e].status = "paused_for_review" THEN "pending" ELSE "approved",
                      !.stage = snap[e].stage,
                      !.steps = snap[e].steps,
                      !.owner = snap[e].owner, !.live = snap[e].live]

Points == {"idle", "corrupt", "corruptLog", "doubt", "doubtLog", "validate", "reconcile",
           "start", "stage", "created", "launch", "started", "stageRun", "stageLog", "step",
           "refusedBegin", "markRunning", "tool", "complete",
           "markCompleted", "fail", "markFailed", "failThrown", "markThrown", "markPaused",
           "stagePaused", "pause", "stageFailed", "stageFailedLog", "finalizeFailed",
           "stageDoneLog", "finalize", "reuse", "recoverState", "restage", "rehydrate",
           "decide", "rejectLog", "rejectFailed", "release", "done", "dead"}
Results == {"none", "completed", "failed", "paused", "refused", "thrown", "rejected"}

Run == [gs : {"paused", "running", "idle", "error"}, rv : {"approved", "pending"},
        stage : StageStatuses, steps : [Steps -> StepStatuses],
        acked : 0..NumSteps, step : 0..NumSteps, n : 0..MaxAttempts, lost : BOOLEAN,
        owner : Procs \cup {NoProc}, live : BOOLEAN, seen : Execs \cup {NoExec},
        from : Checkpoint]

EngineTypeOK ==
    /\ pc \in [Calls -> Points]
    /\ run \in [Calls -> Run]
    /\ target \in [Calls -> Execs]
    /\ out \in [Calls -> Results]
    /\ crashed \subseteq Procs

EngineInit ==
    /\ StoreInit
    /\ pc = [c \in Calls |-> "idle"]
    /\ run = [c \in Calls |-> StagedRun]
    /\ target = ExecOf
    /\ out = [c \in Calls |-> "none"]
    /\ crashed = {}

-----------------------------------------------------------------------------
(* Moves of a call *)

(* Mistaken variant: the store is awaited, so calls interleave anywhere.   *)
AwayAtEveryStep == Points

Away == {"idle", "tool", "done", "dead"}   \* not on its process's stack

At(c, l) ==
    /\ pc[c] = l
    /\ ProcOf[c] \notin crashed
    /\ \A d \in Calls \ {c} : ProcOf[d] = ProcOf[c] => pc[d] \in Away

Carry(c, l, m, e) ==
    /\ pc' = [pc EXCEPT ![c] = l]
    /\ run' = [run EXCEPT ![c] = m]
    /\ target' = [target EXCEPT ![c] = e]
    /\ UNCHANGED <<out, crashed>>
GoWith(c, l, m) == Carry(c, l, m, target[c])
Go(c, l) == GoWith(c, l, run[c])

End(c, result) ==
    /\ pc' = [pc EXCEPT ![c] = "done"]
    /\ run' = [run EXCEPT ![c] = StagedRun]
    /\ out' = [out EXCEPT ![c] = result]
    /\ UNCHANGED <<target, crashed>>

(* Mistaken variant: the run is written whatever its rows say by then.     *)
SavesAnyway(c, m) ==
    /\ snap' = Overwritten(target[c], WriteOf(m), m.owner, m.live)
    /\ UNCHANGED <<lock, ckpt, attempts, ledger, queue>>

(* appendExecutionLog persists the run it is given, or throws.             *)
Saves(c, m)       == PersistExecutionSnapshot(target[c], WriteOf(m), m.owner, m.live)
Persists(c, m, l) == Saves(c, m) /\ GoWith(c, l, m)
Throws(c, m)      == ~MayPersist(target[c], WriteOf(m)) /\ UNCHANGED storeVars

PersistOrEnd(c, m, l)      == Persists(c, m, l) \/ (Throws(c, m) /\ End(c, "thrown"))
PersistOrCatch(c, m, l, k) == Persists(c, m, l) \/ (Throws(c, m) /\ Go(c, k))

Emits(c, kind, l) == AppendLedgerEvent(target[c], kind) /\ Go(c, l)

-----------------------------------------------------------------------------
(* execute, up to the loop *)

ExecuteAcquire(c) ==
    /\ Op[c] = "execute" /\ At(c, "idle")
    /\ \/ AcquireExecutionLock(target[c], ProcOf[c]) /\ Go(c, "validate")
       \/ AcquireConflict(target[c]) /\ End(c, "refused")

(* On an issue validateExecutionIntegrity marks the checkpoint corrupted,  *)
(* whatever it is by then, and logs it for the execution whose lock it     *)
(* saw; a plan without a checkpoint is only refused.  "corrupt" is the     *)
(* check under the lock, "doubt" the one of the preflight.                 *)
Distrust(c, l) ==
    GoWith(c, l, [run[c] EXCEPT !.seen = IF lock.held THEN lock.exec ELSE NoExec])

DistrustHolder(c) == Distrust(c, IF ckpt.status = "none" THEN "release" ELSE "corrupt")

Corrupt(c) ==
    /\ At(c, "corrupt") /\ SetCheckpointStatus("corrupted")
    /\ Go(c, IF run[c].seen = NoExec THEN "release" ELSE "corruptLog")
CorruptLog(c) ==
    At(c, "corruptLog") /\ AppendLedgerEvent(run[c].seen, "corrupted") /\ Go(c, "release")

Doubt(c) ==
    /\ At(c, "doubt") /\ SetCheckpointStatus("corrupted")
    /\ IF run[c].seen = NoExec THEN End(c, "refused") ELSE Go(c, "doubtLog")
DoubtLog(c) ==
    At(c, "doubtLog") /\ AppendLedgerEvent(run[c].seen, "corrupted") /\ End(c, "refused")

Validate(c) ==
    /\ At(c, "validate")
    /\ \/ IntegrityHolds /\ Go(c, "reconcile")
       \/ IntegrityFails /\ DistrustHolder(c)

(* execute goes on to start whatever a successful reconciliation decided;  *)
(* recoverExecution stops, and keeps the lock when it found a live lease.  *)
Reconcile(c) ==
    /\ At(c, "reconcile")
    /\ \/ ReconcileResume /\ Go(c, IF Op[c] = "execute" THEN "start" ELSE "recoverState")
       \/ /\ ReconcileToOperator \/ ReconcileNoop \/ Abandon
          /\ IF Op[c] = "execute" THEN Go(c, "start") ELSE End(c, "refused")
       \/ ReconcileUnlocked /\ Go(c, "release")
       \/ ReconcileFails /\ DistrustHolder(c)

Start(c) ==
    /\ At(c, "start")
    /\ \/ StartExecutionState /\ Go(c, "stage")
       \/ ckpt.status # "none" /\ UNCHANGED storeVars /\ Go(c, "release")

Stage(c) == At(c, "stage") /\ PersistOrEnd(c, StagedRun, "created")

Created(c) == At(c, "created") /\ Emits(c, "created", "launch")

(* Only a held run gives its lock back; set aside or barred, it keeps it.  *)
Held(m)   == [m EXCEPT !.gs = "paused", !.rv = "pending"]
Barred(m) == [m EXCEPT !.steps = [s \in Steps |-> "failed"]]

Launch(c) ==
    /\ At(c, "launch")
    /\ \/ /\ "runs" \in Admission
          /\ PersistOrEnd(c, [run[c] EXCEPT !.gs = "running"], "started")
       \/ /\ "held" \in Admission
          /\ PauseExecutionForReview(target[c], WriteOf(Held(run[c])))
          /\ End(c, "paused")
       \/ "aside" \in Admission /\ UNCHANGED storeVars /\ End(c, "refused")
       \/ "barred" \in Admission /\ Saves(c, Barred(run[c])) /\ End(c, "refused")

Started(c) == At(c, "started") /\ Emits(c, "started", "stageRun")

-----------------------------------------------------------------------------
(* continueExecution: the stage and its steps *)

(* Every call comes here with a stage that is still open: staged anew,     *)
(* rewritten from the checkpoint, or reopened by an approval.  The loop's  *)
(* branches for a finished stage are never taken.                          *)
StageRun(c) ==
    At(c, "stageRun") /\ PersistOrEnd(c, [run[c] EXCEPT !.stage = "running"], "stageLog")

StageLog(c) == At(c, "stageLog") /\ Emits(c, "stageStarted", "step")

Pending(m) == {s \in Steps : m.steps[s] \notin {"completed", "failed"}}

IsNext(m, s) == s \in Pending(m) /\ \A t \in Pending(m) : s <= t

(* prepareStepForReview stops a step that must be reviewed first.          *)
ReviewFirst(m, s) == "reviewed" \in Behaviour[s] /\ m.acked # s

Marked(m, s, st) == [m EXCEPT !.steps[s] = st]
InHand(c) == run[c].step
MarkedInHand(c, st) == Marked(run[c], InHand(c), st)

StageDone(c) ==
    /\ At(c, "step") /\ Pending(run[c]) = {}
    /\ PersistOrEnd(c, [run[c] EXCEPT !.stage = "completed"], "stageDoneLog")

PauseBefore(c) ==
    /\ At(c, "step")
    /\ \E s \in Steps :
         /\ IsNext(run[c], s) /\ ReviewFirst(run[c], s)
         /\ LET w == WriteOf([Held(Marked(run[c], s, "paused_for_review"))
                                EXCEPT !.stage = "paused_for_review"])
            IN  \/ PauseBeforeExecutionForReview(target[c], s, w) /\ End(c, "paused")
                \/ ~MayPauseBefore(target[c], w) /\ UNCHANGED storeVars /\ End(c, "failed")

(* The rules that block a step are loaded anew for each step.              *)
BlockStep(c) ==
    /\ At(c, "step")
    /\ \E s \in Steps :
         /\ IsNext(run[c], s) /\ ~ReviewFirst(run[c], s) /\ "blocked" \in Behaviour[s]
         /\ PersistOrEnd(c, Marked(run[c], s, "failed"), "stageFailed")

Begin(c) ==
    /\ At(c, "step")
    /\ \E s \in Steps :
         /\ IsNext(run[c], s) /\ ~ReviewFirst(run[c], s) /\ Behaviour[s] # {"blocked"}
         /\ \/ /\ BeginExecutionAttempt(target[c], ProcOf[c], s)
               /\ GoWith(c, "markRunning",
                         [run[c] EXCEPT !.step = s, !.n = Len(attempts[target[c]][s]) + 1,
                                        !.lost = FALSE])
            \/ /\ ~MayBegin(target[c], s) /\ UNCHANGED storeVars
               /\ GoWith(c, "refusedBegin", [run[c] EXCEPT !.step = s])

RefusedBegin(c) ==
    At(c, "refusedBegin") /\ PersistOrEnd(c, MarkedInHand(c, "failed"), "stageFailed")

MarkRunning(c) ==
    At(c, "markRunning") /\ PersistOrEnd(c, MarkedInHand(c, "running"), "tool")

(* The interval timer of startAttemptHeartbeat, while the tool is awaited. *)
Heartbeat(c) ==
    /\ At(c, "tool")
    /\ LET e == target[c]  s == InHand(c)  n == run[c].n
           renewed == attempts[e][s][n].status = "running"
       IN  /\ IF renewed THEN HeartbeatAttempt(e, ProcOf[c], s, n) ELSE UNCHANGED storeVars
           /\ GoWith(c, "tool", [run[c] EXCEPT !.lost =
                                   @ \/ ~renewed \/ ~HoldsLock(e, ProcOf[c])])

(* getLeaseLossSignal: a failed heartbeat, a lock that is no longer this   *)
(* worker's, or a lease on the execution row that is not this worker's or  *)
(* has run out; a row without a lease owner passes.                        *)
LeaseLost(c) ==
    LET row == snap[target[c]]
    IN  \/ run[c].lost
        \/ ~HoldsLock(target[c], ProcOf[c])
        \/ row.owner # NoProc /\ (row.owner # ProcOf[c] \/ ~row.live)

(* The tool returns and the lease is checked, then the result is written   *)
(* in a later transaction; an exception or a timeout skips the check.      *)
ToolReturns(c, outcome) ==
    /\ At(c, "tool") /\ outcome \in Behaviour[InHand(c)] /\ outcome \in Outcomes
    /\ UNCHANGED storeVars
    /\ Go(c, IF outcome = "throws" THEN "failThrown"
             ELSE IF LeaseLost(c) \/ outcome = "asks" THEN "markPaused"
             ELSE IF outcome = "ok" THEN "complete"
             ELSE "fail")

(* A write that is refused ends the call; it releases the lock unless its  *)
(* run is still under review (shouldReleaseExecutionLock).                 *)
GiveUp(c, m) ==
    /\ UNCHANGED storeVars
    /\ IF m.rv = "pending" THEN End(c, "failed") ELSE Go(c, "release")

Complete(c) ==
    /\ At(c, "complete")
    /\ \/ CompleteExecutionAttempt(target[c], InHand(c), run[c].n) /\ Go(c, "markCompleted")
       \/ /\ ~MayEndAttempt(target[c], InHand(c), run[c].n, "completed")
          /\ GiveUp(c, run[c])

(* Inside the try block: an exception lands in the catch, which fails the  *)
(* attempt once more.                                                      *)
MarkCompleted(c) ==
    At(c, "markCompleted") /\ PersistOrCatch(c, MarkedInHand(c, "completed"), "step", "failThrown")

(* Mistaken variant: a failure that cannot be written repeats the tool.    *)
FailRetries(c, l, k) ==
    /\ At(c, l)
    /\ \/ FailExecutionAttempt(target[c], InHand(c), run[c].n) /\ Go(c, k)
       \/ /\ ~MayEndAttempt(target[c], InHand(c), run[c].n, "failed")
          /\ UNCHANGED storeVars /\ Go(c, "tool")

Fail(c, l, k) ==
    /\ At(c, l)
    /\ \/ FailExecutionAttempt(target[c], InHand(c), run[c].n) /\ Go(c, k)
       \/ /\ ~MayEndAttempt(target[c], InHand(c), run[c].n, "failed")
          /\ GiveUp(c, run[c])

FailReported(c) == Fail(c, "fail", "markFailed")
FailThrown(c)   == Fail(c, "failThrown", "markThrown")

MarkFailed(c) ==
    At(c, "markFailed") /\ PersistOrCatch(c, MarkedInHand(c, "failed"), "stageFailed", "failThrown")
MarkThrown(c) ==
    At(c, "markThrown") /\ PersistOrEnd(c, MarkedInHand(c, "failed"), "stageFailed")

MarkPaused(c) ==
    At(c, "markPaused")
    /\ PersistOrCatch(c, MarkedInHand(c, "paused_for_review"), "stagePaused", "failThrown")
StagePaused(c) ==
    At(c, "stagePaused") /\ PersistOrEnd(c, [run[c] EXCEPT !.stage = "paused_for_review"], "pause")

(* A refused pause leaves the run under review, and the lock held.         *)
Pause(c) ==
    /\ At(c, "pause")
    /\ LET w == WriteOf(Held(run[c]))
       IN  \/ /\ PauseExecutionAttemptForReview(target[c], InHand(c), run[c].n, w)
              /\ End(c, "paused")
           \/ /\ ~MayPauseAttempt(target[c], InHand(c), run[c].n, w)
              /\ GiveUp(c, Held(run[c]))

StageFailed(c) ==
    At(c, "stageFailed") /\ PersistOrEnd(c, [run[c] EXCEPT !.stage = "failed"], "stageFailedLog")
StageFailedLog(c) == At(c, "stageFailedLog") /\ Emits(c, "stageEnded", "finalizeFailed")
StageDoneLog(c)   == At(c, "stageDoneLog") /\ Emits(c, "stageEnded", "finalize")

Finalized(c, l, m, st) ==
    /\ At(c, l)
    /\ \/ FinalizeExecution(target[c], WriteOf(m), st) /\ End(c, st)
       \/ ~MayFinalize(target[c], WriteOf(m), st) /\ GiveUp(c, m)

Finalize(c) ==
    Finalized(c, "finalize", [run[c] EXCEPT !.gs = "idle", !.rv = "approved"], "completed")
FinalizeFailed(c) ==
    Finalized(c, "finalizeFailed", [run[c] EXCEPT !.gs = "error"], "failed")

Release(c) ==
    /\ At(c, "release")
    /\ \/ ReleaseExecutionLock(target[c])
       \/ ~MayRelease(target[c]) /\ UNCHANGED storeVars
    /\ End(c, "refused")

-----------------------------------------------------------------------------
(* recoverExecution, up to the loop *)

WorkersGone(c) == \A d \in Calls \ {c} : pc[d] \in {"idle", "done", "dead"}

(* The rows that getLatestPersistedExecutionState finds, read now and used *)
(* after the lock is taken.                                                *)
PersistedRun == IF \E d \in Execs : Resumable(d)
                THEN HydratedRun(CHOOSE d \in Execs : Resumable(d)) ELSE StagedRun

Preflight(c) ==
    /\ Op[c] = "recover" /\ At(c, "idle")
    /\ CarefulRecovery => WorkersGone(c)
    /\ LET e == RecoveryTarget(target[c])
       IN  \/ PreflightAllows(e) /\ Carry(c, "reuse", PersistedRun, e)
           \/ PreflightFails(e) /\ Distrust(c, "doubt")
           \/ PreflightRefuses(e) /\ End(c, "refused")

Reuse(c) ==
    /\ At(c, "reuse")
    /\ \/ /\ AcquireOrReuseExecutionLock(target[c], ProcOf[c])
          /\ Go(c, IF Op[c] = "recover" THEN "validate" ELSE "decide")
       \/ AcquireOrReuseConflict(target[c]) /\ End(c, "refused")

(* recoverExecutionState: what the checkpoint allows.  A step that was     *)
(* running may go on only if it is idempotent.                             *)
InterruptedUnsafe == ckpt.status = "running" /\ ckpt.cur \notin Idempotent

RecoverState(c) ==
    /\ At(c, "recoverState")
    /\ \/ CompleteCheckpoint /\ Go(c, "release")
       \/ /\ ckpt.last # NumSteps
          /\ \/ /\ InterruptedUnsafe
                /\ SetCheckpointStatus("awaiting_review") /\ Go(c, "release")
             \/ /\ ckpt.status \in {"none", "completed", "failed"}
                /\ UNCHANGED storeVars /\ Go(c, "release")
             \/ /\ ckpt.status \notin {"none", "completed", "failed"} /\ ~InterruptedUnsafe
                /\ UNCHANGED storeVars
                /\ GoWith(c, "restage", [run[c] EXCEPT !.from = ckpt])

(* createStagedRun writes the recovered plan over the rows, with the step  *)
(* statuses the preflight read and no lease; applyCheckpointToRun then     *)
(* rewrites the hydrated run from the checkpoint.  From there on the run   *)
(* is neither running nor under review.                                    *)
Restage(c) ==
    /\ At(c, "restage")
    /\ LET m == [run[c] EXCEPT !.gs = "paused", !.owner = NoProc, !.live = FALSE]
       IN  \/ Saves(c, m) /\ Go(c, "rehydrate")
           \/ Throws(c, m) /\ End(c, "thrown")

(* Mistaken variant: the step the checkpoint stands at counts as behind.   *)
CheckpointedRunAhead(m) ==
    [m EXCEPT !.steps = [s \in Steps |-> IF s <= m.from.cur THEN "completed" ELSE "pending"],
              !.stage = IF m.from.status = "running" THEN "running" ELSE "pending",
              !.from = NoCheckpoint]

CheckpointedRun(m) ==
    [m EXCEPT !.steps = [s \in Steps |-> IF s <= m.from.last THEN "completed" ELSE "pending"],
              !.stage = IF m.from.status = "running" THEN "running" ELSE "pending",
              !.from = NoCheckpoint]

Rehydrate(c) ==
    /\ At(c, "rehydrate")
    /\ LET m == CheckpointedRun(run[c])
           rv == IF run[c].from.status = "awaiting_review" THEN "pending" ELSE "approved"
       IN  \/ Saves(c, m) /\ GoWith(c, "stageRun", [m EXCEPT !.gs = "paused", !.rv = rv])
           \/ Throws(c, m) /\ End(c, "thrown")

-----------------------------------------------------------------------------
(* resumeExecution: an operator's decision on a step paused for review.    *)
(* Neither the checkpoint nor the integrity of the store is looked at.     *)

PausedSteps(m)    == {s \in Steps : m.steps[s] = "paused_for_review"}
UnderReview(m, s) == s \in PausedSteps(m) /\ \A t \in PausedSteps(m) : s <= t

MayResume(c) ==
    LET row == snap[target[c]]
    IN  /\ row.status \in {"paused", "paused_for_review"}
        /\ row.stage \in {"running", "paused_for_review", "pending"}
        /\ PausedSteps(row) # {}
        /\ ~(row.owner # NoProc /\ row.live)

Resume(c) ==
    /\ Op[c] \in {"approve", "reject"} /\ At(c, "idle") /\ MayResume(c)
    /\ UNCHANGED storeVars
    /\ GoWith(c, "reuse", HydratedRun(target[c]))

Approve(c) ==
    /\ Op[c] = "approve" /\ At(c, "decide")
    /\ \E s \in Steps :
         /\ UnderReview(run[c], s)
         /\ PersistOrEnd(c, [Marked(run[c], s, "pending")
                               EXCEPT !.gs = "running", !.rv = "approved",
                                      !.stage = "running", !.acked = s], "stageRun")

(* A rejection fails the rows and the ledger, and neither the checkpoint   *)
(* nor the lock.                                                           *)
Reject(c) ==
    /\ Op[c] = "reject" /\ At(c, "decide")
    /\ \E s \in Steps :
         /\ UnderReview(run[c], s)
         /\ PersistOrEnd(c, [Marked(run[c], s, "failed") EXCEPT !.stage = "failed"], "rejectLog")
RejectLog(c) == At(c, "rejectLog") /\ Emits(c, "stageEnded", "rejectFailed")
RejectFailed(c) ==
    At(c, "rejectFailed") /\ AppendLedgerEvent(target[c], "failed") /\ End(c, "rejected")

-----------------------------------------------------------------------------
(* The environment *)

(* A crash takes every call of the process and its memory with it.         *)
Crash(p) ==
    LET lost == {c \in Calls : ProcOf[c] = p /\ pc[c] # "done"}
    IN  /\ p \in CanCrash \ crashed
        /\ \E c \in lost : pc[c] # "idle"
        /\ crashed' = crashed \cup {p}
        /\ pc' = [c \in Calls |-> IF c \in lost THEN "dead" ELSE pc[c]]
        /\ run' = [c \in Calls |-> IF c \in lost THEN StagedRun ELSE run[c]]
        /\ UNCHANGED <<target, out, storeVars>>

(* A lease runs out once nobody renews it: its process is gone, stalls, or *)
(* has no call at work.                                                    *)
Unattended(p) ==
    \/ p \in crashed \cup Stalls
    \/ \A c \in Calls : ProcOf[c] = p => pc[c] \in {"idle", "done", "dead"}

AttemptLapse ==
    /\ \E e \in Execs, s \in Steps : \E n \in DOMAIN attempts[e][s] :
          Unattended(attempts[e][s][n].proc) /\ AttemptLeaseLapses(e, s, n)
    /\ UNCHANGED callVars

(* A run hydrated earlier carries an expiry no later than the row's.       *)
RowLapse ==
    /\ \E e \in Execs :
          /\ Unattended(snap[e].owner)
          /\ ExecutionLeaseLapses(e)
          /\ run' = [c \in Calls |-> IF run[c].owner = snap[e].owner
                                     THEN [run[c] EXCEPT !.live = FALSE] ELSE run[c]]
    /\ UNCHANGED <<pc, target, out, crashed>>

CarriedLapse ==
    /\ \E c \in Calls :
          /\ run[c].live /\ Unattended(run[c].owner)
          /\ run' = [run EXCEPT ![c].live = FALSE]
    /\ UNCHANGED <<storeVars, pc, target, out, crashed>>

LeaseLapse == AttemptLapse \/ RowLapse \/ CarriedLapse

ItemDue == ItemsExpire /\ RecoveryItemDue /\ UNCHANGED callVars

Opening(c) ==
    \/ ExecuteAcquire(c) \/ Corrupt(c) \/ CorruptLog(c) \/ Doubt(c) \/ DoubtLog(c)
    \/ Validate(c) \/ Reconcile(c) \/ Start(c) \/ Stage(c) \/ Created(c)
    \/ Launch(c) \/ Started(c)
    \/ Preflight(c) \/ Reuse(c) \/ RecoverState(c) \/ Restage(c) \/ Rehydrate(c)
    \/ Resume(c) \/ Approve(c) \/ Reject(c) \/ RejectLog(c) \/ RejectFailed(c)

Looping(c) ==
    \/ StageRun(c) \/ StageLog(c) \/ StageDone(c) \/ PauseBefore(c) \/ BlockStep(c) \/ Begin(c)
    \/ RefusedBegin(c) \/ MarkRunning(c) \/ (\E o \in Outcomes : ToolReturns(c, o))
    \/ Complete(c) \/ MarkCompleted(c) \/ FailReported(c) \/ FailThrown(c) \/ MarkFailed(c)
    \/ MarkThrown(c) \/ MarkPaused(c) \/ StagePaused(c) \/ Pause(c)

Closing(c) ==
    \/ StageFailed(c) \/ StageFailedLog(c) \/ StageDoneLog(c) \/ Finalize(c) \/ FinalizeFailed(c)
    \/ Release(c)

CallStep(c) == Opening(c) \/ Looping(c) \/ Closing(c)

EngineNext ==
    \/ \E c \in Calls : CallStep(c) \/ Heartbeat(c)
    \/ \E p \in Procs : Crash(p)
    \/ LeaseLapse
    \/ ItemDue

EngineSpec == EngineInit /\ [][EngineNext]_vars

=============================================================================
