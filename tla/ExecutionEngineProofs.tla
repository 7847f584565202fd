------------------------ MODULE ExecutionEngineProofs ------------------------
(***************************************************************************)
(* Every step of every call of ExecutionEngine is one transaction of       *)
(* ExecutionStore or leaves the store alone, for any calls, processes,     *)
(* executions and steps, so that the theorems about the store are theorems *)
(* about the engine.                                                       *)
(***************************************************************************)
EXTENDS ExecutionEngine, ExecutionStoreProofs

(* Points at which a call has a step in hand, and those at which it is to  *)
(* report a failed check to the execution whose lock it saw.               *)
InHandPoints == {"refusedBegin", "markRunning", "tool", "complete", "markCompleted", "fail",
                 "markFailed", "failThrown", "markThrown", "markPaused", "stagePaused", "pause"}
ReportPoints == {"corruptLog", "doubtLog"}

Sound(l, m) ==
    /\ l \in InHandPoints => m.step \in Steps
    /\ l \in ReportPoints => m.seen \in Execs

CallsSound == \A c \in Calls : Sound(pc[c], run[c])

(* An unreleased lock names the execution that it was taken for.           *)
LockNamed == lock.held => lock.exec \in Execs

EngineInv == TypeOK /\ EngineTypeOK /\ LockNamed /\ CallsSound

(* The transactions that the engine makes: it writes no execution off as   *)
(* cancelled, marks a checkpoint on its own account only for review, for   *)
(* the operator, as abandoned or as corrupted, and pauses before a step    *)
(* only a run that has that step paused.                                   *)
EngineWrite == {w \in Write : w.status # "cancelled"}
EngineMarks == {"awaiting_review", "pause_for_operator_recovery", "execution_abandoned", "corrupted"}
EngineRun(e) ==
    \E w \in EngineWrite :
      \/ \E p \in Procs \cup {NoProc}, live \in BOOLEAN : PersistExecutionSnapshot(e, w, p, live)
      \/ \E s \in Steps : /\ w.steps[s] = "paused_for_review"
                          /\ PauseBeforeExecutionForReview(e, s, w)
      \/ \E st \in {"completed", "failed"} : FinalizeExecution(e, w, st)
      \/ PauseExecutionForReview(e, w)
EngineStore ==
    \/ QueueStep
    \/ \E e \in Execs :
         \/ CheckpointStep(e, EngineMarks, Kinds)
         \/ \E p \in Procs : LockStep(e, p) \/ \E s \in Steps : AttemptStep(e, p, s, EngineWrite)
         \/ EngineRun(e)

(* What a step does to the store, and to the call that takes it.           *)
Simulates == EngineStore \/ UNCHANGED storeVars
Moves(c) ==
    \/ \E l \in Points, m \in Run, e \in Execs : Sound(l, m) /\ Carry(c, l, m, e)
    \/ \E r \in Results : End(c, r)

-----------------------------------------------------------------------------
(* Runs and what is written of them. *)

(* The staged run, and the runs that the engine makes of others.           *)
LEMMA StagedType == StagedRun \in Run
BY StepsAssumption, BoundAssumption
   DEF StagedRun, Run, StageStatuses, StepStatuses, NoCheckpoint, Checkpoint

LEMMA RunType ==
  ASSUME NEW m \in Run
  PROVE  /\ \A g \in {"paused", "running", "idle", "error"} : [m EXCEPT !.gs = g] \in Run
         /\ \A st \in StageStatuses : [m EXCEPT !.stage = st] \in Run
         /\ \A s \in Steps : [m EXCEPT !.step = s] \in Run
         /\ \A x \in Execs \cup {NoExec} : [m EXCEPT !.seen = x] \in Run
         /\ \A b \in BOOLEAN : [m EXCEPT !.lost = b] \in Run
         /\ \A b \in BOOLEAN : [m EXCEPT !.live = b] \in Run
         /\ \A k \in Checkpoint : [m EXCEPT !.from = k] \in Run
         /\ Held(m) \in Run
         /\ Barred(m) \in Run
<1>1. \A s \in Steps : s \in 0..NumSteps
  BY StepsAssumption DEF Steps
<1>2. "failed" \in StepStatuses
  BY DEF StepStatuses
<1> QED  BY <1>1, <1>2 DEF Run, Held, Barred

(* The step a run takes in hand is the one it then holds.                  *)
LEMMA StepTaken ==
  ASSUME NEW m \in Run, NEW s
  PROVE  [m EXCEPT !.step = s].step = s
BY DEF Run

(* The lapse of the lease a run carries touches neither its step nor the   *)
(* execution it has seen.                                                  *)
LEMMA LapseTouchesLive ==
  ASSUME NEW m \in Run
  PROVE  /\ [m EXCEPT !.live = FALSE].step = m.step
         /\ [m EXCEPT !.live = FALSE].seen = m.seen
BY DEF Run

LEMMA MarkedType ==
  ASSUME NEW m \in Run, NEW s \in Steps, NEW st \in StepStatuses
  PROVE  /\ Marked(m, s, st) \in Run
         /\ Marked(m, s, st).step = m.step
<1>1. [m.steps EXCEPT ![s] = st] \in [Steps -> StepStatuses]
  BY DEF Run
<1> QED  BY <1>1 DEF Marked, Run

(* What persistExecutionSnapshot is given is in the rows' types.           *)
LEMMA WriteType ==
  ASSUME NEW m \in Run
  PROVE  WriteOf(m) \in EngineWrite /\ WriteOf(m) \in Write
<1>1. StatusOf(m) \in ExecutionStatuses \ {"cancelled"}
  BY DEF StatusOf, ExecutionStatuses
<1> QED  BY <1>1 DEF WriteOf, EngineWrite, Write, Run

(* A run that was hydrated from the rows of an execution.                  *)
LEMMA HydratedType ==
  ASSUME TypeOK, NEW e \in Execs
  PROVE  HydratedRun(e) \in Run
<1> DEFINE gs == GlobalStateOf(snap[e].status)
           rv == IF snap[e].status = "paused_for_review" THEN "pending" ELSE "approved"
           row == snap[e]
<1>1. gs \in {"paused", "running", "idle", "error"} /\ rv \in {"approved", "pending"}
  BY DEF GlobalStateOf
<1>2. /\ row.stage \in StageStatuses /\ row.steps \in [Steps -> StepStatuses]
      /\ row.owner \in Procs \cup {NoProc} /\ row.live \in BOOLEAN
  BY DEF TypeOK, Row
<1>3. HydratedRun(e) = [StagedRun EXCEPT !.gs = gs, !.rv = rv, !.stage = row.stage,
                                         !.steps = row.steps, !.owner = row.owner,
                                         !.live = row.live]
  BY DEF HydratedRun
<1> HIDE DEF gs, rv, row
<1> QED  BY <1>1, <1>2, <1>3, StagedType DEF Run

LEMMA PersistedType ==
  ASSUME TypeOK
  PROVE  PersistedRun \in Run
BY HydratedType, StagedType DEF PersistedRun

LEMMA CheckpointedType ==
  ASSUME NEW m \in Run
  PROVE  CheckpointedRun(m) \in Run
<1>1. [s \in Steps |-> IF s <= m.from.last THEN "completed" ELSE "pending"]
        \in [Steps -> StepStatuses]
  BY DEF StepStatuses
<1>2. NoCheckpoint \in Checkpoint /\ {"running", "pending"} \subseteq StageStatuses
  BY StepsAssumption DEF NoCheckpoint, Checkpoint, StageStatuses
<1> QED  BY <1>1, <1>2 DEF CheckpointedRun, Run

-----------------------------------------------------------------------------
(* The four sorts of transactions of the store. *)

LEMMA EngineStoreSteps ==
  ASSUME Simulates
  PROVE  [StoreNext]_storeVars
<1>1. EngineWrite \subseteq Write /\ EngineMarks \subseteq CheckpointStatuses
  BY DEF EngineWrite, EngineMarks, CheckpointStatuses
<1>2. ASSUME NEW e \in Execs, CheckpointStep(e, EngineMarks, Kinds)
      PROVE  CheckpointStep(e, CheckpointStatuses, Kinds)
  BY <1>1, <1>2 DEF CheckpointStep
<1>3. ASSUME NEW e \in Execs, EngineRun(e)
      PROVE  RunStep(e, Write, {"completed", "failed"})
  BY <1>1, <1>3 DEF EngineRun, RunStep
<1>4. ASSUME NEW e \in Execs, NEW p \in Procs, NEW s \in Steps, AttemptStep(e, p, s, EngineWrite)
      PROVE  AttemptStep(e, p, s, Write)
  BY <1>1, <1>4 DEF AttemptStep
<1> QED  BY <1>2, <1>3, <1>4 DEF Simulates, EngineStore, StoreNext, StoreStep

LEMMA IsStoreStep ==
  ASSUME NEW e \in Execs,
         \/ CheckpointStep(e, EngineMarks, Kinds)
         \/ EngineRun(e)
         \/ \E p \in Procs : LockStep(e, p)
         \/ \E p \in Procs, s \in Steps : AttemptStep(e, p, s, EngineWrite)
  PROVE  Simulates
BY DEF Simulates, EngineStore

(* A whole run written over the rows.                                      *)
LEMMA SavesSimulates ==
  ASSUME EngineInv, NEW c \in Calls, NEW m \in Run, Saves(c, m)
  PROVE  Simulates
<1>1. target[c] \in Execs /\ WriteOf(m) \in EngineWrite
      /\ m.owner \in Procs \cup {NoProc} /\ m.live \in BOOLEAN
  BY WriteType DEF EngineInv, EngineTypeOK, Run
<1>2. EngineRun(target[c])
  BY <1>1 DEF Saves, EngineRun
<1> QED  BY <1>1, <1>2, IsStoreStep

(* An event logged on its own.                                             *)
LEMMA AppendSimulates ==
  ASSUME NEW e \in Execs, NEW kind \in Kinds, AppendLedgerEvent(e, kind)
  PROVE  Simulates
<1>1. CheckpointStep(e, EngineMarks, Kinds)
  BY DEF CheckpointStep
<1> QED  BY <1>1, IsStoreStep

LEMMA MarkSimulates ==
  ASSUME NEW e \in Execs, NEW st \in EngineMarks, SetCheckpointStatus(st)
  PROVE  Simulates
<1>1. CheckpointStep(e, EngineMarks, Kinds)
  BY DEF CheckpointStep
<1> QED  BY <1>1, IsStoreStep

(* finalizeExecutionTransition, with an event of its own or without: the   *)
(* release logs one anyway.                                                *)
LEMMA TransitionSimulates ==
  ASSUME NEW e \in Execs, NEW st \in EngineMarks, NEW K \in {{}, {"abandoned"}},
         NEW q \in {"none", "open"}, FinalizeExecutionTransition(e, st, K, q)
  PROVE  Simulates
<1>1. PICK kind \in Kinds : K \cup {"lease"} = {kind} \cup {"lease"}
  BY DEF Kinds
<1>2. FinalizeExecutionTransition(e, st, {kind}, q)
  BY <1>1 DEF FinalizeExecutionTransition
<1>3. CheckpointStep(e, EngineMarks, Kinds)
  BY <1>2 DEF CheckpointStep
<1> QED  BY <1>3, IsStoreStep

(* Items that are due are expired before the tables are compared.          *)
LEMMA ExpirySimulates ==
  ASSUME queue' = QueueAfterExpiry, UNCHANGED <<lock, ckpt, snap, attempts, ledger>>
  PROVE  Simulates
<1>1. CASE queue = "due"
  BY <1>1 DEF QueueAfterExpiry, ExpireRecoveryItems, QueueStep, Simulates, EngineStore
<1>2. CASE queue # "due"
  BY <1>2 DEF QueueAfterExpiry, Simulates, storeVars
<1> QED  BY <1>1, <1>2

-----------------------------------------------------------------------------
(* How a call moves. *)

LEMMA GoWithMoves ==
  ASSUME EngineInv, NEW c \in Calls, NEW l \in Points, NEW m \in Run, Sound(l, m), GoWith(c, l, m)
  PROVE  Moves(c)
<1>1. target[c] \in Execs
  BY DEF EngineInv, EngineTypeOK
<1> QED  BY <1>1 DEF Moves, GoWith

LEMMA GoMoves ==
  ASSUME EngineInv, NEW c \in Calls, NEW l \in Points, Sound(l, run[c]), Go(c, l)
  PROVE  Moves(c)
<1>1. run[c] \in Run
  BY DEF EngineInv, EngineTypeOK
<1> QED  BY <1>1, GoWithMoves DEF Go

LEMMA EndMoves ==
  ASSUME NEW c \in Calls, NEW r \in Results, End(c, r)
  PROVE  Moves(c)
BY DEF Moves

(* Points that ask nothing of the run.                                     *)
LEMMA FreePoints ==
  ASSUME NEW l, l \notin InHandPoints \cup ReportPoints, NEW m
  PROVE  Sound(l, m)
BY DEF Sound

(* The step in hand, at the points that have one.                          *)
LEMMA HandSound ==
  ASSUME EngineInv, NEW c \in Calls, pc[c] \in InHandPoints
  PROVE  /\ InHand(c) \in Steps /\ run[c].step \in Steps
         /\ run[c] \in Run /\ target[c] \in Execs
         /\ \A l \in InHandPoints : Sound(l, run[c])
         /\ \A st \in StepStatuses : /\ MarkedInHand(c, st) \in Run
                                     /\ \A l \in InHandPoints : Sound(l, MarkedInHand(c, st))
<1>1. run[c].step \in Steps /\ run[c] \in Run /\ target[c] \in Execs
  BY DEF EngineInv, CallsSound, Sound, EngineTypeOK
<1>2. \A l \in InHandPoints : l \notin ReportPoints
  BY DEF InHandPoints, ReportPoints
<1>3. \A st \in StepStatuses : /\ MarkedInHand(c, st) \in Run
                               /\ MarkedInHand(c, st).step = run[c].step
  BY <1>1, MarkedType DEF MarkedInHand, InHand
<1> QED  BY <1>1, <1>2, <1>3 DEF Sound, InHand

(* A persisted run, the next point if it is accepted, and if it is not.    *)
LEMMA PersistOrEndSteps ==
  ASSUME EngineInv, NEW c \in Calls, NEW m \in Run, NEW l \in Points, Sound(l, m),
         PersistOrEnd(c, m, l)
  PROVE  Simulates /\ Moves(c)
<1>1. CASE Persists(c, m, l)
  BY <1>1, SavesSimulates, GoWithMoves DEF Persists
<1>2. CASE Throws(c, m) /\ End(c, "thrown")
  BY <1>2, EndMoves DEF Throws, Simulates, Results
<1> QED  BY <1>1, <1>2 DEF PersistOrEnd

LEMMA PersistOrCatchSteps ==
  ASSUME EngineInv, NEW c \in Calls, NEW m \in Run, NEW l \in Points, Sound(l, m),
         NEW k \in Points, Sound(k, run[c]), PersistOrCatch(c, m, l, k)
  PROVE  Simulates /\ Moves(c)
<1>1. CASE Persists(c, m, l)
  BY <1>1, SavesSimulates, GoWithMoves DEF Persists
<1>2. CASE Throws(c, m) /\ Go(c, k)
  BY <1>2, GoMoves DEF Throws, Simulates
<1> QED  BY <1>1, <1>2 DEF PersistOrCatch

LEMMA EmitsSteps ==
  ASSUME EngineInv, NEW c \in Calls, NEW kind \in Kinds, NEW l \in Points, Sound(l, run[c]),
         Emits(c, kind, l)
  PROVE  Simulates /\ Moves(c)
<1>1. target[c] \in Execs
  BY DEF EngineInv, EngineTypeOK
<1> QED  BY <1>1, AppendSimulates, GoMoves DEF Emits

LEMMA GiveUpSteps ==
  ASSUME EngineInv, NEW c \in Calls, NEW m, GiveUp(c, m)
  PROVE  Simulates /\ Moves(c)
<1>1. Sound("release", run[c]) /\ "release" \in Points
  BY FreePoints DEF InHandPoints, ReportPoints, Points
<1> QED  BY <1>1, GoMoves, EndMoves DEF GiveUp, Simulates, Results

(* The run of a call that has not failed a check carries on as it is.      *)
LEMMA DistrustSteps ==
  ASSUME EngineInv, NEW c \in Calls, NEW l \in {"release", "corrupt", "doubt"}, Distrust(c, l)
  PROVE  Moves(c)
<1>1. l \in Points /\ l \notin InHandPoints \cup ReportPoints
  BY DEF Points, InHandPoints, ReportPoints
<1>2. run[c] \in Run /\ (IF lock.held THEN lock.exec ELSE NoExec) \in Execs \cup {NoExec}
  BY DEF EngineInv, EngineTypeOK, LockNamed
<1>3. [run[c] EXCEPT !.seen = IF lock.held THEN lock.exec ELSE NoExec] \in Run
  BY <1>2, RunType
<1> QED  BY <1>1, <1>3, FreePoints, GoWithMoves DEF Distrust

-----------------------------------------------------------------------------
(* execute, up to the loop. *)

LEMMA ExecuteAcquireSteps ==
  ASSUME EngineInv, NEW c \in Calls, ExecuteAcquire(c)
  PROVE  Simulates /\ Moves(c)
<1>1. target[c] \in Execs /\ ProcOf[c] \in Procs
  BY CallsAssumption DEF EngineInv, EngineTypeOK
<1>2. Sound("validate", run[c]) /\ "validate" \in Points /\ "refused" \in Results
  BY FreePoints DEF InHandPoints, ReportPoints, Points, Results
<1>3. LockStep(target[c], ProcOf[c])
  BY DEF ExecuteAcquire, LockStep
<1>4. Simulates
  BY <1>1, <1>3, IsStoreStep
<1>5. Moves(c)
  BY <1>2, GoMoves, EndMoves DEF ExecuteAcquire
<1> QED  BY <1>4, <1>5

(* What a failed check writes: the checkpoint's mark, then the event.      *)
LEMMA DistrustedSteps ==
  ASSUME EngineInv, NEW c \in Calls, Corrupt(c) \/ CorruptLog(c) \/ Doubt(c) \/ DoubtLog(c)
  PROVE  Simulates /\ Moves(c)
<1>1. target[c] \in Execs /\ run[c] \in Run
  BY DEF EngineInv, EngineTypeOK
<1>2. Sound("release", run[c])
  BY FreePoints DEF InHandPoints, ReportPoints
<1>3. ASSUME run[c].seen # NoExec
      PROVE  Sound("corruptLog", run[c]) /\ Sound("doubtLog", run[c])
  BY <1>1, <1>3 DEF Sound, Run, InHandPoints
<1>4. {"release", "corruptLog", "doubtLog"} \subseteq Points /\ "refused" \in Results
      /\ "corrupted" \in EngineMarks /\ "corrupted" \in Kinds
  BY DEF Points, Results, EngineMarks, Kinds
<1>5. CASE Corrupt(c)
  <2>1. Simulates
    BY <1>1, <1>4, <1>5, MarkSimulates DEF Corrupt
  <2>2. Moves(c)
    BY <1>2, <1>3, <1>4, <1>5, GoMoves DEF Corrupt
  <2> QED  BY <2>1, <2>2
<1>6. CASE Doubt(c)
  <2>1. Simulates
    BY <1>1, <1>4, <1>6, MarkSimulates DEF Doubt
  <2>2. Moves(c)
    BY <1>3, <1>4, <1>6, GoMoves, EndMoves DEF Doubt
  <2> QED  BY <2>1, <2>2
<1>7. CASE CorruptLog(c)
  <2>1. run[c].seen \in Execs
    BY <1>7 DEF CorruptLog, At, EngineInv, CallsSound, Sound, ReportPoints
  <2>2. Simulates
    BY <1>4, <1>7, <2>1, AppendSimulates DEF CorruptLog
  <2>3. Moves(c)
    BY <1>2, <1>4, <1>7, GoMoves DEF CorruptLog
  <2> QED  BY <2>2, <2>3
<1>8. CASE DoubtLog(c)
  <2>1. run[c].seen \in Execs
    BY <1>8 DEF DoubtLog, At, EngineInv, CallsSound, Sound, ReportPoints
  <2>2. Simulates
    BY <1>4, <1>8, <2>1, AppendSimulates DEF DoubtLog
  <2>3. Moves(c)
    BY <1>4, <1>8, EndMoves DEF DoubtLog
  <2> QED  BY <2>2, <2>3
<1> QED  BY <1>5, <1>6, <1>7, <1>8

LEMMA ValidateSteps ==
  ASSUME EngineInv, NEW c \in Calls, Validate(c)
  PROVE  Simulates /\ Moves(c)
<1>1. target[c] \in Execs
  BY DEF EngineInv, EngineTypeOK
<1>2. Simulates
  BY <1>1, ExpirySimulates DEF Validate, IntegrityHolds, IntegrityFails
<1>3. Sound("reconcile", run[c]) /\ "reconcile" \in Points
  BY FreePoints DEF InHandPoints, ReportPoints, Points
<1>4. Moves(c)
  BY <1>3, GoMoves, DistrustSteps DEF Validate, DistrustHolder
<1> QED  BY <1>2, <1>4

(* What reconciliation writes is for the execution that holds the lock.    *)
LEMMA ReconcileSteps ==
  ASSUME EngineInv, NEW c \in Calls, Reconcile(c)
  PROVE  Simulates /\ Moves(c)
<1>1. target[c] \in Execs
  BY DEF EngineInv, EngineTypeOK
<1>2. \A l \in {"start", "recoverState", "release"} : Sound(l, run[c]) /\ l \in Points
  BY FreePoints DEF InHandPoints, ReportPoints, Points
<1>3. "refused" \in Results
  BY DEF Results
<1>4. Moves(c)
  BY <1>2, <1>3, GoMoves, EndMoves, DistrustSteps DEF Reconcile, DistrustHolder
<1>5. CASE ReconcileToOperator
  <2>1. lock.exec \in Execs
    BY <1>5 DEF ReconcileToOperator, CanReconcile, EngineInv, LockNamed
  <2>2. "pause_for_operator_recovery" \in EngineMarks
    BY DEF EngineMarks
  <2>3. Simulates
    BY <1>5, <2>1, <2>2, TransitionSimulates DEF ReconcileToOperator, QueueRecoveryReview
  <2> QED  BY <1>4, <2>3
<1>6. CASE Abandon
  <2>1. lock.exec \in Execs
    BY <1>6 DEF Abandon, EngineInv, LockNamed
  <2>2. "execution_abandoned" \in EngineMarks
    BY DEF EngineMarks
  <2>3. Simulates
    BY <1>6, <2>1, <2>2, TransitionSimulates DEF Abandon
  <2> QED  BY <1>4, <2>3
<1>7. CASE ReconcileResume \/ ReconcileNoop
  BY <1>4, <1>7 DEF ReconcileResume, ReconcileNoop, Simulates
<1>8. CASE ReconcileUnlocked \/ ReconcileFails
  BY <1>1, <1>4, <1>8, ExpirySimulates DEF ReconcileUnlocked, ReconcileFails, IntegrityFails
<1> QED  BY <1>5, <1>6, <1>7, <1>8 DEF Reconcile

LEMMA StartSteps ==
  ASSUME EngineInv, NEW c \in Calls,
         Start(c) \/ Stage(c) \/ Created(c) \/ Launch(c) \/ Started(c)
  PROVE  Simulates /\ Moves(c)
<1>1. target[c] \in Execs /\ run[c] \in Run
  BY DEF EngineInv, EngineTypeOK
<1>2. \A l \in {"stage", "release", "created", "launch", "started", "stageRun"} :
         l \in Points /\ \A m : Sound(l, m)
  BY FreePoints DEF InHandPoints, ReportPoints, Points
<1>3. "created" \in Kinds /\ "started" \in Kinds /\ {"refused", "paused"} \subseteq Results
  BY DEF Kinds, Results
<1>4. CASE Start(c)
  <2>1. Moves(c)
    BY <1>2, <1>4, GoMoves DEF Start
  <2>2. StartExecutionState => CheckpointStep(target[c], EngineMarks, Kinds)
    BY DEF CheckpointStep
  <2>3. Simulates
    BY <1>1, <1>4, <2>2, IsStoreStep DEF Start, Simulates
  <2> QED  BY <2>1, <2>3
<1>5. CASE Stage(c)
  BY <1>2, <1>5, StagedType, PersistOrEndSteps DEF Stage
<1>6. CASE Created(c) \/ Started(c)
  BY <1>2, <1>3, <1>6, EmitsSteps DEF Created, Started
<1>7. CASE Launch(c)
  <2>1. CASE PersistOrEnd(c, [run[c] EXCEPT !.gs = "running"], "started")
    BY <1>1, <1>2, <2>1, RunType, PersistOrEndSteps
  <2>2. CASE PauseExecutionForReview(target[c], WriteOf(Held(run[c]))) /\ End(c, "paused")
    <3>1. WriteOf(Held(run[c])) \in EngineWrite
      BY <1>1, RunType, WriteType
    <3>2. EngineRun(target[c])
      BY <2>2, <3>1 DEF EngineRun
    <3> QED  BY <1>1, <1>3, <2>2, <3>2, IsStoreStep, EndMoves
  <2>3. CASE UNCHANGED storeVars /\ End(c, "refused")
    BY <1>3, <2>3, EndMoves DEF Simulates
  <2>4. CASE Saves(c, Barred(run[c])) /\ End(c, "refused")
    BY <1>1, <1>3, <2>4, RunType, SavesSimulates, EndMoves
  <2> QED  BY <1>7, <2>1, <2>2, <2>3, <2>4 DEF Launch
<1> QED  BY <1>4, <1>5, <1>6, <1>7

-----------------------------------------------------------------------------
(* The loop. *)

LEMMA StageSteps ==
  ASSUME EngineInv, NEW c \in Calls,
         \/ StageRun(c) \/ StageLog(c) \/ StageDone(c)
         \/ StageFailed(c) \/ StageFailedLog(c) \/ StageDoneLog(c)
  PROVE  Simulates /\ Moves(c)
<1>1. run[c] \in Run
  BY DEF EngineInv, EngineTypeOK
<1>2. \A l \in {"stageLog", "step", "stageDoneLog", "stageFailedLog", "finalizeFailed", "finalize"} :
         l \in Points /\ \A m : Sound(l, m)
  BY FreePoints DEF InHandPoints, ReportPoints, Points
<1>3. \A st \in {"running", "completed", "failed"} : [run[c] EXCEPT !.stage = st] \in Run
  BY <1>1, RunType DEF StageStatuses
<1>4. CASE StageRun(c) \/ StageDone(c) \/ StageFailed(c)
  BY <1>2, <1>3, <1>4, PersistOrEndSteps DEF StageRun, StageDone, StageFailed
<1>5. CASE StageLog(c) \/ StageFailedLog(c) \/ StageDoneLog(c)
  <2>1. "stageStarted" \in Kinds /\ "stageEnded" \in Kinds
    BY DEF Kinds
  <2> QED  BY <1>2, <1>5, <2>1, EmitsSteps DEF StageLog, StageFailedLog, StageDoneLog
<1> QED  BY <1>4, <1>5

LEMMA PauseBeforeSteps ==
  ASSUME EngineInv, NEW c \in Calls, PauseBefore(c)
  PROVE  Simulates /\ Moves(c)
<1>1. target[c] \in Execs /\ run[c] \in Run /\ {"paused", "failed"} \subseteq Results
  BY DEF EngineInv, EngineTypeOK, Results
<1>2. PICK s \in Steps :
        LET w == WriteOf([Held(Marked(run[c], s, "paused_for_review"))
                            EXCEPT !.stage = "paused_for_review"])
        IN  \/ PauseBeforeExecutionForReview(target[c], s, w) /\ End(c, "paused")
            \/ UNCHANGED storeVars /\ End(c, "failed")
  BY DEF PauseBefore
<1> DEFINE m == [Held(Marked(run[c], s, "paused_for_review")) EXCEPT !.stage = "paused_for_review"]
<1>3. WriteOf(m) \in EngineWrite
  <2>1. Held(Marked(run[c], s, "paused_for_review")) \in Run
    BY <1>1, MarkedType, RunType DEF StepStatuses
  <2>2. m \in Run
    BY <2>1, RunType DEF StageStatuses
  <2> QED  BY <2>2, WriteType
<1>4. CASE PauseBeforeExecutionForReview(target[c], s, WriteOf(m)) /\ End(c, "paused")
  <2>1. WriteOf(m).steps[s] = "paused_for_review"
    BY <1>1 DEF WriteOf, Held, Marked, Run
  <2>2. EngineRun(target[c])
    BY <1>3, <1>4, <2>1 DEF EngineRun
  <2> QED  BY <1>1, <1>4, <2>2, IsStoreStep, EndMoves
<1>5. CASE UNCHANGED storeVars /\ End(c, "failed")
  BY <1>1, <1>5, EndMoves DEF Simulates
<1> QED  BY <1>2, <1>4, <1>5

LEMMA BlockStepSteps ==
  ASSUME EngineInv, NEW c \in Calls, BlockStep(c)
  PROVE  Simulates /\ Moves(c)
<1>1. run[c] \in Run
  BY DEF EngineInv, EngineTypeOK
<1>2. "stageFailed" \in Points /\ \A m : Sound("stageFailed", m)
  BY FreePoints DEF InHandPoints, ReportPoints, Points
<1>3. PICK s \in Steps : PersistOrEnd(c, Marked(run[c], s, "failed"), "stageFailed")
  BY DEF BlockStep
<1>4. Marked(run[c], s, "failed") \in Run
  BY <1>1, MarkedType DEF StepStatuses
<1> QED  BY <1>2, <1>3, <1>4, PersistOrEndSteps

(* beginExecutionAttempt takes the step in hand.                           *)
LEMMA BeginSteps ==
  ASSUME EngineInv, NEW c \in Calls, Begin(c)
  PROVE  Simulates /\ Moves(c)
<1>1. target[c] \in Execs /\ ProcOf[c] \in Procs /\ run[c] \in Run
  BY CallsAssumption DEF EngineInv, EngineTypeOK
<1>2. {"markRunning", "refusedBegin"} \subseteq Points
  BY DEF Points
<1>3. PICK s \in Steps :
        \/ /\ BeginExecutionAttempt(target[c], ProcOf[c], s)
           /\ GoWith(c, "markRunning",
                     [run[c] EXCEPT !.step = s, !.n = Len(attempts[target[c]][s]) + 1,
                                    !.lost = FALSE])
        \/ /\ UNCHANGED storeVars
           /\ GoWith(c, "refusedBegin", [run[c] EXCEPT !.step = s])
  BY DEF Begin
<1>4. CASE /\ BeginExecutionAttempt(target[c], ProcOf[c], s)
           /\ GoWith(c, "markRunning",
                     [run[c] EXCEPT !.step = s, !.n = Len(attempts[target[c]][s]) + 1,
                                    !.lost = FALSE])
  <2> DEFINE n == Len(attempts[target[c]][s])
             m == [run[c] EXCEPT !.step = s, !.n = n + 1, !.lost = FALSE]
  <2>1. n \in Nat /\ n < MaxAttempts
    <3>1. attempts[target[c]][s] \in Seq(Attempt)
      BY <1>1 DEF EngineInv, TypeOK
    <3>2. n < MaxAttempts
      BY <1>4 DEF BeginExecutionAttempt
    <3> QED  BY <3>1, <3>2
  <2>2. n + 1 \in 0..MaxAttempts /\ s \in 0..NumSteps
    BY <2>1, BoundAssumption, StepsAssumption DEF Steps
  <2>3. m \in Run /\ m.step = s
    <3> HIDE DEF n
    <3> QED  BY <1>1, <2>2 DEF Run
  <2>4. Sound("markRunning", m)
    BY <2>3 DEF Sound, ReportPoints
  <2>5. Moves(c)
    BY <1>2, <1>4, <2>3, <2>4, GoWithMoves
  <2>6. AttemptStep(target[c], ProcOf[c], s, EngineWrite)
    BY <1>4 DEF AttemptStep
  <2> QED  BY <1>1, <2>5, <2>6, IsStoreStep
<1>5. CASE UNCHANGED storeVars /\ GoWith(c, "refusedBegin", [run[c] EXCEPT !.step = s])
  <2>1. [run[c] EXCEPT !.step = s] \in Run
    BY <1>1, RunType
  <2>2. [run[c] EXCEPT !.step = s].step = s
    BY <1>1, StepTaken
  <2>3. Sound("refusedBegin", [run[c] EXCEPT !.step = s])
    BY <2>2 DEF Sound, ReportPoints
  <2> QED  BY <1>2, <1>5, <2>1, <2>3, GoWithMoves DEF Simulates
<1> QED  BY <1>3, <1>4, <1>5

(* The writes of a run about the step in hand.                             *)
LEMMA MarkSteps ==
  ASSUME EngineInv, NEW c \in Calls,
         \/ RefusedBegin(c) \/ MarkRunning(c) \/ MarkCompleted(c) \/ MarkFailed(c)
         \/ MarkThrown(c) \/ MarkPaused(c) \/ StagePaused(c)
  PROVE  Simulates /\ Moves(c)
<1>1. pc[c] \in InHandPoints
  BY DEF RefusedBegin, MarkRunning, MarkCompleted, MarkFailed, MarkThrown, MarkPaused,
         StagePaused, At, InHandPoints
<1>2. {"stageFailed", "tool", "step", "failThrown", "stagePaused", "pause"} \subseteq Points
      /\ {"tool", "failThrown", "stagePaused", "pause"} \subseteq InHandPoints
      /\ {"failed", "running", "completed", "paused_for_review"} \subseteq StepStatuses
  BY DEF Points, InHandPoints, StepStatuses
<1>3. \A m : Sound("stageFailed", m) /\ Sound("step", m)
  BY FreePoints DEF InHandPoints, ReportPoints
<1>4. /\ run[c] \in Run /\ \A l \in InHandPoints : Sound(l, run[c])
      /\ \A st \in StepStatuses : /\ MarkedInHand(c, st) \in Run
                                  /\ \A l \in InHandPoints : Sound(l, MarkedInHand(c, st))
  BY <1>1, HandSound
<1>5. CASE RefusedBegin(c) \/ MarkRunning(c) \/ MarkThrown(c)
  BY <1>2, <1>3, <1>4, <1>5, PersistOrEndSteps DEF RefusedBegin, MarkRunning, MarkThrown
<1>6. CASE MarkCompleted(c) \/ MarkFailed(c) \/ MarkPaused(c)
  BY <1>2, <1>3, <1>4, <1>6, PersistOrCatchSteps DEF MarkCompleted, MarkFailed, MarkPaused
<1>7. CASE StagePaused(c)
  <2>1. "paused_for_review" \in StageStatuses
    BY DEF StageStatuses
  <2>2. [run[c] EXCEPT !.stage = "paused_for_review"] \in Run
    BY <1>4, <2>1, RunType
  <2>3. [run[c] EXCEPT !.stage = "paused_for_review"].step = run[c].step
    BY <1>4 DEF Run
  <2>4. Sound("pause", [run[c] EXCEPT !.stage = "paused_for_review"])
    BY <1>2, <1>4, <2>3 DEF Sound, ReportPoints
  <2> QED  BY <1>2, <1>7, <2>2, <2>4, PersistOrEndSteps DEF StagePaused
<1> QED  BY <1>5, <1>6, <1>7

LEMMA ToolReturnsSteps ==
  ASSUME EngineInv, NEW c \in Calls, NEW o \in Outcomes, ToolReturns(c, o)
  PROVE  Simulates /\ Moves(c)
<1>1. pc[c] \in InHandPoints
  BY DEF ToolReturns, At, InHandPoints
<1>2. \A l \in {"failThrown", "markPaused", "complete", "fail"} :
        l \in Points /\ Sound(l, run[c])
  BY <1>1, HandSound DEF Points, InHandPoints
<1>3. \E l \in {"failThrown", "markPaused", "complete", "fail"} : Go(c, l)
  BY DEF ToolReturns
<1>4. Moves(c)
  BY <1>2, <1>3, GoMoves
<1> QED  BY <1>4 DEF ToolReturns, Simulates

(* The attempt in hand ends, or the call gives it up.                      *)
LEMMA CompleteSteps ==
  ASSUME EngineInv, NEW c \in Calls, Complete(c)
  PROVE  Simulates /\ Moves(c)
<1>1. pc[c] \in InHandPoints
  BY DEF Complete, At, InHandPoints
<1>2. InHand(c) \in Steps /\ target[c] \in Execs /\ ProcOf[c] \in Procs
  BY <1>1, HandSound, CallsAssumption
<1>3. CASE CompleteExecutionAttempt(target[c], InHand(c), run[c].n) /\ Go(c, "markCompleted")
  <2>1. run[c].n \in DOMAIN attempts[target[c]][InHand(c)]
    BY <1>3 DEF CompleteExecutionAttempt, MayEndAttempt
  <2>2. AttemptStep(target[c], ProcOf[c], InHand(c), EngineWrite)
    BY <1>3, <2>1 DEF AttemptStep
  <2>3. "markCompleted" \in Points /\ Sound("markCompleted", run[c])
    BY <1>1, HandSound DEF Points, InHandPoints
  <2> QED  BY <1>2, <1>3, <2>2, <2>3, IsStoreStep, GoMoves
<1>4. CASE GiveUp(c, run[c])
  BY <1>4, GiveUpSteps
<1> QED  BY <1>3, <1>4 DEF Complete

LEMMA FailSteps ==
  ASSUME EngineInv, NEW c \in Calls, FailReported(c) \/ FailThrown(c)
  PROVE  Simulates /\ Moves(c)
<1>1. pc[c] \in InHandPoints
  BY DEF FailReported, FailThrown, Fail, At, InHandPoints
<1>2. InHand(c) \in Steps /\ target[c] \in Execs /\ ProcOf[c] \in Procs
  BY <1>1, HandSound, CallsAssumption
<1>3. ASSUME NEW k \in {"markFailed", "markThrown"},
             FailExecutionAttempt(target[c], InHand(c), run[c].n), Go(c, k)
      PROVE  Simulates /\ Moves(c)
  <2>1. run[c].n \in DOMAIN attempts[target[c]][InHand(c)]
    BY <1>3 DEF FailExecutionAttempt, MayEndAttempt
  <2>2. AttemptStep(target[c], ProcOf[c], InHand(c), EngineWrite)
    BY <1>3, <2>1 DEF AttemptStep
  <2>3. k \in Points /\ Sound(k, run[c])
    BY <1>1, HandSound DEF Points, InHandPoints
  <2> QED  BY <1>2, <1>3, <2>2, <2>3, IsStoreStep, GoMoves
<1>4. CASE GiveUp(c, run[c])
  BY <1>4, GiveUpSteps
<1> QED  BY <1>3, <1>4 DEF FailReported, FailThrown, Fail

LEMMA PauseSteps ==
  ASSUME EngineInv, NEW c \in Calls, Pause(c)
  PROVE  Simulates /\ Moves(c)
<1>1. pc[c] \in InHandPoints
  BY DEF Pause, At, InHandPoints
<1>2. InHand(c) \in Steps /\ target[c] \in Execs /\ ProcOf[c] \in Procs /\ run[c] \in Run
  BY <1>1, HandSound, CallsAssumption
<1> DEFINE w == WriteOf(Held(run[c]))
<1>3. w \in EngineWrite
  BY <1>2, RunType, WriteType
<1> HIDE DEF w
<1>4. CASE /\ PauseExecutionAttemptForReview(target[c], InHand(c), run[c].n, w)
           /\ End(c, "paused")
  <2>1. run[c].n \in DOMAIN attempts[target[c]][InHand(c)]
    BY <1>4 DEF PauseExecutionAttemptForReview, MayPauseAttempt
  <2>2. AttemptStep(target[c], ProcOf[c], InHand(c), EngineWrite)
    BY <1>3, <1>4, <2>1 DEF AttemptStep
  <2>3. "paused" \in Results
    BY DEF Results
  <2> QED  BY <1>2, <1>4, <2>2, <2>3, IsStoreStep, EndMoves
<1>5. CASE GiveUp(c, Held(run[c]))
  BY <1>5, GiveUpSteps
<1> QED  BY <1>4, <1>5 DEF Pause, w

(* The interval timer beside an awaited tool.                              *)
LEMMA HeartbeatSteps ==
  ASSUME EngineInv, NEW c \in Calls, Heartbeat(c)
  PROVE  Simulates /\ Moves(c)
<1>1. pc[c] \in InHandPoints
  BY DEF Heartbeat, At, InHandPoints
<1>2. InHand(c) \in Steps /\ target[c] \in Execs /\ ProcOf[c] \in Procs /\ run[c] \in Run
  BY <1>1, HandSound, CallsAssumption
<1>3. PICK b \in BOOLEAN : GoWith(c, "tool", [run[c] EXCEPT !.lost = b])
  BY DEF Heartbeat
<1>4. /\ [run[c] EXCEPT !.lost = b] \in Run
      /\ [run[c] EXCEPT !.lost = b].step = run[c].step
  BY <1>2, RunType DEF Run
<1>5. "tool" \in Points /\ Sound("tool", [run[c] EXCEPT !.lost = b])
  BY <1>2, <1>4 DEF Points, Sound, ReportPoints, InHand
<1>6. Moves(c)
  BY <1>3, <1>4, <1>5, GoWithMoves
<1>7. CASE HeartbeatAttempt(target[c], ProcOf[c], InHand(c), run[c].n)
  <2>1. AttemptStep(target[c], ProcOf[c], InHand(c), EngineWrite)
    BY <1>7 DEF AttemptStep, HeartbeatAttempt
  <2> QED  BY <1>2, <1>6, <2>1, IsStoreStep
<1>8. CASE UNCHANGED storeVars
  BY <1>6, <1>8 DEF Simulates
<1> QED  BY <1>7, <1>8 DEF Heartbeat

-----------------------------------------------------------------------------
(* The end of the loop. *)

LEMMA FinalizedSteps ==
  ASSUME EngineInv, NEW c \in Calls, Finalize(c) \/ FinalizeFailed(c)
  PROVE  Simulates /\ Moves(c)
<1>1. target[c] \in Execs /\ run[c] \in Run
  BY DEF EngineInv, EngineTypeOK
<1>2. [run[c] EXCEPT !.gs = "error"] \in Run
  BY <1>1, RunType
<1>3. [run[c] EXCEPT !.gs = "idle", !.rv = "approved"] \in Run
  BY <1>1 DEF Run
<1>4. ASSUME NEW m \in Run, NEW st \in {"completed", "failed"}, NEW l, Finalized(c, l, m, st)
      PROVE  Simulates /\ Moves(c)
  <2>1. WriteOf(m) \in EngineWrite /\ st \in Results
    BY WriteType DEF Results
  <2>2. CASE FinalizeExecution(target[c], WriteOf(m), st) /\ End(c, st)
    <3>1. EngineRun(target[c])
      BY <2>1, <2>2 DEF EngineRun
    <3> QED  BY <1>1, <2>1, <2>2, <3>1, IsStoreStep, EndMoves
  <2>3. CASE GiveUp(c, m)
    BY <2>3, GiveUpSteps
  <2> QED  BY <1>4, <2>2, <2>3 DEF Finalized
<1> QED  BY <1>2, <1>3, <1>4 DEF Finalize, FinalizeFailed

LEMMA ReleaseSteps ==
  ASSUME EngineInv, NEW c \in Calls, Release(c)
  PROVE  Simulates /\ Moves(c)
<1>1. target[c] \in Execs /\ ProcOf[c] \in Procs /\ "refused" \in Results
  BY CallsAssumption DEF EngineInv, EngineTypeOK, Results
<1>2. Moves(c)
  BY <1>1, EndMoves DEF Release
<1>3. CASE ReleaseExecutionLock(target[c])
  <2>1. LockStep(target[c], ProcOf[c])
    BY <1>3 DEF LockStep
  <2> QED  BY <1>1, <1>2, <2>1, IsStoreStep
<1>4. CASE UNCHANGED storeVars
  BY <1>2, <1>4 DEF Simulates
<1> QED  BY <1>3, <1>4 DEF Release

-----------------------------------------------------------------------------
(* recoverExecution and resumeExecution, up to the loop. *)

LEMMA PreflightSteps ==
  ASSUME EngineInv, NEW c \in Calls, Preflight(c)
  PROVE  Simulates /\ Moves(c)
<1>1. target[c] \in Execs
  BY DEF EngineInv, EngineTypeOK
<1> DEFINE e == RecoveryTarget(target[c])
<1>2. e \in Execs
  BY <1>1 DEF RecoveryTarget, EngineInv, LockNamed
<1> HIDE DEF e
<1>3. PersistedRun \in Run
  BY PersistedType DEF EngineInv
<1>4. "reuse" \in Points /\ (\A m : Sound("reuse", m)) /\ "refused" \in Results
  BY FreePoints DEF InHandPoints, ReportPoints, Points, Results
<1>5. CASE PreflightAllows(e) /\ Carry(c, "reuse", PersistedRun, e)
  <2>1. Moves(c)
    BY <1>2, <1>3, <1>4, <1>5 DEF Moves
  <2> QED  BY <1>1, <1>5, <2>1, ExpirySimulates DEF PreflightAllows, IntegrityHolds
<1>6. CASE PreflightFails(e) /\ Distrust(c, "doubt")
  BY <1>1, <1>6, DistrustSteps, ExpirySimulates DEF PreflightFails, IntegrityFails
<1>7. CASE PreflightRefuses(e) /\ End(c, "refused")
  <2>1. Moves(c)
    BY <1>4, <1>7, EndMoves
  <2>2. UNCHANGED storeVars \/ IntegrityHolds
    BY <1>7 DEF PreflightRefuses
  <2>3. Simulates
    BY <1>1, <2>2, ExpirySimulates DEF IntegrityHolds, Simulates
  <2> QED  BY <2>1, <2>3
<1> QED  BY <1>5, <1>6, <1>7 DEF Preflight, e

LEMMA ReuseSteps ==
  ASSUME EngineInv, NEW c \in Calls, Reuse(c)
  PROVE  Simulates /\ Moves(c)
<1>1. target[c] \in Execs /\ ProcOf[c] \in Procs
  BY CallsAssumption DEF EngineInv, EngineTypeOK
<1>2. \A l \in {"validate", "decide"} : l \in Points /\ Sound(l, run[c])
  BY FreePoints DEF InHandPoints, ReportPoints, Points
<1>3. "refused" \in Results
  BY DEF Results
<1>4. LockStep(target[c], ProcOf[c])
  BY DEF Reuse, LockStep, AcquireOrReuseConflict
<1>5. Moves(c)
  BY <1>2, <1>3, GoMoves, EndMoves DEF Reuse
<1> QED  BY <1>1, <1>4, <1>5, IsStoreStep

LEMMA RecoverStateSteps ==
  ASSUME EngineInv, NEW c \in Calls, RecoverState(c)
  PROVE  Simulates /\ Moves(c)
<1>1. target[c] \in Execs /\ run[c] \in Run /\ ckpt \in Checkpoint
  BY DEF EngineInv, EngineTypeOK, TypeOK
<1>2. \A l \in {"release", "restage"} : l \in Points /\ \A m : Sound(l, m)
  BY FreePoints DEF InHandPoints, ReportPoints, Points
<1>3. [run[c] EXCEPT !.from = ckpt] \in Run
  BY <1>1, RunType
<1>4. Moves(c)
  BY <1>2, <1>3, GoMoves, GoWithMoves DEF RecoverState
<1>5. CASE CompleteCheckpoint
  <2>1. CheckpointStep(target[c], EngineMarks, Kinds)
    BY <1>5 DEF CheckpointStep
  <2> QED  BY <1>1, <1>4, <2>1, IsStoreStep
<1>6. CASE SetCheckpointStatus("awaiting_review")
  <2>1. "awaiting_review" \in EngineMarks
    BY DEF EngineMarks
  <2> QED  BY <1>1, <1>4, <1>6, <2>1, MarkSimulates
<1>7. CASE UNCHANGED storeVars
  BY <1>4, <1>7 DEF Simulates
<1> QED  BY <1>5, <1>6, <1>7 DEF RecoverState

LEMMA RestageSteps ==
  ASSUME EngineInv, NEW c \in Calls, Restage(c) \/ Rehydrate(c)
  PROVE  Simulates /\ Moves(c)
<1>1. run[c] \in Run
  BY DEF EngineInv, EngineTypeOK
<1>2. \A l \in {"rehydrate", "stageRun"} : l \in Points /\ \A m : Sound(l, m)
  BY FreePoints DEF InHandPoints, ReportPoints, Points
<1>3. "thrown" \in Results
  BY DEF Results
<1>4. CASE Restage(c)
  <2>1. [run[c] EXCEPT !.gs = "paused", !.owner = NoProc, !.live = FALSE] \in Run
    BY <1>1 DEF Run
  <2> QED  BY <1>2, <1>3, <1>4, <2>1, SavesSimulates, GoMoves, EndMoves
           DEF Restage, Throws, Simulates
<1>5. CASE Rehydrate(c)
  <2>1. CheckpointedRun(run[c]) \in Run
    BY <1>1, CheckpointedType
  <2>2. \A rv \in {"approved", "pending"} :
          [CheckpointedRun(run[c]) EXCEPT !.gs = "paused", !.rv = rv] \in Run
    BY <2>1 DEF Run
  <2>3. \/ /\ Saves(c, CheckpointedRun(run[c]))
           /\ \E rv \in {"approved", "pending"} :
                GoWith(c, "stageRun", [CheckpointedRun(run[c]) EXCEPT !.gs = "paused", !.rv = rv])
        \/ Throws(c, CheckpointedRun(run[c])) /\ End(c, "thrown")
    BY <1>5 DEF Rehydrate
  <2> QED  BY <1>2, <1>3, <2>1, <2>2, <2>3, SavesSimulates, GoWithMoves, EndMoves
           DEF Throws, Simulates
<1> QED  BY <1>4, <1>5

LEMMA ResumeSteps ==
  ASSUME EngineInv, NEW c \in Calls,
         Resume(c) \/ Approve(c) \/ Reject(c) \/ RejectLog(c) \/ RejectFailed(c)
  PROVE  Simulates /\ Moves(c)
<1>1. target[c] \in Execs /\ run[c] \in Run
  BY DEF EngineInv, EngineTypeOK
<1>2. \A l \in {"reuse", "stageRun", "rejectLog", "rejectFailed"} :
         l \in Points /\ \A m : Sound(l, m)
  BY FreePoints DEF InHandPoints, ReportPoints, Points
<1>3. "stageEnded" \in Kinds /\ "failed" \in Kinds /\ "rejected" \in Results
  BY DEF Kinds, Results
<1>4. CASE Resume(c)
  <2>1. HydratedRun(target[c]) \in Run
    BY <1>1, HydratedType DEF EngineInv
  <2> QED  BY <1>2, <1>4, <2>1, GoWithMoves DEF Resume, Simulates
<1>5. CASE Approve(c)
  <2>1. PICK s \in Steps :
          PersistOrEnd(c, [Marked(run[c], s, "pending")
                             EXCEPT !.gs = "running", !.rv = "approved",
                                    !.stage = "running", !.acked = s], "stageRun")
    BY <1>5 DEF Approve
  <2>2. Marked(run[c], s, "pending") \in Run
    BY <1>1, MarkedType DEF StepStatuses
  <2>3. s \in 0..NumSteps
    BY StepsAssumption DEF Steps
  <2>4. [Marked(run[c], s, "pending") EXCEPT !.gs = "running", !.rv = "approved",
                                             !.stage = "running", !.acked = s] \in Run
    BY <2>2, <2>3 DEF Run, StageStatuses
  <2> QED  BY <1>2, <2>1, <2>4, PersistOrEndSteps
<1>6. CASE Reject(c)
  <2>1. PICK s \in Steps :
          PersistOrEnd(c, [Marked(run[c], s, "failed") EXCEPT !.stage = "failed"], "rejectLog")
    BY <1>6 DEF Reject
  <2>2. Marked(run[c], s, "failed") \in Run
    BY <1>1, MarkedType DEF StepStatuses
  <2>3. [Marked(run[c], s, "failed") EXCEPT !.stage = "failed"] \in Run
    BY <2>2, RunType DEF StageStatuses
  <2> QED  BY <1>2, <2>1, <2>3, PersistOrEndSteps
<1>7. CASE RejectLog(c)
  BY <1>2, <1>3, <1>7, EmitsSteps DEF RejectLog
<1>8. CASE RejectFailed(c)
  BY <1>1, <1>3, <1>8, AppendSimulates, EndMoves DEF RejectFailed
<1> QED  BY <1>4, <1>5, <1>6, <1>7, <1>8

(* A step of a call, whichever it is.                                      *)
LEMMA CallSteps ==
  ASSUME EngineInv, NEW c \in Calls, CallStep(c)
  PROVE  Simulates /\ Moves(c)
<1>1. CASE Opening(c)
  BY <1>1, ExecuteAcquireSteps, DistrustedSteps, ValidateSteps, ReconcileSteps, StartSteps,
     PreflightSteps, ReuseSteps, RecoverStateSteps, RestageSteps, ResumeSteps DEF Opening
<1>2. CASE Looping(c)
  BY <1>2, StageSteps, PauseBeforeSteps, BlockStepSteps, BeginSteps, MarkSteps, ToolReturnsSteps,
     CompleteSteps, FailSteps, PauseSteps DEF Looping
<1>3. CASE Closing(c)
  BY <1>3, StageSteps, FinalizedSteps, ReleaseSteps DEF Closing
<1> QED  BY <1>1, <1>2, <1>3 DEF CallStep

-----------------------------------------------------------------------------
(* The invariant. *)

(* A transaction takes the lock for an execution, releases it or lets it   *)
(* be.                                                                     *)
LEMMA LockNamedKept ==
  ASSUME TypeOK, LockNamed, Simulates
  PROVE  LockNamed'
<1>1. ASSUME NEW e \in Execs, lock' = Released(e)
      PROVE  LockNamed'
  BY <1>1 DEF TypeOK, LockRow, LockNamed, Released
<1>2. CASE UNCHANGED lock
  BY <1>2 DEF LockNamed
<1>3. ASSUME NEW e \in Execs, NEW p \in Procs, LockStep(e, p)
      PROVE  LockNamed'
  BY <1>1, <1>2, <1>3 DEF LockStep, AcquireExecutionLock, AcquireConflict,
                          AcquireOrReuseExecutionLock, ReleaseExecutionLock, LockNamed
<1>4. ASSUME NEW e \in Execs, CheckpointStep(e, EngineMarks, Kinds)
      PROVE  LockNamed'
  BY <1>1, <1>2, <1>4 DEF CheckpointStep, StartExecutionState, SetCheckpointStatus,
       CompleteCheckpoint, AppendLedgerEvent, FinalizeExecutionTransition, ExecutionLeaseLapses
<1>5. ASSUME NEW e \in Execs, EngineRun(e)
      PROVE  LockNamed'
  BY <1>1, <1>2, <1>5 DEF EngineRun, PersistExecutionSnapshot, PauseBeforeExecutionForReview,
       PausedForReview, FinalizeExecution, PauseExecutionForReview
<1>6. ASSUME NEW e \in Execs, NEW p \in Procs, NEW s \in Steps, AttemptStep(e, p, s, EngineWrite)
      PROVE  LockNamed'
  BY <1>1, <1>2, <1>6 DEF AttemptStep, BeginExecutionAttempt, HeartbeatAttempt,
       CompleteExecutionAttempt, FailExecutionAttempt, AttemptLeaseLapses,
       PauseExecutionAttemptForReview, PausedForReview
<1>7. CASE QueueStep
  BY <1>2, <1>7 DEF QueueStep, ExpireRecoveryItems, RecoveryItemDue
<1>8. CASE UNCHANGED storeVars
  BY <1>2, <1>8 DEF storeVars
<1> QED  BY <1>3, <1>4, <1>5, <1>6, <1>7, <1>8 DEF Simulates, EngineStore

(* A call that moves keeps the types, and the step or the report it has in *)
(* hand.                                                                   *)
LEMMA MovesKeep ==
  ASSUME EngineTypeOK, CallsSound, NEW c \in Calls, Moves(c)
  PROVE  EngineTypeOK' /\ CallsSound'
<1>1. ASSUME NEW l \in Points, NEW m \in Run, NEW e \in Execs, Sound(l, m), Carry(c, l, m, e)
      PROVE  EngineTypeOK' /\ CallsSound'
  <2>1. EngineTypeOK'
    BY <1>1 DEF Carry, EngineTypeOK
  <2>2. ASSUME NEW d \in Calls PROVE Sound(pc'[d], run'[d])
    BY <1>1 DEF Carry, EngineTypeOK, CallsSound
  <2> QED  BY <2>1, <2>2 DEF CallsSound, Sound
<1>2. ASSUME NEW r \in Results, End(c, r)
      PROVE  EngineTypeOK' /\ CallsSound'
  <2>1. "done" \in Points /\ Sound("done", StagedRun)
    BY FreePoints DEF Points, InHandPoints, ReportPoints
  <2>2. EngineTypeOK'
    BY <1>2, <2>1, StagedType DEF End, EngineTypeOK
  <2>3. ASSUME NEW d \in Calls PROVE Sound(pc'[d], run'[d])
    BY <1>2, <2>1 DEF End, EngineTypeOK, CallsSound
  <2> QED  BY <2>2, <2>3 DEF CallsSound, Sound
<1> QED  BY <1>1, <1>2 DEF Moves

(* A crash takes calls off their points; it writes nothing.                *)
LEMMA CrashKeeps ==
  ASSUME EngineInv, NEW p \in Procs, Crash(p)
  PROVE  Simulates /\ EngineTypeOK' /\ CallsSound'
<1>1. "dead" \in Points /\ Sound("dead", StagedRun)
  BY FreePoints DEF Points, InHandPoints, ReportPoints
<1>2. EngineTypeOK'
  BY <1>1, StagedType DEF Crash, EngineInv, EngineTypeOK
<1>3. ASSUME NEW d \in Calls PROVE Sound(pc'[d], run'[d])
  BY <1>1 DEF Crash, EngineInv, CallsSound
<1>4. Simulates
  BY DEF Crash, Simulates
<1> QED  BY <1>2, <1>3, <1>4 DEF CallsSound, Sound

(* Time takes leases, of the rows and of the runs that were read of them.  *)
LEMMA LapseKeeps ==
  ASSUME EngineInv, LeaseLapse \/ ItemDue
  PROVE  Simulates /\ EngineTypeOK' /\ CallsSound'
<1>1. CASE AttemptLapse \/ ItemDue
  <2>1. EngineTypeOK' /\ CallsSound'
    BY <1>1 DEF AttemptLapse, ItemDue, callVars, EngineInv, EngineTypeOK, CallsSound, Sound
  <2>2. CASE AttemptLapse
    <3>1. PICK e \in Execs, s \in Steps :
            \E n \in DOMAIN attempts[e][s] : AttemptLeaseLapses(e, s, n)
      BY <2>2 DEF AttemptLapse
    <3> PICK n \in DOMAIN attempts[e][s] : AttemptLeaseLapses(e, s, n)
      BY <3>1
    <3>2. attempts[e][s] \in Seq(Attempt)
      BY DEF EngineInv, TypeOK
    <3>3. attempts[e][s][n] \in Attempt
      BY <3>2
    <3>4. attempts[e][s][n].proc \in Procs
      BY <3>3 DEF Attempt
    <3>5. AttemptStep(e, attempts[e][s][n].proc, s, EngineWrite)
      BY DEF AttemptStep
    <3> QED  BY <2>1, <3>4, <3>5, IsStoreStep
  <2>3. CASE ItemDue
    BY <2>1, <2>3 DEF ItemDue, QueueStep, Simulates, EngineStore
  <2> QED  BY <1>1, <2>2, <2>3
<1>2. ASSUME NEW e \in Execs, ExecutionLeaseLapses(e)
      PROVE  Simulates
  <2>1. CheckpointStep(e, EngineMarks, Kinds)
    BY <1>2 DEF CheckpointStep
  <2> QED  BY <2>1, IsStoreStep
<1>3. ASSUME run' \in [Calls -> Run], UNCHANGED <<pc, target, out, crashed>>,
             \A c \in Calls : run'[c].step = run[c].step /\ run'[c].seen = run[c].seen
      PROVE  EngineTypeOK' /\ CallsSound'
  BY <1>3 DEF EngineInv, EngineTypeOK, CallsSound, Sound
<1>4. \A c \in Calls : LET m == [run[c] EXCEPT !.live = FALSE]
                       IN  m \in Run /\ m.step = run[c].step /\ m.seen = run[c].seen
  <2> SUFFICES ASSUME NEW c \in Calls
               PROVE  LET m == [run[c] EXCEPT !.live = FALSE]
                      IN  m \in Run /\ m.step = run[c].step /\ m.seen = run[c].seen
    OBVIOUS
  <2>1. run[c] \in Run
    BY DEF EngineInv, EngineTypeOK
  <2>2. [run[c] EXCEPT !.live = FALSE] \in Run
    BY <2>1, RunType
  <2> QED  BY <2>1, <2>2, LapseTouchesLive
<1>5. CASE RowLapse
  BY <1>2, <1>3, <1>4, <1>5 DEF RowLapse, EngineInv, EngineTypeOK
<1>6. CASE CarriedLapse
  BY <1>3, <1>4, <1>6 DEF CarriedLapse, Simulates, EngineInv, EngineTypeOK
<1> QED  BY <1>1, <1>5, <1>6 DEF LeaseLapse

LEMMA EngineInvInit == EngineInit => EngineInv
<1> SUFFICES ASSUME EngineInit PROVE EngineInv
  OBVIOUS
<1>1. TypeOK /\ LockNamed
  BY TypeInit DEF EngineInit, StoreInit, LockNamed
<1>2. "idle" \in Points /\ (\A m : Sound("idle", m)) /\ "none" \in Results
  BY FreePoints DEF Points, InHandPoints, ReportPoints, Results
<1>3. EngineTypeOK
  BY <1>2, StagedType, CallsAssumption DEF EngineInit, EngineTypeOK
<1>4. CallsSound
  BY <1>2 DEF EngineInit, CallsSound
<1> QED  BY <1>1, <1>3, <1>4 DEF EngineInv

LEMMA EngineStep ==
  ASSUME EngineInv, [EngineNext]_vars
  PROVE  EngineInv' /\ Simulates /\ [StoreNext]_storeVars
<1>1. Simulates /\ EngineTypeOK' /\ CallsSound'
  <2>1. ASSUME NEW c \in Calls, CallStep(c) \/ Heartbeat(c)
        PROVE  Simulates /\ EngineTypeOK' /\ CallsSound'
    BY <2>1, CallSteps, HeartbeatSteps, MovesKeep DEF EngineInv
  <2>2. CASE UNCHANGED vars
    BY <2>2 DEF vars, callVars, Simulates, EngineInv, EngineTypeOK, CallsSound, Sound
  <2> QED  BY <2>1, <2>2, CrashKeeps, LapseKeeps DEF EngineNext
<1>2. [StoreNext]_storeVars
  BY <1>1, EngineStoreSteps
<1>3. TypeOK' /\ LockNamed'
  BY <1>1, <1>2, TypeKept, LockNamedKept DEF EngineInv
<1> QED  BY <1>1, <1>2, <1>3 DEF EngineInv

-----------------------------------------------------------------------------
(* The theorems. *)

(* The calls and the runs they carry stay well typed, a call that has a    *)
(* step to begin, end or mark has a step of the plan, and an unreleased    *)
(* lock names an execution.                                                *)
THEOREM EngineInvariant == EngineSpec => []EngineInv
<1>1. EngineInv /\ [EngineNext]_vars => EngineInv'
  BY EngineStep
<1> QED  BY <1>1, EngineInvInit, PTL DEF EngineSpec

(* continueExecution and its callers carry runs of the declared types,     *)
(* those that were hydrated from the rows or from a checkpoint included.   *)
THEOREM EngineTypeCorrect == EngineSpec => []EngineTypeOK
<1>1. EngineInv => EngineTypeOK
  BY DEF EngineInv
<1> QED  BY <1>1, EngineInvariant, PTL

(* executionEngine.js writes only through transactions: each step of any   *)
(* call in any process, a crash and the passing of time included, is one   *)
(* transaction of the store or none.                                       *)
THEOREM EngineImplementsStore == EngineSpec => StoreSpec
<1>1. EngineInit => StoreInit
  BY DEF EngineInit
<1>2. EngineInv /\ [EngineNext]_vars => [StoreNext]_storeVars
  BY EngineStep
<1> QED  BY <1>1, <1>2, EngineInvariant, PTL DEF EngineSpec, StoreSpec

(* Whatever calls are made, crash, stall, recover and decide, no step of   *)
(* an execution is recorded as completed twice.                            *)
THEOREM EngineCompletesOnce == EngineSpec => []AtMostOneCompletion
BY EngineImplementsStore, OneCompletion, PTL

(* No stale run that a call carries takes a completion out of the rows.    *)
THEOREM EngineKeepsCompletions == EngineSpec => []CompletionInRows
BY EngineImplementsStore, RowsKeepCompletions, PTL

(* No recovery, review or overtaken worker attempts a step again that its  *)
(* execution has completed.                                                *)
THEOREM EngineNeverRepeats == EngineSpec => CompletedIsSettled
BY EngineImplementsStore, CompletedStaysSettled, PTL
=============================================================================
