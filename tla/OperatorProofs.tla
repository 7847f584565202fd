--------------------------- MODULE OperatorProofs ---------------------------
(***************************************************************************)
(* Operators work on a plan over the engine's calls, with transactions of  *)
(* their own that reopen or end an execution whatever the table of allowed *)
(* transitions says.  What the engine promises of the rows, the checkpoint *)
(* and the order of the steps holds with them too, and what an operator    *)
(* has cancelled stays cancelled.                                          *)
(***************************************************************************)
EXTENDS OperatorRecovery, ExecutionOrderProofs, WellFoundedInduction

-----------------------------------------------------------------------------
(* Types. *)

LEMMA RetryTargets ==
  ASSUME NEW e, NEW s \in RetryTarget(e)
  PROVE  s \in Steps
BY OperatorAssumption DEF RetryTarget, StepsAt

(* The rows that the transactions of an operator write.                    *)
CancelledRun(e) ==
    [status |-> "cancelled", stage |-> Cancelled(snap[e].stage),
     steps |-> [s \in Steps |-> Cancelled(snap[e].steps[s])]]
RetriedRun(e, s) ==
    [status |-> "paused", stage |-> "pending",
     steps |-> [t \in Steps |-> IF t = s \/ (t > s /\ snap[e].steps[t] # "completed")
                                THEN "pending" ELSE snap[e].steps[t]]]

LEMMA OperatorRuns ==
  ASSUME TypeOK, NEW e \in Execs
  PROVE  CancelledRun(e) \in Write /\ \A s : RetriedRun(e, s) \in Write
BY DEF CancelledRun, RetriedRun, Write, TypeOK, Row, Cancelled, TerminalStep, ExecutionStatuses,
       StageStatuses, StepStatuses

LEMMA CancelTypes ==
  ASSUME TypeOK, NEW e \in Execs, CancelExecution(e)
  PROVE  TypeOK'
<1>1. snap' \in [Execs -> Row]
  <2>1. snap' = Unleased(e, CancelledRun(e))
    BY DEF CancelExecution, CancelledRun
  <2> QED  BY <2>1, OperatorRuns, WrittenType DEF TypeOK
<1>2. ckpt' \in Checkpoint
  BY DEF CancelExecution, TypeOK, Checkpoint, CheckpointStatuses
<1>3. lock' \in LockRow /\ ledger' \in [Execs -> [Kinds -> 0..2]]
  BY ReleasedType, LoggedType DEF CancelExecution, TypeOK
<1> QED  BY <1>1, <1>2, <1>3 DEF CancelExecution, TypeOK

LEMMA RetryTypes ==
  ASSUME TypeOK, NEW e \in Execs, NEW s \in Steps, RetryStep(e, s)
  PROVE  TypeOK'
<1>1. snap' \in [Execs -> Row]
  <2>1. snap' = Merged(e, RetriedRun(e, s))
    BY DEF RetryStep, RetriedRun
  <2> QED  BY <2>1, OperatorRuns, WrittenType DEF TypeOK
<1>2. ckpt' \in Checkpoint
  BY StepsAssumption DEF RetryStep, TypeOK, Checkpoint, CheckpointStatuses, Steps
<1>3. ledger' \in [Execs -> [Kinds -> 0..2]]
  BY LoggedType DEF RetryStep, TypeOK
<1> QED  BY <1>1, <1>2, <1>3 DEF RetryStep, TypeOK

(* Only a takeover, a cancellation and a retry touch the store.            *)
Request(c) ==
    \/ UNCHANGED storeVars
    \/ AcquireOrReuseExecutionLock(target[c], ProcOf[c]) \/ AcquireOrReuseConflict(target[c])
    \/ Action[c] = "cancel" /\ CancelExecution(target[c])
    \/ Action[c] = "retry" /\ \E s \in RetryTarget(target[c]) : RetryStep(target[c], s)

LEMMA RequestSteps ==
  ASSUME NEW c \in Calls, OperatorStep(c)
  PROVE  /\ Request(c) /\ UNCHANGED <<pc, run, out, crashed>>
         /\ UNCHANGED target \/ \E e \in Execs : HasRow(e) /\ target' = [target EXCEPT ![c] = e]
         /\ UNCHANGED target \/ place[c] = "new"
<1>1. CASE Ask(c)
  BY <1>1 DEF Ask, Request, Goes
<1>2. CASE TakeLock(c)
  BY <1>2 DEF TakeLock, Request, callVars
<1>3. CASE Cancel(c) \/ Retry(c)
  BY <1>3 DEF Cancel, Retry, Request, callVars
<1>4. CASE Refuse(c) \/ EngineRefuses(c) \/ StoreKey(c)
  BY <1>4 DEF Refuse, EngineRefuses, StoreKey, Request, vars, callVars
<1> QED  BY <1>1, <1>2, <1>3, <1>4 DEF OperatorStep

LEMMA TakeoverSimulates ==
  ASSUME EngineInv, NEW c \in Calls,
         AcquireOrReuseExecutionLock(target[c], ProcOf[c]) \/ AcquireOrReuseConflict(target[c])
  PROVE  LockStep(target[c], ProcOf[c]) /\ Simulates
<1>1. target[c] \in Execs /\ ProcOf[c] \in Procs
  BY CallsAssumption DEF EngineInv, EngineTypeOK
<1>2. LockStep(target[c], ProcOf[c])
  BY DEF LockStep, AcquireOrReuseConflict
<1> QED  BY <1>1, <1>2, IsStoreStep

LEMMA RequestKeepsEngineInv ==
  ASSUME EngineInv, NEW c \in Calls, OperatorStep(c)
  PROVE  EngineInv'
<1>1. /\ Request(c) /\ UNCHANGED <<pc, run, out, crashed>>
      /\ UNCHANGED target \/ \E e \in Execs : HasRow(e) /\ target' = [target EXCEPT ![c] = e]
  BY RequestSteps
<1>2. EngineTypeOK' /\ CallsSound'
  BY <1>1 DEF EngineInv, EngineTypeOK, CallsSound, Sound
<1>3. target[c] \in Execs
  BY DEF EngineInv, EngineTypeOK
<1>4. CASE UNCHANGED storeVars
  BY <1>2, <1>4 DEF EngineInv, TypeOK, LockNamed, storeVars
<1>5. CASE AcquireOrReuseExecutionLock(target[c], ProcOf[c]) \/ AcquireOrReuseConflict(target[c])
  BY <1>2, <1>5, TakeoverSimulates, EngineStoreSteps, TypeKept, LockNamedKept DEF EngineInv
<1>6. CASE CancelExecution(target[c])
  <2>1. LockNamed'
    BY <1>6 DEF CancelExecution, Released, LockNamed, EngineInv, TypeOK, LockRow
  <2> QED  BY <1>2, <1>3, <1>6, <2>1, CancelTypes DEF EngineInv
<1>7. CASE \E s \in RetryTarget(target[c]) : RetryStep(target[c], s)
  <2>1. LockNamed'
    BY <1>7 DEF RetryStep, LockNamed, EngineInv
  <2> QED  BY <1>2, <1>3, <1>7, <2>1, RetryTargets, RetryTypes DEF EngineInv
<1> QED  BY <1>1, <1>4, <1>5, <1>6, <1>7 DEF Request

(* A step is a request of an operator's, or a step of the engine's.        *)
LEMMA OperatorMoves ==
  ASSUME [OperatorNext]_allVars
  PROVE  [EngineNext]_vars \/ \E c \in Calls : OperatorStep(c)
BY DEF OperatorNext, Engine, Environment, EngineNext, allVars

LEMMA OperatorEngineInv == OperatorSpec => []EngineInv
<1>1. OperatorInit => EngineInv
  BY EngineInvInit DEF OperatorInit
<1>2. EngineInv /\ [OperatorNext]_allVars => EngineInv'
  BY OperatorMoves, EngineStep, RequestKeepsEngineInv
<1> QED  BY <1>1, <1>2, PTL DEF OperatorSpec

(* Approvals, rejections, retries and cancellations, in any number and     *)
(* from any process, whatever step they name, leave the calls of the       *)
(* engine and the runs that they carry well typed.                         *)
THEOREM OperatorTypeCorrect == OperatorSpec => []EngineTypeOK
<1>1. EngineInv => EngineTypeOK
  BY DEF EngineInv
<1> QED  BY <1>1, OperatorEngineInv, PTL

-----------------------------------------------------------------------------
(* One execution has rows. *)

LEMMA RequestNamed ==
  ASSUME EngineInv, OnlyNamed, NEW c \in Calls, OperatorStep(c)
  PROVE  OnlyNamed'
<1>1. /\ Request(c)
      /\ UNCHANGED target \/ \E e \in Execs : HasRow(e) /\ target' = [target EXCEPT ![c] = e]
      /\ target \in [Calls -> Execs] /\ target[c] \in NamedByCalls /\ target[c] \in Execs /\ TypeOK
  BY RequestSteps DEF EngineInv, EngineTypeOK, OnlyNamed
<1>2. \A d \in Calls : target'[d] \in NamedByCalls
  BY <1>1 DEF OnlyNamed, HasRow
<1>3. lock'.exec \in {lock.exec, target[c]}
  <2>1. CASE UNCHANGED lock
    BY <2>1
  <2>2. CASE CancelExecution(target[c])
    BY <1>1, <2>2 DEF CancelExecution, Released, TypeOK, LockRow
  <2>3. CASE AcquireOrReuseExecutionLock(target[c], ProcOf[c])
    BY <2>3 DEF AcquireOrReuseExecutionLock
  <2> QED  BY <1>1, <2>1, <2>2, <2>3 DEF Request, storeVars, AcquireOrReuseConflict, AcquireConflict, RetryStep
<1>4. \A e \in Execs \ {target[c]} : snap'[e].status = snap[e].status
  BY <1>1 DEF Request, storeVars, AcquireOrReuseExecutionLock, AcquireOrReuseConflict, AcquireConflict,
              CancelExecution, RetryStep, Unleased, Merged, Overwritten, LeaseMirrored, TypeOK
<1> QED  BY <1>1, <1>2, <1>3, <1>4 DEF OnlyNamed

(* Where the calls all name one execution, operators give rows to no other *)
(* one: they work for an execution that has rows, or wait for one.         *)
THEOREM OperatorOneExecution == OperatorSpec /\ OneId => []AtMostOneExecution
<1>1. OperatorInit => OnlyNamed
  BY DEF OperatorInit, EngineInit, StoreInit, OnlyNamed, NamedByCalls, NoRow
<1>2. EngineInv /\ OnlyNamed /\ [OperatorNext]_allVars => OnlyNamed'
  BY OperatorMoves, NamedStep, RequestNamed
<1>3. ASSUME OneId PROVE OperatorSpec => []AtMostOneExecution
  <2>1. OnlyNamed => AtMostOneExecution
    BY <1>3 DEF OneId, OnlyNamed, NamedByCalls, AtMostOneExecution, HasRow
  <2> QED  BY <1>1, <1>2, <2>1, OperatorEngineInv, PTL DEF OperatorSpec
<1> QED  BY <1>3

-----------------------------------------------------------------------------
(* What an operator has cancelled. *)

(* What happens to a cancelled execution and to those that are not.        *)
CancelKept ==
    \A e \in Execs :
      IF snap[e].status = "cancelled"
      THEN /\ snap'[e].status = "cancelled" /\ snap'[e].steps = snap[e].steps
           /\ \A s \in Steps : Len(attempts'[e][s]) = Len(attempts[e][s])
      ELSE snap'[e].status # "cancelled"

(* A checkpoint that says failed comes of an execution that is not         *)
(* cancelled: an attempt of it failed, or it was finalised.                *)
FailedNotCancelled == ckpt.status = "failed" => \A e \in Execs : snap[e].status # "cancelled"
FailsRightly ==
    ckpt'.status = "failed" =>
      \/ ckpt.status = "failed"
      \/ \E e \in Execs : HasRow(e) /\ snap[e].status # "cancelled"

(* No run that the engine carries may be written over cancelled rows.      *)
LEMMA CancelRefuses ==
  ASSUME NEW e \in Execs, NEW w, w.status # "cancelled", MayPersist(e, w)
  PROVE  snap[e].status # "cancelled"
BY DEF MayPersist, LegalChange

LEMMA RowsKept ==
  ASSUME \A e \in Execs : KeepsRow(e), UNCHANGED attempts
  PROVE  CancelKept
BY DEF KeepsRow, CancelKept

(* A run of the engine's written over the rows of execution e.             *)
LEMMA WrittenCancelKept ==
  ASSUME TypeOK, NEW e \in Execs, NEW w \in Write, w.status # "cancelled", MayPersist(e, w),
         \/ \E o, l : snap' = Overwritten(e, w, o, l)
         \/ snap' = Merged(e, w)
         \/ snap' = Unleased(e, w),
         \A d \in Execs \ {e}, s \in Steps : Len(attempts'[d][s]) = Len(attempts[d][s])
  PROVE  CancelKept /\ snap[e].status # "cancelled"
<1>1. snap[e].status # "cancelled"
  BY CancelRefuses
<1>2. snap'[e].status = w.status /\ \A d \in Execs \ {e} : KeepsRow(d)
  BY OverwritesRow
<1> QED  BY <1>1, <1>2 DEF CancelKept, KeepsRow

LEMMA LockStepCancelKept ==
  ASSUME TypeOK, NEW e \in Execs, NEW p \in Procs, LockStep(e, p)
  PROVE  CancelKept /\ UNCHANGED ckpt
<1>1. UNCHANGED <<attempts, ckpt>>
  BY DEF LockStep, AcquireExecutionLock, AcquireConflict, AcquireOrReuseExecutionLock,
         ReleaseExecutionLock
<1> QED  BY <1>1, LockStepCalm, RowsKept DEF Calm

LEMMA CheckpointStepCancelKept ==
  ASSUME TypeOK, NEW e \in Execs, CheckpointStep(e, EngineMarks, Kinds)
  PROVE  CancelKept /\ (ckpt'.status = "failed" => ckpt.status = "failed")
<1>1. UNCHANGED attempts
  BY DEF CheckpointStep, StartExecutionState, SetCheckpointStatus, CompleteCheckpoint,
         AppendLedgerEvent, FinalizeExecutionTransition, ExecutionLeaseLapses
<1>2. \/ \E o : snap' = LeaseMirrored(snap, e, o)
      \/ snap' = [snap EXCEPT ![e].live = FALSE]
      \/ UNCHANGED snap
  BY DEF CheckpointStep, StartExecutionState, SetCheckpointStatus, CompleteCheckpoint,
         AppendLedgerEvent, FinalizeExecutionTransition, ExecutionLeaseLapses
<1>3. ckpt'.status = "failed" => ckpt.status = "failed"
  <2>1. CASE \E st \in EngineMarks : ckpt' = [ckpt EXCEPT !.status = st]
    BY <2>1, MarkKeeps DEF EngineMarks
  <2>2. CASE StartExecutionState \/ CompleteCheckpoint
    BY <2>2 DEF StartExecutionState, CompleteCheckpoint, NoCheckpoint, TypeOK, Checkpoint
  <2>3. CASE UNCHANGED ckpt
    BY <2>3
  <2> QED  BY <2>1, <2>2, <2>3
           DEF CheckpointStep, SetCheckpointStatus, AppendLedgerEvent, FinalizeExecutionTransition,
               ExecutionLeaseLapses
<1> QED  BY <1>1, <1>2, <1>3, MirrorKeepsRows, RowsKept

LEMMA RunCancelKept ==
  ASSUME TypeOK, NEW e \in Execs, EngineRun(e)
  PROVE  CancelKept /\ FailsRightly
<1>1. PICK w \in EngineWrite :
        \/ \E p \in Procs \cup {NoProc}, live \in BOOLEAN : PersistExecutionSnapshot(e, w, p, live)
        \/ \E s \in Steps : PauseBeforeExecutionForReview(e, s, w)
        \/ \E st \in {"completed", "failed"} : FinalizeExecution(e, w, st)
        \/ PauseExecutionForReview(e, w)
  BY DEF EngineRun
<1>2. w \in Write /\ w.status # "cancelled"
  BY DEF EngineWrite
<1>3. /\ MayPersist(e, w) /\ UNCHANGED attempts
      /\ \/ \E o, l : snap' = Overwritten(e, w, o, l)
         \/ snap' = Merged(e, w)
         \/ snap' = Unleased(e, w)
  BY <1>1 DEF PersistExecutionSnapshot, PauseBeforeExecutionForReview, PausedForReview,
              MayPauseBefore, FinalizeExecution, MayFinalize, PauseExecutionForReview
<1>4. CancelKept /\ snap[e].status # "cancelled"
  BY <1>2, <1>3, WrittenCancelKept
<1>5. FailsRightly
  <2>1. CASE \E st \in {"completed", "failed"} : FinalizeExecution(e, w, st)
    BY <1>4, <2>1 DEF FinalizeExecution, MayFinalize, FailsRightly
  <2>2. CASE ~\E st \in {"completed", "failed"} : FinalizeExecution(e, w, st)
    BY <1>1, <2>2 DEF PersistExecutionSnapshot, PauseBeforeExecutionForReview, PausedForReview,
         CheckpointReview, PauseExecutionForReview, FailsRightly, TypeOK, Checkpoint
  <2> QED  BY <2>1, <2>2
<1> QED  BY <1>4, <1>5

LEMMA AttemptStepCancelKept ==
  ASSUME TypeOK, NEW e \in Execs, NEW p \in Procs, NEW s \in Steps, AttemptStep(e, p, s, EngineWrite)
  PROVE  CancelKept /\ FailsRightly
<1>1. CASE BeginExecutionAttempt(e, p, s)
  <2> DEFINE w == RunningSnapshot(e, s)
  <2>0. "running" \in StepStatuses /\ snap \in [Execs -> Row]
    BY DEF StepStatuses, TypeOK
  <2>1. w.status = "running" /\ w \in Write
    BY <2>0, SnapshotType DEF RunningSnapshot
  <2>2. \A d \in Execs \ {e}, t \in Steps : Len(attempts'[d][t]) = Len(attempts[d][t])
    BY <1>1 DEF BeginExecutionAttempt, TypeOK
  <2>3. MayPersist(e, w) /\ snap' = Merged(e, w)
    BY <1>1 DEF BeginExecutionAttempt, MayBegin
  <2>4. ckpt'.status = "running"
    BY <1>1 DEF BeginExecutionAttempt, CheckpointBefore, TypeOK, Checkpoint
  <2> HIDE DEF w
  <2> QED  BY <2>1, <2>2, <2>3, <2>4, WrittenCancelKept DEF FailsRightly
<1>2. ASSUME NEW n \in DOMAIN attempts[e][s], NEW st \in {"completed", "failed"},
             \/ st = "completed" /\ CompleteExecutionAttempt(e, s, n)
             \/ st = "failed" /\ FailExecutionAttempt(e, s, n)
      PROVE  CancelKept /\ FailsRightly
  <2> DEFINE w == TerminalSnapshot(e, s, st)
  <2>1. w.status = "running" /\ w \in Write
    BY SnapshotType DEF TerminalSnapshot, TypeOK, StepStatuses
  <2>2. \A d \in Execs, t \in Steps : Len(attempts'[d][t]) = Len(attempts[d][t])
    BY <1>2, EndedLengths DEF CompleteExecutionAttempt, FailExecutionAttempt
  <2>3. MayPersist(e, w) /\ snap' = Merged(e, w) /\ HasRow(e)
    BY <1>2 DEF CompleteExecutionAttempt, FailExecutionAttempt, MayEndAttempt, StepIsOpen, HasRow
  <2> HIDE DEF w
  <2>4. CancelKept /\ snap[e].status # "cancelled"
    BY <2>1, <2>2, <2>3, WrittenCancelKept
  <2> QED  BY <2>3, <2>4 DEF FailsRightly
<1>3. ASSUME NEW n \in DOMAIN attempts[e][s], HeartbeatAttempt(e, p, s, n) \/ AttemptLeaseLapses(e, s, n)
      PROVE  CancelKept /\ FailsRightly
  <2>1. \A d \in Execs, t \in Steps : Len(attempts'[d][t]) = Len(attempts[d][t])
    <3>1. \E b : attempts' = [attempts EXCEPT ![e][s][n].live = b]
      BY <1>3 DEF HeartbeatAttempt, AttemptLeaseLapses
    <3> QED  BY <3>1, EndedLengths
  <2>2. \A d \in Execs : KeepsRow(d)
    <3>1. (\E o : snap' = LeaseMirrored(snap, e, o)) \/ UNCHANGED snap
      BY <1>3 DEF HeartbeatAttempt, AttemptLeaseLapses
    <3> QED  BY <3>1, MirrorKeepsRows
  <2>3. UNCHANGED ckpt
    BY <1>3 DEF HeartbeatAttempt, AttemptLeaseLapses
  <2> QED  BY <2>1, <2>2, <2>3 DEF CancelKept, KeepsRow, FailsRightly
<1>4. ASSUME NEW n \in DOMAIN attempts[e][s], NEW w \in EngineWrite,
             PauseExecutionAttemptForReview(e, s, n, w)
      PROVE  CancelKept /\ FailsRightly
  <2>1. w \in Write /\ w.status # "cancelled"
    BY DEF EngineWrite
  <2>2. \A d \in Execs, t \in Steps : Len(attempts'[d][t]) = Len(attempts[d][t])
    BY <1>4, EndedLengths DEF PauseExecutionAttemptForReview
  <2>3. MayPersist(e, w) /\ (snap' = Merged(e, w) \/ snap' = Unleased(e, w))
    BY <1>4 DEF PauseExecutionAttemptForReview, MayPauseAttempt, PausedForReview
  <2>4. ckpt'.status = "awaiting_review"
    BY <1>4 DEF PauseExecutionAttemptForReview, PausedForReview, CheckpointReview, TypeOK, Checkpoint
  <2> QED  BY <2>1, <2>2, <2>3, <2>4, WrittenCancelKept DEF FailsRightly
<1> QED  BY <1>1, <1>2, <1>3, <1>4 DEF AttemptStep

LEMMA EngineCancelKept ==
  ASSUME TypeOK, Simulates
  PROVE  CancelKept /\ FailsRightly
<1>1. CASE QueueStep \/ UNCHANGED storeVars
  BY <1>1, RowsKept DEF QueueStep, ExpireRecoveryItems, RecoveryItemDue, storeVars, KeepsRow, FailsRightly
<1> QED  BY <1>1, LockStepCancelKept, CheckpointStepCancelKept, RunCancelKept, AttemptStepCancelKept
         DEF Simulates, EngineStore, FailsRightly

(* An operator's transactions: a cancelled execution can be neither        *)
(* cancelled again nor retried.                                            *)
LEMMA RequestCancelKept ==
  ASSUME EngineInv, FailedNotCancelled, NEW c \in Calls, OperatorStep(c)
  PROVE  /\ \A e \in Execs : snap[e].status = "cancelled" =>
              /\ snap'[e].status = "cancelled" /\ snap'[e].steps = snap[e].steps
              /\ \A s \in Steps : Len(attempts'[e][s]) = Len(attempts[e][s])
         /\ AtMostOneExecution => FailedNotCancelled'
<1>1. Request(c) /\ target[c] \in Execs /\ TypeOK
  BY RequestSteps DEF EngineInv, EngineTypeOK
<1>2. CASE UNCHANGED storeVars
  BY <1>2 DEF storeVars, FailedNotCancelled
<1>3. CASE AcquireOrReuseExecutionLock(target[c], ProcOf[c]) \/ AcquireOrReuseConflict(target[c])
  <2>1. CancelKept /\ UNCHANGED ckpt
    BY <1>1, <1>3, TakeoverSimulates, LockStepCancelKept, CallsAssumption
  <2> QED  BY <2>1 DEF CancelKept, FailedNotCancelled
<1>4. CASE CancelExecution(target[c])
  <2>1. snap[target[c]].status # "cancelled" /\ UNCHANGED attempts /\ ckpt'.status # "failed"
    BY <1>1, <1>4, MarkKeeps DEF CancelExecution, MayCancel, IsOver, TerminalExecution
  <2>2. \A d \in Execs \ {target[c]} : KeepsRow(d)
    BY <1>1, <1>4 DEF CancelExecution, Unleased, Overwritten, TypeOK, KeepsRow
  <2> QED  BY <2>1, <2>2 DEF KeepsRow, FailedNotCancelled
<1>5. ASSUME NEW s, RetryStep(target[c], s)
      PROVE  /\ \A e \in Execs : snap[e].status = "cancelled" => KeepsRow(e)
             /\ UNCHANGED attempts /\ ckpt'.status # "failed"
  <2>1. snap[target[c]].status # "cancelled" /\ UNCHANGED attempts /\ ckpt'.status # "failed"
    BY <1>1, <1>5 DEF RetryStep, MayRetry, MayCancel, IsOver, TerminalExecution, FailedNotCancelled
  <2>2. \A d \in Execs \ {target[c]} : KeepsRow(d)
    BY <1>1, <1>5 DEF RetryStep, Merged, Overwritten, TypeOK, KeepsRow
  <2> QED  BY <2>1, <2>2
<1> QED  BY <1>1, <1>2, <1>3, <1>4, <1>5 DEF Request, KeepsRow, FailedNotCancelled

(* No approval, retry or worker of another process that read its rows      *)
(* before reopens an execution that an operator has cancelled, begins a    *)
(* step of it or writes one, and no operator reopens it later: the store   *)
(* refuses what they carry, and a checkpoint that says failed, which would *)
(* let a retry in, is never that of a cancelled execution.  With rows for  *)
(* two executions it could be.                                             *)
THEOREM CancelStands == OperatorSpec /\ []AtMostOneExecution => CancelHolds
<1> DEFINE Stands ==
      \A e \in Execs : snap[e].status = "cancelled" =>
        /\ snap'[e].status = "cancelled" /\ snap'[e].steps = snap[e].steps
        /\ \A s \in Steps : Len(attempts'[e][s]) = Len(attempts[e][s])
<1>1. OperatorInit => FailedNotCancelled
  <2>1. OperatorInit => ckpt = NoCheckpoint
    BY DEF OperatorInit, EngineInit, StoreInit
  <2>2. NoCheckpoint.status # "failed"
    BY DEF NoCheckpoint
  <2> QED  BY <2>1, <2>2 DEF FailedNotCancelled
<1>2. EngineInv /\ AtMostOneExecution /\ FailedNotCancelled /\ [OperatorNext]_allVars
        => FailedNotCancelled' /\ Stands
  <2> SUFFICES ASSUME EngineInv, AtMostOneExecution, FailedNotCancelled, [OperatorNext]_allVars
               PROVE  FailedNotCancelled' /\ Stands
    OBVIOUS
  <2>1. CASE [EngineNext]_vars
    <3>1. CancelKept /\ FailsRightly
      BY <2>1, EngineStep, EngineCancelKept DEF EngineInv
    <3>2. FailedNotCancelled'
      BY <3>1 DEF CancelKept, FailsRightly, FailedNotCancelled, AtMostOneExecution, HasRow
    <3> QED  BY <3>1, <3>2 DEF CancelKept
  <2>2. ASSUME NEW c \in Calls, OperatorStep(c) PROVE FailedNotCancelled' /\ Stands
    BY <2>2, RequestCancelKept
  <2> QED  BY <2>1, <2>2, OperatorMoves
<1>3. EngineInv /\ AtMostOneExecution /\ FailedNotCancelled /\ [OperatorNext]_allVars
        => [Stands]_allVars
  BY <1>2
<1>4. CancelHolds <=> [][Stands]_allVars
  BY DEF CancelHolds
<1> HIDE DEF Stands
<1> QED  BY <1>1, <1>2, <1>3, <1>4, OperatorEngineInv, PTL DEF OperatorSpec

-----------------------------------------------------------------------------
(* The order of the steps, and no step completed twice, where operators    *)
(* let a retry choose its step. *)

(* The step that the checkpoint stands at has not completed, and before    *)
(* there is a checkpoint nothing is attempted.                             *)
CursorOpen  == \A e \in Execs : ckpt.cur \in Steps => ~Done(attempts, e, ckpt.cur)
NothingYet  == ckpt.status = "none" => \A e \in Execs, s \in Steps : attempts[e][s] = << >>

(* A request that has not been looked at carries no run.                   *)
Places == {"new", "lock", "act", "engine", "store", "answered"}
NewcomersIdle ==
    /\ place \in [Calls -> Places]
    /\ \A c \in Calls : place[c] = "new" => pc[c] \in {"idle", "dead"} /\ Behind(run[c]) = {}

LEMMA NewcomersIdleStep ==
  ASSUME EngineInv, NewcomersIdle, [OperatorNext]_allVars
  PROVE  NewcomersIdle'
<1>1. ASSUME NEW c \in Calls, Engine(c)
      PROVE  NewcomersIdle'
  <2>1. \A d \in Calls \ {c} : pc'[d] = pc[d] /\ run'[d] = run[d]
    BY <1>1, Targets DEF Engine
  <2> QED  BY <1>1, <2>1 DEF Engine, NewcomersIdle
<1>2. ASSUME NEW c \in Calls, OperatorStep(c)
      PROVE  NewcomersIdle'
  <2>1. UNCHANGED <<pc, run>>
    BY <1>2, RequestSteps
  <2>2. \E to \in Places \ {"new"} : place' = [place EXCEPT ![c] = to]
    BY <1>2 DEF OperatorStep, Ask, TakeLock, Cancel, Retry, Refuse, EngineRefuses, StoreKey, Goes, Places
  <2> QED  BY <2>1, <2>2 DEF NewcomersIdle
<1>3. CASE (Environment /\ UNCHANGED opVars) \/ UNCHANGED allVars
  <2>1. (\E p \in Procs : Crash(p)) \/ LeaseLapse \/ ItemDue \/ UNCHANGED vars
    BY <1>3 DEF Environment, allVars
  <2>2. UNCHANGED place
    BY <1>3 DEF opVars, allVars
  <2>3. ASSUME NEW c \in Calls, place[c] = "new"
        PROVE  pc'[c] \in {"idle", "dead"} /\ Behind(run'[c]) = {}
    <3>1. run[c] \in Run /\ pc[c] \in {"idle", "dead"} /\ Behind(run[c]) = {}
      BY <2>3 DEF NewcomersIdle, EngineInv, EngineTypeOK
    <3>2. ASSUME NEW p \in Procs, Crash(p)
          PROVE  pc'[c] \in {"idle", "dead"} /\ run'[c] \in {run[c], StagedRun}
      BY <3>1, <3>2 DEF Crash
    <3>3. CASE ~\E p \in Procs : Crash(p)
      <4>1. UNCHANGED pc
        BY <2>1, <3>3 DEF LeaseLapse, AttemptLapse, RowLapse, CarriedLapse, ItemDue, vars, callVars
      <4>2. run \in [Calls -> Run]
        BY DEF EngineInv, EngineTypeOK
      <4>3. run'[c] = run[c] \/ run'[c] = [run[c] EXCEPT !.live = FALSE]
        <5>1. CASE RowLapse
          BY <4>2, <5>1 DEF RowLapse
        <5>2. CASE CarriedLapse
          <6>1. PICK b \in Calls : run' = [run EXCEPT ![b].live = FALSE]
            BY <5>2 DEF CarriedLapse
          <6> QED  BY <4>2, <6>1
        <5>3. CASE AttemptLapse \/ ItemDue \/ UNCHANGED vars
          BY <5>3 DEF AttemptLapse, ItemDue, vars, callVars
        <5> QED  BY <2>1, <3>3, <5>1, <5>2, <5>3 DEF LeaseLapse
      <4>4. run'[c].steps = run[c].steps /\ run'[c].from = run[c].from
        BY <3>1, <4>3 DEF Run
      <4>5. Behind(run'[c]) = Behind(run[c])
        BY <4>4 DEF Behind
      <4> QED  BY <3>1, <4>1, <4>5
    <3> QED  BY <3>1, <3>2, <3>3, StagedFits
  <2> QED  BY <2>2, <2>3 DEF NewcomersIdle
<1> QED  BY <1>1, <1>2, <1>3 DEF OperatorNext

(* A set of numbers that is not empty has a least one.                     *)
LEMMA Least ==
  ASSUME NEW T \in SUBSET Nat, T # {}
  PROVE  \E m \in T : \A n \in T : m <= n
<1>1. PICK m \in T : \A n \in T : ~(<<n, m>> \in OpToRel(<, Nat))
  BY WFMin, NatLessThanWellFounded, Zenon
<1>2. \A n \in T : <<n, m>> \in OpToRel(<, Nat) <=> n < m
  BY DEF OpToRel
<1>3. \A n \in T : ~(n < m)
  BY <1>1, <1>2, Zenon
<1> QED  BY <1>3

(* Which step a retry chooses of its own accord: one that has not          *)
(* completed in any execution, and before which none has failed.           *)
LEMMA RetryFinds ==
  ASSUME TypeOK, Named = {}, NEW e \in Execs, NEW s \in RetryTarget(e)
  PROVE  /\ s \in Steps
         /\ snap[e].steps[s] \in {"failed", "paused_for_review"} \/ s = ckpt.cur
         /\ \A t \in Steps : t < s => snap[e].steps[t] # "failed"
         /\ snap[e].steps[s] # "failed" => \A t \in Steps : snap[e].steps[t] # "failed"
<1> DEFINE First(status) ==
      {r \in StepsAt(e, status) : \A t \in StepsAt(e, status) : r <= t}
<1>1. s \in Steps
  BY RetryTargets
<1>2. CASE StepsAt(e, "failed") # {}
  <2>1. StepsAt(e, "failed") \in SUBSET Nat
    BY StepsAssumption DEF StepsAt, Steps
  <2>2. First("failed") # {}
    BY <1>2, <2>1, Least
  <2>3. s \in First("failed")
    BY <2>2 DEF RetryTarget
  <2> QED  BY <1>1, <2>3, StepsAssumption DEF StepsAt, Steps
<1>3. CASE StepsAt(e, "failed") = {}
  <2>1. \A t \in Steps : snap[e].steps[t] # "failed"
    BY <1>3 DEF StepsAt
  <2>2. s \in First("paused_for_review") \/ s = ckpt.cur
    BY <1>3 DEF RetryTarget
  <2> QED  BY <1>1, <2>1, <2>2 DEF StepsAt
<1> QED  BY <1>2, <1>3

(* Only the execution that a request works for is touched.                 *)
LEMMA RetryWrites ==
  ASSUME TypeOK, NEW e \in Execs, NEW s \in Steps, RetryStep(e, s)
  PROVE  /\ Writes(e, RetriedRun(e, s)) /\ KeepsLedger(e) /\ UNCHANGED attempts
         /\ snap' = Merged(e, RetriedRun(e, s))
<1>1. snap' = Merged(e, RetriedRun(e, s)) /\ UNCHANGED attempts
      /\ ledger' = Logged(ledger, e, {"lease"})
  BY DEF RetryStep, RetriedRun
<1>2. /\ snap'[e].status = RetriedRun(e, s).status /\ snap'[e].steps = RetriedRun(e, s).steps
      /\ \A d \in Execs \ {e} : KeepsRow(d)
  BY <1>1, OperatorRuns, OverwritesRow
<1>3. \A d \in Execs : KeepsLedger(d)
  BY <1>1, LoggedKeeps
<1>4. CheckpointStays
  BY DEF RetryStep, CheckpointStays
<1> QED  BY <1>1, <1>2, <1>3, <1>4 DEF Writes, Begins

LEMMA CancelWrites ==
  ASSUME TypeOK, NEW e \in Execs, CancelExecution(e)
  PROVE  /\ Writes(e, CancelledRun(e)) /\ KeepsLedger(e) /\ UNCHANGED attempts
         /\ snap' = Unleased(e, CancelledRun(e)) /\ ckpt'.last = ckpt.last /\ ckpt'.cur = ckpt.cur
<1>1. snap' = Unleased(e, CancelledRun(e)) /\ UNCHANGED attempts
      /\ ledger' = Logged(ledger, e, {"cancelled", "lease"})
      /\ ckpt' = [ckpt EXCEPT !.status = "cancelled"]
  BY DEF CancelExecution, CancelledRun
<1>2. /\ snap'[e].status = CancelledRun(e).status /\ snap'[e].steps = CancelledRun(e).steps
      /\ \A d \in Execs \ {e} : KeepsRow(d)
  BY <1>1, OperatorRuns, OverwritesRow
<1>3. \A d \in Execs : KeepsLedger(d)
  BY <1>1, LoggedKeeps
<1>4. CheckpointStays /\ ckpt'.last = ckpt.last /\ ckpt'.cur = ckpt.cur
  BY <1>1, MarkKeeps DEF CheckpointStays, TypeOK, Checkpoint
<1> QED  BY <1>1, <1>2, <1>3, <1>4 DEF Writes, Begins

(* Both keep the completed steps of the rows.                              *)
LEMMA OperatorKeeps ==
  ASSUME TypeOK, NEW e \in Execs, NEW w \in Write, Writes(e, w),
         \A t \in Steps : snap[e].steps[t] = "completed" => w.steps[t] = "completed"
  PROVE  Kept
<1>1. w.status # "none"
  BY DEF Write, ExecutionStatuses
<1> QED  BY <1>1 DEF Writes, Kept, HasRow, KeepsRow

(* A retry that chooses its step chooses one that no execution has         *)
(* completed, so that the checkpoint is not taken back.                    *)
LEMMA RetryUndone ==
  ASSUME TypeOK, CompletionInv, StoreOrder, CursorOpen, AtMostOneExecution', Named = {},
         NEW e \in Execs, NEW s \in RetryTarget(e), RetryStep(e, s)
  PROVE  /\ \A d \in Execs : ~Done(attempts, d, s)
         /\ ckpt'.last = ckpt.last /\ ckpt'.cur = s
<1>1. s \in Steps /\ (snap[e].steps[s] # "completed" \/ s = ckpt.cur)
  BY RetryFinds
<1>2. Writes(e, RetriedRun(e, s)) /\ RetriedRun(e, s).status = "paused"
  BY <1>1, RetryWrites DEF RetriedRun
<1>3. ASSUME NEW d \in Execs, NEW t \in Steps, Done(attempts, d, t)
      PROVE  d = e /\ HasRow(d) /\ snap[d].steps[t] = "completed"
  <2>1. HasRow(d) /\ snap[d].steps[t] = "completed"
    BY <1>3, DoneIs DEF CompletionInv, CompletionInRows
  <2> QED  BY <1>2, <2>1 DEF Writes, KeepsRow, HasRow, AtMostOneExecution
<1>4. \A d \in Execs : ~Done(attempts, d, s)
  BY <1>1, <1>3 DEF CursorOpen
<1>5. ckpt.last < s
  <2>1. ckpt.last \in 0..NumSteps /\ s \in 1..NumSteps
    BY <1>1 DEF TypeOK, Checkpoint, Steps
  <2>2. CASE ckpt.last >= s
    <3>1. ckpt.last \in Steps /\ ckpt.last > 0 /\ s \in 1..ckpt.last
      BY <2>1, <2>2, StepsAssumption DEF Steps
    <3>2. PICK d \in Execs : IsCompleted(d, ckpt.last)
      BY <3>1 DEF CompletionInv, LastStepIsCompleted
    <3>3. HasRow(d)
      BY <3>1, <3>2 DEF CompletionInv, CompletionInRows
    <3> QED  BY <1>4, <3>1, <3>3 DEF StoreOrder, CheckpointTrue, HasRow
  <2> QED  BY <2>1, <2>2, StepsAssumption
<1>6. ckpt' = [status |-> "paused", cur |-> s, last |-> ckpt.last]
  BY <1>5 DEF RetryStep
<1> QED  BY <1>4, <1>6

(* What requests do to the completions of the plan, and to its order.      *)
LEMMA RequestKeepsCompletions ==
  ASSUME EngineInv, CompletionInv, StoreOrder, CursorOpen, AtMostOneExecution', Named = {},
         NEW c \in Calls, Request(c)
  PROVE  CompletionInv' /\ UNCHANGED attempts
<1>1. target[c] \in Execs /\ TypeOK
  BY DEF EngineInv, EngineTypeOK
<1>2. CASE UNCHANGED storeVars
  BY <1>2, CompletionStep, <1>1 DEF storeVars
<1>3. CASE AcquireOrReuseExecutionLock(target[c], ProcOf[c]) \/ AcquireOrReuseConflict(target[c])
  <2>1. [StoreNext]_storeVars
    BY <1>3, TakeoverSimulates, EngineStoreSteps
  <2>2. UNCHANGED attempts
    BY <1>3 DEF AcquireOrReuseExecutionLock, AcquireOrReuseConflict, AcquireConflict
  <2> QED  BY <1>1, <2>1, <2>2, CompletionStep
<1>4. CASE CancelExecution(target[c])
  <2>1. \A t \in Steps : snap[target[c]].steps[t] = "completed"
          => CancelledRun(target[c]).steps[t] = "completed"
    BY DEF CancelledRun, Cancelled, TerminalStep
  <2>2. Kept /\ NoNewCompletion /\ UNCHANGED attempts
    BY <1>1, <1>4, <2>1, CancelWrites, OperatorRuns, OperatorKeeps, SameAttempts
  <2> QED  BY <1>1, <2>2, CompletionsKept
<1>5. ASSUME NEW s \in RetryTarget(target[c]), RetryStep(target[c], s)
      PROVE  CompletionInv' /\ UNCHANGED attempts
  <2>1. s \in Steps /\ ~Done(attempts, target[c], s) /\ ckpt'.last = ckpt.last
    BY <1>1, <1>5, RetryUndone, RetryTargets
  <2> DEFINE e == target[c]  w == RetriedRun(e, s)
  <2>2. UNCHANGED attempts /\ snap' = Merged(e, w) /\ w \in Write /\ Writes(e, w)
    BY <1>1, <1>5, <2>1, RetryWrites, OperatorRuns
  <2>3. \A f \in Execs, t \in Steps : IsCompleted(f, t)' <=> IsCompleted(f, t)
    BY <2>2 DEF IsCompleted, CompletedAttempts
  <2>4. AtMostOneCompletion' /\ LastStepIsCompleted'
    BY <1>1, <2>1, <2>2 DEF CompletionInv, AtMostOneCompletion, LastStepIsCompleted, IsCompleted,
                       CompletedAttempts
  <2>5. \A t \in Steps : t # s /\ snap[e].steps[t] = "completed" => w.steps[t] = "completed"
    BY DEF RetriedRun
  <2>6. w.status # "none"
    BY DEF RetriedRun
  <2> HIDE DEF w
  <2>7. ASSUME NEW f \in Execs, NEW t \in Steps, IsCompleted(f, t)
        PROVE  HasRow(f)' /\ snap'[f].steps[t] = "completed"
    <3>1. HasRow(f) /\ snap[f].steps[t] = "completed" /\ (f = e => t # s)
      BY <2>1, <2>7, DoneIs DEF CompletionInv, CompletionInRows
    <3> QED  BY <2>2, <2>5, <2>6, <3>1 DEF Writes, KeepsRow, HasRow
  <2>8. CompletionInRows'
    BY <2>3, <2>7 DEF CompletionInRows
  <2> QED  BY <2>2, <2>4, <2>8 DEF CompletionInv
<1> QED  BY <1>2, <1>3, <1>4, <1>5 DEF Request, storeVars

LEMMA RequestAdvances ==
  ASSUME Context, CursorOpen, Named = {}, NEW c \in Calls, Request(c)
  PROVE  Advances
<1>1. target[c] \in Execs /\ TypeOK /\ StoreOrder /\ AtMostOneExecution' /\ CompletionInv
  BY DEF Context, EngineInv, EngineTypeOK, OrderInv
<1>2. CASE UNCHANGED storeVars
  BY <1>2, NothingCalm, CalmAdvances DEF storeVars
<1>3. CASE AcquireOrReuseExecutionLock(target[c], ProcOf[c]) \/ AcquireOrReuseConflict(target[c])
  <2>1. LockStep(target[c], ProcOf[c]) /\ ProcOf[c] \in Procs
    BY <1>3, TakeoverSimulates, CallsAssumption DEF Context
  <2> QED  BY <1>1, <2>1, LockStepCalm, CalmAdvances
<1>4. CASE CancelExecution(target[c])
  <2> DEFINE e == target[c]  w == CancelledRun(e)
  <2>1. w \in Write /\ Writes(e, w) /\ KeepsLedger(e) /\ UNCHANGED attempts /\ ckpt'.last = ckpt.last
    BY <1>1, <1>4, CancelWrites, OperatorRuns
  <2>2. w.status = "cancelled" /\ \A t \in Steps : w.steps[t] = "completed" => snap[e].steps[t] = "completed"
    BY DEF CancelledRun, Cancelled
  <2> HIDE DEF w
  <2>3. \A t \in Steps : w.steps[t] = "completed" => Done(attempts', e, t)
    BY <1>1, <2>1, <2>2 DEF StoreOrder, RowsTrue
  <2>4. \A t \in Steps : ~Begins(e, t)
    BY <2>1 DEF Begins
  <2> QED  BY <1>1, <2>1, <2>2, <2>3, <2>4, WriteAdvances
<1>5. ASSUME NEW s \in RetryTarget(target[c]), RetryStep(target[c], s)
      PROVE  Advances
  <2> DEFINE e == target[c]  w == RetriedRun(e, s)
  <2>1. s \in Steps /\ ckpt'.last = ckpt.last
    BY <1>1, <1>5, RetryUndone, RetryTargets
  <2>2. w \in Write /\ Writes(e, w) /\ KeepsLedger(e) /\ UNCHANGED attempts
    BY <1>1, <1>5, <2>1, RetryWrites, OperatorRuns
  <2>3. \A t \in Steps : t \in Int
    BY StepsAssumption DEF Steps
  <2>4. /\ \A t \in Steps : t < s => snap[e].steps[t] # "failed"
        /\ snap[e].steps[s] # "failed" => \A t \in Steps : snap[e].steps[t] # "failed"
    BY <1>1, <1>5, RetryFinds
  <2>5. /\ w.status = "paused"
        /\ \A t \in Steps : w.steps[t] = "completed" => snap[e].steps[t] = "completed"
        /\ \A t \in Steps : w.steps[t] # "failed"
    BY <2>1, <2>3, <2>4 DEF RetriedRun
  <2> HIDE DEF w
  <2>6. \A t \in Steps : w.steps[t] = "completed" => Done(attempts', e, t)
    BY <1>1, <2>2, <2>5 DEF StoreOrder, RowsTrue
  <2>7. \A t \in Steps : ~Begins(e, t)
    BY <2>2 DEF Begins
  <2> QED  BY <1>1, <2>1, <2>2, <2>5, <2>6, <2>7, WriteAdvances
<1> QED  BY <1>2, <1>3, <1>4, <1>5 DEF Request

LEMMA RequestKeepsOrder ==
  ASSUME EngineInv, CompletionInv, OrderInv, CursorOpen, NothingYet, NewcomersIdle, AtMostOneExecution,
         AtMostOneExecution', Named = {}, NEW c \in Calls, OperatorStep(c)
  PROVE  /\ CompletionInv' /\ OrderInv' /\ CursorOpen' /\ NothingYet'
         /\ ckpt'.last >= ckpt.last
         /\ \A e \in Execs : HasRow(e) => HasRow(e)'
<1>1. /\ Request(c) /\ UNCHANGED <<pc, run, out, crashed>>
      /\ UNCHANGED target \/ \E e \in Execs : HasRow(e) /\ target' = [target EXCEPT ![c] = e]
      /\ UNCHANGED target \/ place[c] = "new"
  BY RequestSteps
<1>2. CompletionInv' /\ UNCHANGED attempts /\ EngineInv'
  BY <1>1, RequestKeepsCompletions, RequestKeepsEngineInv DEF OrderInv
<1>3. Context
  BY <1>2 DEF Context
<1>4. Advances
  BY <1>1, <1>3, RequestAdvances
<1>5. ASSUME NEW d \in Calls PROVE Fits(d)'
  <2>1. pc'[d] = pc[d] /\ run'[d] = run[d]
    BY <1>1
  <2>2. CASE target'[d] = target[d]
    BY <1>3, <1>4, <2>1, <2>2, FitsStays
  <2>3. CASE target'[d] # target[d]
    <3>1. d = c /\ place[c] = "new"
      BY <1>1, <2>3 DEF EngineInv, EngineTypeOK
    <3>2. pc[d] \in {"idle", "dead"} /\ Behind(run[d]) = {}
      BY <3>1 DEF NewcomersIdle
    <3>3. FitPoint(d, pc'[d], run'[d]) /\ pc'[d] # "markCompleted"
      BY <2>1, <3>2, EasyPoint
    <3>4. Backed(target'[d], Behind(run'[d]), snap', attempts')
      BY <2>1, <3>2 DEF Backed
    <3> QED  BY <3>3, <3>4 DEF Fits
  <2> QED  BY <2>2, <2>3
<1>6. CursorOpen' /\ NothingYet'
  <2>1. target[c] \in Execs /\ TypeOK
    BY DEF EngineInv, EngineTypeOK
  <2>2. CASE UNCHANGED ckpt
    BY <1>2, <2>2 DEF CursorOpen, NothingYet
  <2>3. CASE CancelExecution(target[c])
    <3>1. ckpt'.cur = ckpt.cur /\ ckpt'.status # "none"
      BY <2>1, <2>3, CancelWrites, MarkKeeps DEF CancelExecution
    <3> QED  BY <1>2, <3>1 DEF CursorOpen, NothingYet
  <2>4. ASSUME NEW s \in RetryTarget(target[c]), RetryStep(target[c], s)
        PROVE  CursorOpen' /\ NothingYet'
    <3>1. (\A d \in Execs : ~Done(attempts, d, s)) /\ ckpt'.cur = s
      BY <2>1, <2>4, RetryUndone DEF OrderInv
    <3>2. ckpt'.status # "none"
      BY <2>4 DEF RetryStep
    <3> QED  BY <1>2, <3>1, <3>2 DEF CursorOpen, NothingYet
  <2> QED  BY <1>1, <2>2, <2>3, <2>4
           DEF Request, storeVars, AcquireOrReuseExecutionLock, AcquireOrReuseConflict, AcquireConflict
<1> QED  BY <1>2, <1>4, <1>5, <1>6 DEF OrderInv, Advances, HasRow

(* Where a transaction of the engine's takes the checkpoint.               *)
Reopens(e, s) ==
    /\ ckpt'.cur = s /\ HasRow(e)'
    /\ HasRow(e) => snap[e].steps[s] # "completed"
CursorMoves ==
    \/ ckpt'.cur \in {ckpt.cur, NumSteps + 1}
    \/ ckpt.status = "none" /\ UNCHANGED attempts
    \/ \E e \in Execs, s \in Steps : Reopens(e, s)
    \/ \E e \in Execs, s \in Steps, n \in Nat : CompleteExecutionAttempt(e, s, n)
NothingStays ==
    ckpt'.status = "none" =>
      /\ ckpt.status = "none"
      /\ UNCHANGED attempts \/ \E e \in Execs, s \in Steps : attempts[e][s] # << >>

LEMMA LockStepCursor ==
  ASSUME NEW e \in Execs, NEW p \in Procs, LockStep(e, p)
  PROVE  CursorMoves /\ NothingStays
BY DEF LockStep, AcquireExecutionLock, AcquireConflict, AcquireOrReuseExecutionLock,
       ReleaseExecutionLock, CursorMoves, NothingStays

LEMMA CheckpointStepCursor ==
  ASSUME TypeOK, NEW e \in Execs, CheckpointStep(e, EngineMarks, Kinds)
  PROVE  CursorMoves /\ NothingStays
<1>1. UNCHANGED attempts
  BY DEF CheckpointStep, StartExecutionState, SetCheckpointStatus, CompleteCheckpoint,
         AppendLedgerEvent, FinalizeExecutionTransition, ExecutionLeaseLapses
<1>2. CASE \E st \in EngineMarks : ckpt' = [ckpt EXCEPT !.status = st]
  BY <1>1, <1>2 DEF EngineMarks, TypeOK, Checkpoint, CursorMoves, NothingStays
<1>3. CASE StartExecutionState \/ CompleteCheckpoint
  BY <1>1, <1>3 DEF StartExecutionState, CompleteCheckpoint, NoCheckpoint, TypeOK, Checkpoint,
                    CursorMoves, NothingStays
<1>4. CASE UNCHANGED ckpt
  BY <1>1, <1>4 DEF CursorMoves, NothingStays
<1> QED  BY <1>2, <1>3, <1>4
         DEF CheckpointStep, SetCheckpointStatus, AppendLedgerEvent, FinalizeExecutionTransition,
             ExecutionLeaseLapses

(* A run of the engine's that has step s unfinished.                       *)
LEMMA WrittenReopens ==
  ASSUME TypeOK, NEW e \in Execs, NEW s \in Steps, NEW w \in Write, MayPersist(e, w),
         w.steps[s] # "completed", ckpt'.cur = s,
         snap' = Merged(e, w) \/ snap' = Unleased(e, w)
  PROVE  Reopens(e, s)
<1>1. snap'[e].status = w.status /\ w.status # "none"
  BY OverwritesRow DEF Write, ExecutionStatuses
<1>2. HasRow(e) => snap[e].steps[s] # "completed"
  BY DEF MayPersist, LegalChange
<1> QED  BY <1>1, <1>2 DEF Reopens, HasRow

LEMMA RunCursor ==
  ASSUME TypeOK, NEW e \in Execs, EngineRun(e)
  PROVE  CursorMoves /\ NothingStays
<1>1. PICK w \in EngineWrite :
        \/ \E p \in Procs \cup {NoProc}, live \in BOOLEAN : PersistExecutionSnapshot(e, w, p, live)
        \/ \E s \in Steps : /\ w.steps[s] = "paused_for_review"
                            /\ PauseBeforeExecutionForReview(e, s, w)
        \/ \E st \in {"completed", "failed"} : FinalizeExecution(e, w, st)
        \/ PauseExecutionForReview(e, w)
  BY DEF EngineRun
<1>2. UNCHANGED attempts
  BY <1>1 DEF PersistExecutionSnapshot, PauseBeforeExecutionForReview, FinalizeExecution,
              PauseExecutionForReview
<1>3. CASE \E st : st # "none" /\ ckpt' = [ckpt EXCEPT !.status = st]
  BY <1>2, <1>3 DEF TypeOK, Checkpoint, CursorMoves, NothingStays
<1>4. CASE UNCHANGED ckpt
  BY <1>2, <1>4 DEF CursorMoves, NothingStays
<1>5. ASSUME NEW s \in Steps, w.steps[s] = "paused_for_review", PauseBeforeExecutionForReview(e, s, w)
      PROVE  CursorMoves /\ NothingStays
  <2>1. ckpt'.cur = s /\ ckpt'.status # "none"
    BY <1>5 DEF PauseBeforeExecutionForReview, PausedForReview, CheckpointReview, TypeOK, Checkpoint
  <2>2. Reopens(e, s)
    BY <1>5, <2>1, WrittenReopens
       DEF EngineWrite, PauseBeforeExecutionForReview, MayPauseBefore, PausedForReview
  <2> QED  BY <2>1, <2>2 DEF CursorMoves, NothingStays
<1> QED  BY <1>1, <1>3, <1>4, <1>5 DEF PersistExecutionSnapshot, FinalizeExecution, PauseExecutionForReview

LEMMA AttemptStepCursor ==
  ASSUME TypeOK, NEW e \in Execs, NEW p \in Procs, NEW s \in Steps, AttemptStep(e, p, s, EngineWrite)
  PROVE  CursorMoves /\ NothingStays
<1>1. CASE BeginExecutionAttempt(e, p, s)
  <2>1. ckpt'.cur = s /\ ckpt'.status # "none"
    BY <1>1 DEF BeginExecutionAttempt, CheckpointBefore, TypeOK, Checkpoint
  <2> DEFINE w == RunningSnapshot(e, s)
  <2>2. w \in Write
    BY SnapshotType DEF StepStatuses, TypeOK
  <2>3. snap' = Merged(e, w) /\ MayPersist(e, w)
    BY <1>1 DEF BeginExecutionAttempt, MayBegin
  <2>4. w.steps[s] # "completed"
    BY DEF RunningSnapshot, TypeOK, Row
  <2> HIDE DEF w
  <2> QED  BY <2>1, <2>2, <2>3, <2>4, WrittenReopens DEF CursorMoves, NothingStays
<1>2. ASSUME NEW n \in DOMAIN attempts[e][s]
      PROVE  n \in Nat /\ attempts[e][s] # << >>
  BY <1>2 DEF TypeOK
<1>3. ASSUME NEW n \in DOMAIN attempts[e][s], CompleteExecutionAttempt(e, s, n)
      PROVE  CursorMoves /\ NothingStays
  <2>1. ckpt'.status # "none"
    BY <1>3 DEF CompleteExecutionAttempt, CheckpointAfter
  <2> QED  BY <1>2, <1>3, <2>1 DEF CursorMoves, NothingStays
<1>4. ASSUME NEW n \in DOMAIN attempts[e][s], FailExecutionAttempt(e, s, n)
      PROVE  CursorMoves /\ NothingStays
  <2>1. ckpt'.cur = s /\ ckpt'.status # "none"
    BY <1>4 DEF FailExecutionAttempt, CheckpointFailed, TypeOK, Checkpoint
  <2> DEFINE w == TerminalSnapshot(e, s, "failed")
  <2>2. w \in Write
    BY SnapshotType DEF StepStatuses, TypeOK
  <2>3. snap' = Merged(e, w) /\ MayPersist(e, w)
    BY <1>4 DEF FailExecutionAttempt, MayEndAttempt
  <2>4. w.steps[s] # "completed"
    BY DEF TerminalSnapshot, TypeOK, Row
  <2> HIDE DEF w
  <2> QED  BY <2>1, <2>2, <2>3, <2>4, WrittenReopens DEF CursorMoves, NothingStays
<1>5. ASSUME NEW n \in DOMAIN attempts[e][s], HeartbeatAttempt(e, p, s, n) \/ AttemptLeaseLapses(e, s, n)
      PROVE  CursorMoves /\ NothingStays
  BY <1>2, <1>5 DEF HeartbeatAttempt, AttemptLeaseLapses, CursorMoves, NothingStays
<1>6. ASSUME NEW n \in DOMAIN attempts[e][s], NEW w \in EngineWrite,
             PauseExecutionAttemptForReview(e, s, n, w)
      PROVE  CursorMoves /\ NothingStays
  <2>1. /\ ckpt'.cur = s /\ ckpt'.status # "none" /\ StepIsOpen(e, s) /\ MayPersist(e, w)
        /\ snap' = Merged(e, w) \/ snap' = Unleased(e, w)
    BY <1>6 DEF PauseExecutionAttemptForReview, MayPauseAttempt, PausedForReview, CheckpointReview,
                TypeOK, Checkpoint
  <2>2. w \in Write /\ w.status # "none"
    BY DEF EngineWrite, Write, ExecutionStatuses
  <2>3. snap'[e].status = w.status
    BY <2>1, <2>2, OverwritesRow
  <2>4. Reopens(e, s)
    BY <2>1, <2>2, <2>3 DEF Reopens, HasRow, StepIsOpen, TerminalStep
  <2> QED  BY <2>1, <2>4 DEF CursorMoves, NothingStays
<1> QED  BY <1>1, <1>3, <1>4, <1>5, <1>6 DEF AttemptStep

LEMMA EngineCursor ==
  ASSUME TypeOK, Simulates
  PROVE  CursorMoves /\ NothingStays
<1>1. CASE QueueStep \/ UNCHANGED storeVars
  BY <1>1 DEF QueueStep, ExpireRecoveryItems, RecoveryItemDue, storeVars, CursorMoves, NothingStays
<1> QED  BY <1>1, LockStepCursor, CheckpointStepCursor, RunCursor, AttemptStepCursor
         DEF Simulates, EngineStore

(* No step of the engine's leaves the checkpoint at a completed step: the  *)
(* transaction that completes a step moves on, to a step that the order    *)
(* of the steps keeps from having completed, and the rows keep any other   *)
(* one from coming back to it.                                             *)
LEMMA EngineKeepsCursor ==
  ASSUME EngineInv, CompletionInv, OrderInv, CursorOpen, NothingYet, AtMostOneExecution',
         [EngineNext]_vars
  PROVE  CursorOpen' /\ NothingYet'
<1>1. /\ TypeOK /\ StoreOrder /\ Simulates /\ [StoreNext]_storeVars
      /\ ckpt.cur \in 1..NumSteps + 1
  BY EngineStep DEF EngineInv, OrderInv, TypeOK, Checkpoint
<1>2. CursorMoves /\ NothingStays /\ CompletionInv'
  BY <1>1, EngineCursor, CompletionStep
<1>3. NothingYet'
  BY <1>2 DEF NothingYet, NothingStays
<1>4. NumSteps + 1 \notin Steps
  BY StepsAssumption DEF Steps
<1>5. \/ Kept /\ NoNewCompletion
      \/ \E e \in Execs, s \in Steps, n \in Nat : OneNewCompletion(e, s, n)
  <2>1. CASE StoreNext
    BY <1>1, <2>1, StoreNextCompletions
  <2>2. CASE UNCHANGED storeVars
    BY <2>2, SameAttempts DEF storeVars, Kept, HasRow
  <2> QED  BY <1>1, <2>1, <2>2
<1>6. ASSUME Kept, NoNewCompletion PROVE CursorOpen'
  <2>1. \A d \in Execs, t \in Steps : Done(attempts', d, t) <=> Done(attempts, d, t)
    BY <1>6 DEF NoNewCompletion, CompletedAttempts, Done
  <2>2. CASE ckpt'.cur \in {ckpt.cur, NumSteps + 1}
    BY <1>4, <2>1, <2>2 DEF CursorOpen
  <2>3. CASE ckpt.status = "none" /\ UNCHANGED attempts
    BY <2>3 DEF NothingYet, CursorOpen, Done
  <2>4. ASSUME NEW e \in Execs, NEW s \in Steps, Reopens(e, s)
        PROVE  CursorOpen'
    <3> SUFFICES ASSUME NEW d \in Execs, Done(attempts', d, s) PROVE FALSE
      BY <2>4 DEF CursorOpen, Reopens
    <3>1. HasRow(d) /\ snap[d].steps[s] = "completed"
      BY <2>1, DoneIs DEF CompletionInv, CompletionInRows
    <3>2. HasRow(d)'
      BY <1>6, <3>1 DEF Kept
    <3> QED  BY <2>4, <3>1, <3>2 DEF Reopens, AtMostOneExecution
  <2>5. ASSUME NEW e \in Execs, NEW s \in Steps, NEW n \in Nat, CompleteExecutionAttempt(e, s, n)
        PROVE  CursorOpen'
    BY <1>1, <1>6, <2>1, <2>5, CompleteCompletions, DoneIs DEF OneNewCompletion, NoNewCompletion, IsCompleted
  <2> QED  BY <1>2, <2>2, <2>3, <2>4, <2>5 DEF CursorMoves
<1>7. ASSUME NEW e \in Execs, NEW s \in Steps, NEW n \in Nat, OneNewCompletion(e, s, n)
      PROVE  CursorOpen'
  <2> SUFFICES ASSUME NEW d \in Execs, s + 1 \in Steps, Done(attempts', d, s + 1) PROVE FALSE
    BY <1>7 DEF CursorOpen, OneNewCompletion
  <2>1. s + 1 # s /\ s \in 1..(s + 1) - 1
    BY StepsAssumption DEF Steps
  <2>2. attempts'[d][s + 1] = attempts[d][s + 1]
    BY <1>7, <2>1 DEF OneNewCompletion
  <2>3. Done(attempts, d, s + 1) /\ attempts[d][s + 1] # << >>
    BY <2>2 DEF Done
  <2>4. Done(attempts, d, s)
    BY <1>1, <2>1, <2>3 DEF StoreOrder, Sequential
  <2>5. d = e
    <3>1. IsCompleted(d, s + 1)'
      BY <2>2, <2>3, DoneIs DEF IsCompleted, CompletedAttempts
    <3>2. HasRow(d)' /\ HasRow(e)'
      BY <1>2, <1>7, <3>1 DEF CompletionInv, CompletionInRows, OneNewCompletion
    <3> QED  BY <3>2 DEF AtMostOneExecution
  <2> QED  BY <1>7, <2>4, <2>5, DoneIs DEF OneNewCompletion
<1> QED  BY <1>3, <1>5, <1>6, <1>7

(* The invariant that a retry which chooses its step needs.                *)
OperatorInv == CompletionInv /\ OrderInv /\ CursorOpen /\ NothingYet /\ NewcomersIdle

LEMMA OperatorInvInit == OperatorInit => OperatorInv
<1> SUFFICES ASSUME OperatorInit PROVE OperatorInv
  OBVIOUS
<1>1. EngineInit /\ StoreInit
  BY DEF OperatorInit, EngineInit
<1>2. CompletionInv /\ OrderInv
  BY <1>1, CompletionInit, OrderInit
<1>3. \A e \in Execs, s \in Steps : attempts[e][s] = << >>
  BY <1>1 DEF StoreInit
<1>4. CursorOpen /\ NothingYet
  BY <1>3 DEF CursorOpen, NothingYet, Done
<1>5. NewcomersIdle
  <2>1. place \in [Calls -> Places]
    BY DEF OperatorInit, Places
  <2>2. \A c \in Calls : pc[c] = "idle" /\ run[c] = StagedRun
    BY <1>1 DEF EngineInit
  <2> QED  BY <2>1, <2>2, StagedFits DEF NewcomersIdle
<1> QED  BY <1>2, <1>4, <1>5 DEF OperatorInv

LEMMA OperatorInvStep ==
  ASSUME Named = {}, EngineInv, OperatorInv, AtMostOneExecution, AtMostOneExecution',
         [OperatorNext]_allVars
  PROVE  /\ OperatorInv' /\ ckpt'.last >= ckpt.last
         /\ \A e \in Execs : HasRow(e) => HasRow(e)'
<1>1. NewcomersIdle'
  BY NewcomersIdleStep DEF OperatorInv
<1>2. CASE [EngineNext]_vars
  BY <1>1, <1>2, OrderStep, EngineKeepsCursor DEF OperatorInv
<1>3. ASSUME NEW c \in Calls, OperatorStep(c)
      PROVE  /\ OperatorInv' /\ ckpt'.last >= ckpt.last
             /\ \A e \in Execs : HasRow(e) => HasRow(e)'
  BY <1>1, <1>3, RequestKeepsOrder DEF OperatorInv
<1> QED  BY <1>2, <1>3, OperatorMoves

LEMMA OperatorInvariant ==
  ASSUME Named = {}
  PROVE  OperatorSpec /\ []AtMostOneExecution => []OperatorInv
<1>1. EngineInv /\ OperatorInv /\ AtMostOneExecution /\ AtMostOneExecution'
      /\ [OperatorNext]_allVars => OperatorInv'
  BY OperatorInvStep
<1> QED  BY <1>1, OperatorEngineInv, OperatorInvInit, PTL DEF OperatorSpec

(* However often operators send a failed, paused or held plan back to a    *)
(* step, and whoever still works on it, no step completes twice.  The      *)
(* retry writes over the rows whatever the table of allowed transitions    *)
(* says, and what protects a completed step is only the choice of the step *)
(* to retry: where the operator names a completed one it runs again.       *)
THEOREM OperatorCompletesOnce ==
  ASSUME Named = {}
  PROVE  OperatorSpec /\ []AtMostOneExecution => []AtMostOneCompletion
<1>1. OperatorInv => AtMostOneCompletion
  BY DEF OperatorInv, CompletionInv
<1> QED  BY <1>1, OperatorInvariant, PTL

(* Nor do the rows that a retry or a cancellation has written over lose    *)
(* one of the completions.                                                 *)
THEOREM OperatorKeepsCompletions ==
  ASSUME Named = {}
  PROVE  OperatorSpec /\ []AtMostOneExecution => []CompletionInRows
<1>1. OperatorInv => CompletionInRows
  BY DEF OperatorInv, CompletionInv
<1> QED  BY <1>1, OperatorInvariant, PTL

(* A retry that makes later steps pending again lets none of them begin    *)
(* before those that come first have completed.                            *)
THEOREM OperatorKeepsOrder ==
  ASSUME Named = {}
  PROVE  OperatorSpec /\ []AtMostOneExecution => []StepsInOrder
<1>1. OperatorInv => StepsInOrder
  BY OrderTells DEF OperatorInv
<1> QED  BY <1>1, OperatorInvariant, PTL

(* No retry reopens a plan so that it is closed with a step that has not   *)
(* completed.                                                              *)
THEOREM OperatorClosesWhole ==
  ASSUME Named = {}
  PROVE  OperatorSpec /\ []AtMostOneExecution => []CompletionIsWhole
<1>1. OperatorInv => CompletionIsWhole
  BY OrderTells DEF OperatorInv
<1> QED  BY <1>1, OperatorInvariant, PTL

(* Every step behind the checkpoint that a retry leaves, which is where    *)
(* the recovery that follows it goes on from, has completed.               *)
THEOREM OperatorCheckpointHolds ==
  ASSUME Named = {}
  PROVE  OperatorSpec /\ []AtMostOneExecution => []CheckpointIsTrue
<1>1. EngineInv /\ OperatorInv => CheckpointIsTrue
  BY CheckpointTells DEF EngineInv, OperatorInv
<1> QED  BY <1>1, OperatorEngineInv, OperatorInvariant, PTL

(* A retry moves the checkpoint to its step but never behind one that has  *)
(* completed.                                                              *)
THEOREM OperatorNeverBack ==
  ASSUME Named = {}
  PROVE  OperatorSpec /\ []AtMostOneExecution => CheckpointAdvances
<1>1. EngineInv /\ OperatorInv /\ AtMostOneExecution /\ AtMostOneExecution'
      /\ [OperatorNext]_allVars => [ckpt'.last >= ckpt.last]_vars
  BY OperatorInvStep
<1> QED  BY <1>1, OperatorEngineInv, OperatorInvariant, PTL DEF OperatorSpec, CheckpointAdvances

(* A request touches no attempt and leaves the checkpoint where it was, so *)
(* that it only logs what it does.                                         *)
LEMMA RequestProgresses ==
  ASSUME EngineInv, CompletionInv, StoreOrder, CursorOpen, AtMostOneExecution', Named = {},
         NEW c \in Calls, Request(c)
  PROVE  Progresses
<1>1. target[c] \in Execs /\ TypeOK /\ {"lease", "cancelled"} \subseteq Kinds
  BY DEF EngineInv, EngineTypeOK, Kinds
<1>2. UNCHANGED attempts
  BY RequestKeepsCompletions
<1>3. CASE UNCHANGED storeVars
  BY <1>1, <1>3, TransactionProgresses
<1>4. CASE AcquireOrReuseExecutionLock(target[c], ProcOf[c]) \/ AcquireOrReuseConflict(target[c])
  BY <1>1, <1>4, TakeoverSimulates, EngineStoreSteps, TransactionProgresses
<1>5. CASE CancelExecution(target[c])
  <2>1. ckpt'.last = ckpt.last
    BY <1>1, <1>5, CancelWrites
  <2>2. LogsOnly
    BY <1>1, <1>5 DEF CancelExecution, LogsOnly
  <2> QED  BY <1>2, <2>1, <2>2, SameAttempts, SameAttemptLengths DEF Progresses
<1>6. ASSUME NEW s \in RetryTarget(target[c]), RetryStep(target[c], s)
      PROVE  Progresses
  <2>1. ckpt'.last = ckpt.last
    BY <1>1, <1>6, RetryUndone
  <2>2. LogsOnly
    BY <1>1, <1>6 DEF RetryStep, LogsOnly
  <2> QED  BY <1>2, <2>1, <2>2, SameAttempts, SameAttemptLengths DEF Progresses
<1> QED  BY <1>3, <1>4, <1>5, <1>6 DEF Request

LEMMA OperatorProgresses ==
  ASSUME Named = {}, EngineInv, OperatorInv, AtMostOneExecution, AtMostOneExecution', TriedInRows,
         [OperatorNext]_allVars
  PROVE  Progresses /\ TriedInRows'
<1>1. TypeOK /\ CompletionInv /\ StoreOrder /\ CursorOpen
  BY DEF EngineInv, OperatorInv, OrderInv
<1>2. Progresses /\ TypeOK'
  <2>1. CASE [EngineNext]_vars
    BY <1>1, <2>1, EngineStep, TransactionProgresses DEF EngineInv
  <2>2. ASSUME NEW c \in Calls, OperatorStep(c) PROVE Progresses /\ TypeOK'
    BY <1>1, <2>2, RequestSteps, RequestProgresses, RequestKeepsEngineInv DEF EngineInv
  <2> QED  BY <2>1, <2>2, OperatorMoves
<1>3. \A e \in Execs : HasRow(e) => HasRow(e)'
  BY OperatorInvStep
<1> QED  BY <1>1, <1>2, <1>3, TriedStays

(* Operators who approve, reject, retry and cancel, from any process and   *)
(* in any number, leave the plan served: a retry that chooses its step     *)
(* makes no step run out of turn, none complete again, and no plan be      *)
(* closed before its time.                                                 *)
THEOREM OperatorServesPlan ==
  ASSUME Named = {}
  PROVE  OperatorSpec /\ []AtMostOneExecution => PlanIsServed
<1>1. OperatorInit => Progress!PlanInit /\ TriedInRows
  BY PlanInitially DEF OperatorInit, EngineInit
<1>2. /\ EngineInv /\ OperatorInv /\ AtMostOneExecution /\ AtMostOneExecution' /\ TriedInRows
      /\ [OperatorNext]_allVars
      => Progresses /\ TriedInRows'
  BY OperatorProgresses
<1>3. /\ EngineInv /\ EngineInv' /\ OperatorInv /\ AtMostOneExecution /\ AtMostOneExecution'
      /\ TriedInRows /\ StepsInOrder /\ StepsInOrder' /\ CompletionIsWhole'
      /\ [OperatorNext]_allVars
      => [Progress!PlanNext]_(Progress!planVars)
  BY OperatorProgresses, OperatorInvStep, PlanStep DEF EngineInv, OperatorInv
<1>4. OperatorSpec /\ []AtMostOneExecution => []TriedInRows
  BY <1>1, <1>2, OperatorEngineInv, OperatorInvariant, PTL DEF OperatorSpec
<1>5. OperatorSpec /\ []AtMostOneExecution => []StepsInOrder /\ []CompletionIsWhole
  BY OperatorKeepsOrder, OperatorClosesWhole, PTL
<1> QED  BY <1>1, <1>3, <1>4, <1>5, OperatorEngineInv, OperatorInvariant, PTL
         DEF OperatorSpec, PlanIsServed, Progress!PlanSpec

(* It is enough that the calls name one execution id.                      *)
THEOREM OperatorPlanServed ==
  ASSUME Named = {}
  PROVE  OperatorSpec /\ OneId => PlanIsServed
BY OperatorServesPlan, OperatorOneExecution, PTL

=============================================================================
