------------------------ MODULE ExecutionStoreProofs ------------------------
(***************************************************************************)
(* What the transactions of ExecutionStore keep true for every number of   *)
(* executions, workers, steps and attempts, and for callers that write     *)
(* anything, in any order.                                                 *)
(***************************************************************************)
EXTENDS ExecutionStore, TLAPS, SequenceTheorems

-----------------------------------------------------------------------------
(* The helpers return rows of the right type. *)

(* appendLedgerEventTx keeps every count within what the check tells apart.*)
LEMMA LoggedType ==
  ASSUME NEW e \in Execs, NEW K, ledger \in [Execs -> [Kinds -> 0..2]]
  PROVE  Logged(ledger, e, K) \in [Execs -> [Kinds -> 0..2]]
<1>1. \A k \in Kinds : CountCap(k) \in {1, 2}
  BY DEF CountCap
<1>2. [k \in Kinds |-> IF k \in K /\ ledger[e][k] < CountCap(k)
                       THEN ledger[e][k] + 1 ELSE ledger[e][k]] \in [Kinds -> 0..2]
  BY <1>1
<1> QED  BY <1>2 DEF Logged

(* syncExecutionLeaseTx writes only the lease columns of the row.          *)
LEMMA MirroredType ==
  ASSUME NEW e \in Execs, NEW o \in Procs \cup {NoProc}, snap \in [Execs -> Row]
  PROVE  LeaseMirrored(snap, e, o) \in [Execs -> Row]
<1>1. ASSUME NEW r \in Row, NEW b \in BOOLEAN
      PROVE  [r EXCEPT !.owner = o, !.live = b] \in Row
  <2>1. [r EXCEPT !.owner = o] \in Row
    BY DEF Row
  <2>2. \A q \in Row : [q EXCEPT !.live = b] \in Row
    BY <1>1 DEF Row
  <2>3. [r EXCEPT !.owner = o, !.live = b] = [[r EXCEPT !.owner = o] EXCEPT !.live = b]
    OBVIOUS
  <2> QED  BY <2>1, <2>2, <2>3
<1> QED  BY <1>1 DEF LeaseMirrored

(* upsertExecutionRow, of a run and lease columns that are in their types. *)
LEMMA OverwrittenType ==
  ASSUME NEW e \in Execs, NEW w \in Write, NEW o \in Procs \cup {NoProc}, NEW l \in BOOLEAN,
         snap \in [Execs -> Row]
  PROVE  Overwritten(e, w, o, l) \in [Execs -> Row]
BY DEF Overwritten, Row, Write

(* The two ways in which lifecycle transactions fill in the lease columns. *)
LEMMA WrittenType ==
  ASSUME NEW e \in Execs, NEW w \in Write, snap \in [Execs -> Row]
  PROVE  Merged(e, w) \in [Execs -> Row] /\ Unleased(e, w) \in [Execs -> Row]
<1>1. snap[e].owner \in Procs \cup {NoProc} /\ snap[e].live \in BOOLEAN
  BY DEF Row
<1> QED  BY <1>1, OverwrittenType DEF Merged, Unleased

(* releaseExecutionLockTx leaves a lock row.                               *)
LEMMA ReleasedType ==
  ASSUME NEW e \in Execs, lock \in LockRow
  PROVE  Released(e) \in LockRow
BY DEF Released, LockRow

(* The checkpoints that the helpers write.                                 *)
LEMMA CheckpointType ==
  ASSUME NEW s \in Steps, NEW st \in CheckpointStatuses, ckpt \in Checkpoint
  PROVE  /\ [ckpt EXCEPT !.status = st] \in Checkpoint
         /\ CheckpointBefore(s) \in Checkpoint
         /\ CheckpointAfter(s) \in Checkpoint
         /\ CheckpointFailed(s) \in Checkpoint
         /\ CheckpointReview(s) \in Checkpoint
<1>1. s \in 1..NumSteps /\ s \in 1..NumSteps + 1 /\ s + 1 \in 1..NumSteps + 1
  BY StepsAssumption DEF Steps
<1>2. {"running", "completed", "failed", "awaiting_review"} \subseteq CheckpointStatuses
  BY DEF CheckpointStatuses
<1>3. CheckpointAfter(s) \in Checkpoint
  BY <1>1, <1>2, StepsAssumption DEF CheckpointAfter, Checkpoint
<1>4. [ckpt EXCEPT !.status = st] \in Checkpoint
  BY DEF Checkpoint
<1>5. CheckpointBefore(s) \in Checkpoint /\ CheckpointFailed(s) \in Checkpoint
      /\ CheckpointReview(s) \in Checkpoint
  BY <1>1, <1>2 DEF CheckpointBefore, CheckpointFailed, CheckpointReview, Checkpoint
<1> QED  BY <1>3, <1>4, <1>5

(* applyStageStatuses, and the runs that the lifecycle transactions write  *)
(* over the rows of their own accord.                                      *)
LEMMA SnapshotType ==
  ASSUME NEW e \in Execs, NEW s \in Steps, NEW st \in StepStatuses, snap \in [Execs -> Row]
  PROVE  RunningSnapshot(e, s) \in Write /\ TerminalSnapshot(e, s, st) \in Write
<1>1. snap[e].steps \in [Steps -> StepStatuses] /\ snap[e].stage \in StageStatuses
  BY DEF Row
<1>2. \A steps : StageAfter(steps) \in StageStatuses
  BY DEF StageAfter, StageStatuses
<1>3. "running" \in ExecutionStatuses /\ "running" \in StepStatuses
  BY DEF ExecutionStatuses, StepStatuses
<1>4. [snap[e].steps EXCEPT ![s] = "running"] \in [Steps -> StepStatuses]
      /\ [snap[e].steps EXCEPT ![s] = st] \in [Steps -> StepStatuses]
  BY <1>1, <1>3
<1> QED  BY <1>1, <1>2, <1>3, <1>4 DEF RunningSnapshot, TerminalSnapshot, Write

(* Appending an attempt, or rewriting one, leaves sequences of attempts.   *)
LEMMA AttemptsType ==
  ASSUME NEW e \in Execs, NEW s \in Steps, NEW p \in Procs,
         attempts \in [Execs -> [Steps -> Seq(Attempt)]]
  PROVE  /\ [attempts EXCEPT ![e][s] = Append(@, [status |-> "running", live |-> TRUE,
                                                  proc |-> p])]
              \in [Execs -> [Steps -> Seq(Attempt)]]
         /\ \A n \in DOMAIN attempts[e][s], b \in BOOLEAN :
              [attempts EXCEPT ![e][s][n].live = b] \in [Execs -> [Steps -> Seq(Attempt)]]
         /\ \A n \in DOMAIN attempts[e][s], st \in AttemptStatuses :
              AttemptEnded(e, s, n, st) \in [Execs -> [Steps -> Seq(Attempt)]]
<1>1. attempts[e] \in [Steps -> Seq(Attempt)] /\ attempts[e][s] \in Seq(Attempt)
  OBVIOUS
<1>2. [status |-> "running", live |-> TRUE, proc |-> p] \in Attempt
  BY DEF Attempt, AttemptStatuses
<1>3. Append(attempts[e][s], [status |-> "running", live |-> TRUE, proc |-> p]) \in Seq(Attempt)
  BY <1>1, <1>2
<1>4. \A n \in DOMAIN attempts[e][s] : \A a \in Attempt :
        [attempts[e][s] EXCEPT ![n] = a] \in Seq(Attempt)
  BY <1>1
<1>5. \A q \in Seq(Attempt) :
        [attempts EXCEPT ![e] = [attempts[e] EXCEPT ![s] = q]]
          \in [Execs -> [Steps -> Seq(Attempt)]]
  OBVIOUS
<1>6. ASSUME NEW n \in DOMAIN attempts[e][s], NEW b \in BOOLEAN
      PROVE  [attempts EXCEPT ![e][s][n].live = b] \in [Execs -> [Steps -> Seq(Attempt)]]
  <2>0. attempts[e][s][n] \in Attempt
    BY <1>1
  <2>1. [attempts[e][s][n] EXCEPT !.live = b] \in Attempt
    BY <2>0 DEF Attempt
  <2>2. [attempts[e][s] EXCEPT ![n].live = b] \in Seq(Attempt)
    BY <1>4, <2>1
  <2> QED  BY <1>5, <2>2
<1>7. ASSUME NEW n \in DOMAIN attempts[e][s], NEW st \in AttemptStatuses
      PROVE  AttemptEnded(e, s, n, st) \in [Execs -> [Steps -> Seq(Attempt)]]
  <2>0. attempts[e][s][n] \in Attempt
    BY <1>1
  <2>1. [[attempts[e][s][n] EXCEPT !.status = st] EXCEPT !.live = FALSE] \in Attempt
    BY <2>0 DEF Attempt
  <2>2. [attempts[e][s] EXCEPT ![n] = [[attempts[e][s][n] EXCEPT !.status = st]
                                          EXCEPT !.live = FALSE]] \in Seq(Attempt)
    BY <1>4, <2>1
  <2>3. AttemptEnded(e, s, n, st) =
          [attempts EXCEPT ![e] = [attempts[e] EXCEPT ![s] =
             [attempts[e][s] EXCEPT ![n] = [[attempts[e][s][n] EXCEPT !.status = st]
                                               EXCEPT !.live = FALSE]]]]
    BY <1>1 DEF AttemptEnded
  <2> QED  BY <1>5, <2>2, <2>3
<1> QED  BY <1>3, <1>5, <1>6, <1>7

-----------------------------------------------------------------------------
(* Type correctness: every transaction, whoever calls it, leaves rows of   *)
(* the declared types.                                                     *)

(* The transactions of executionIntegrityStore.js on the lock.             *)
LEMMA LockStepType ==
  ASSUME TypeOK, NEW e \in Execs, NEW p \in Procs, LockStep(e, p)
  PROVE  TypeOK'
<1>1. /\ LeaseMirrored(snap, e, p) \in [Execs -> Row]
      /\ LeaseMirrored(snap, e, NoProc) \in [Execs -> Row]
  BY MirroredType DEF TypeOK
<1>2. Logged(ledger, e, {"lease"}) \in [Execs -> [Kinds -> 0..2]]
  BY LoggedType DEF TypeOK
<1>3. [exec |-> e, worker |-> p, held |-> TRUE] \in LockRow
  BY DEF LockRow
<1>4. Released(e) \in LockRow
  BY ReleasedType DEF TypeOK
<1>5. CASE AcquireExecutionLock(e, p)
  BY <1>5, <1>1, <1>2, <1>3 DEF TypeOK, AcquireExecutionLock
<1>6. CASE AcquireConflict(e)
  BY <1>6, <1>2 DEF TypeOK, AcquireConflict
<1>7. CASE AcquireOrReuseExecutionLock(e, p)
  BY <1>7, <1>1, <1>2, <1>3 DEF TypeOK, AcquireOrReuseExecutionLock
<1>8. CASE ReleaseExecutionLock(e)
  BY <1>8, <1>1, <1>2, <1>4 DEF TypeOK, ReleaseExecutionLock
<1> QED  BY <1>5, <1>6, <1>7, <1>8 DEF LockStep

(* The checkpoint's transactions, the ledger's, the queue's, and time.     *)
LEMMA CheckpointStepType ==
  ASSUME TypeOK, NEW e \in Execs, CheckpointStep(e, CheckpointStatuses, Kinds)
  PROVE  TypeOK'
<1>1. \A st \in CheckpointStatuses : [ckpt EXCEPT !.status = st] \in Checkpoint
  BY DEF TypeOK, Checkpoint
<1>2. \A K : Logged(ledger, e, K) \in [Execs -> [Kinds -> 0..2]]
  BY LoggedType DEF TypeOK
<1>3. CASE StartExecutionState
  <2>1. [NoCheckpoint EXCEPT !.status = "pending"] \in Checkpoint
    BY StepsAssumption DEF NoCheckpoint, Checkpoint, CheckpointStatuses
  <2> QED  BY <1>3, <2>1 DEF TypeOK, StartExecutionState
<1>4. ASSUME NEW st \in CheckpointStatuses, SetCheckpointStatus(st) PROVE TypeOK'
  BY <1>4, <1>1 DEF TypeOK, SetCheckpointStatus
<1>5. CASE CompleteCheckpoint
  <2>1. [ckpt EXCEPT !.status = "completed", !.cur = NumSteps + 1] \in Checkpoint
    <3>1. ckpt \in Checkpoint /\ NumSteps + 1 \in 1..NumSteps + 1
      BY StepsAssumption DEF TypeOK
    <3>2. "completed" \in CheckpointStatuses
      BY DEF CheckpointStatuses
    <3> QED  BY <3>1, <3>2 DEF Checkpoint
  <2> QED  BY <1>5, <2>1 DEF TypeOK, CompleteCheckpoint
<1>6. ASSUME NEW kind \in Kinds, AppendLedgerEvent(e, kind) PROVE TypeOK'
  BY <1>6, <1>2 DEF TypeOK, AppendLedgerEvent
<1>7. ASSUME NEW st \in CheckpointStatuses, NEW kind \in Kinds, NEW q \in {"none", "open"},
             FinalizeExecutionTransition(e, st, {kind}, q)
      PROVE  TypeOK'
  <2>1. [ckpt EXCEPT !.status = st] \in Checkpoint
    BY <1>1
  <2>2. Released(e) \in LockRow /\ LeaseMirrored(snap, e, NoProc) \in [Execs -> Row]
    BY ReleasedType, MirroredType DEF TypeOK
  <2>3. Logged(ledger, e, {kind} \cup {"lease"}) \in [Execs -> [Kinds -> 0..2]]
    BY <1>2
  <2> QED  BY <1>7, <2>1, <2>2, <2>3 DEF TypeOK, FinalizeExecutionTransition
<1>8. CASE ExecutionLeaseLapses(e)
  <2>1. [snap EXCEPT ![e].live = FALSE] \in [Execs -> Row]
    BY DEF TypeOK, Row
  <2> QED  BY <1>8, <2>1 DEF TypeOK, ExecutionLeaseLapses
<1> QED  BY <1>3, <1>4, <1>5, <1>6, <1>7, <1>8 DEF CheckpointStep

(* The transactions that write a whole run of the caller's.                *)
LEMMA RunStepType ==
  ASSUME TypeOK, NEW e \in Execs, RunStep(e, Write, {"completed", "failed"})
  PROVE  TypeOK'
<1>1. PICK w \in Write :
        \/ \E p \in Procs \cup {NoProc}, live \in BOOLEAN : PersistExecutionSnapshot(e, w, p, live)
        \/ \E s \in Steps : PauseBeforeExecutionForReview(e, s, w)
        \/ \E st \in {"completed", "failed"} : FinalizeExecution(e, w, st)
        \/ PauseExecutionForReview(e, w)
  BY DEF RunStep
<1>2. Merged(e, w) \in [Execs -> Row] /\ Unleased(e, w) \in [Execs -> Row]
  BY WrittenType DEF TypeOK
<1>3. Released(e) \in LockRow
  BY ReleasedType DEF TypeOK
<1>4. \A K : Logged(ledger, e, K) \in [Execs -> [Kinds -> 0..2]]
  BY LoggedType DEF TypeOK
<1>5. \A st \in CheckpointStatuses : [ckpt EXCEPT !.status = st] \in Checkpoint
  BY DEF TypeOK, Checkpoint
<1>6. {"completed", "failed", "awaiting_review"} \subseteq CheckpointStatuses
  BY DEF CheckpointStatuses
<1>7. ASSUME NEW p \in Procs \cup {NoProc}, NEW live \in BOOLEAN,
             PersistExecutionSnapshot(e, w, p, live)
      PROVE  TypeOK'
  <2>1. Overwritten(e, w, p, live) \in [Execs -> Row]
    BY OverwrittenType DEF TypeOK
  <2> QED  BY <1>7, <2>1 DEF TypeOK, PersistExecutionSnapshot
<1>8. ASSUME NEW s \in Steps, PauseBeforeExecutionForReview(e, s, w) PROVE TypeOK'
  <2>1. CheckpointReview(s) \in Checkpoint
    BY CheckpointType, <1>6 DEF TypeOK
  <2> QED  BY <1>8, <1>2, <1>3, <1>4, <2>1
           DEF TypeOK, PauseBeforeExecutionForReview, PausedForReview
<1>9. ASSUME NEW st \in {"completed", "failed"}, FinalizeExecution(e, w, st) PROVE TypeOK'
  BY <1>9, <1>2, <1>3, <1>4, <1>5, <1>6 DEF TypeOK, FinalizeExecution
<1>10. CASE PauseExecutionForReview(e, w)
  BY <1>10, <1>2, <1>3, <1>4, <1>5, <1>6 DEF TypeOK, PauseExecutionForReview
<1> QED  BY <1>1, <1>7, <1>8, <1>9, <1>10

(* The transactions of one step's attempt.                                 *)
LEMMA AttemptStepType ==
  ASSUME TypeOK, NEW e \in Execs, NEW p \in Procs, NEW s \in Steps, AttemptStep(e, p, s, Write)
  PROVE  TypeOK'
<1>1. /\ [attempts EXCEPT ![e][s] = Append(@, [status |-> "running", live |-> TRUE,
                                               proc |-> p])]
           \in [Execs -> [Steps -> Seq(Attempt)]]
      /\ \A n \in DOMAIN attempts[e][s], b \in BOOLEAN :
           [attempts EXCEPT ![e][s][n].live = b] \in [Execs -> [Steps -> Seq(Attempt)]]
      /\ \A n \in DOMAIN attempts[e][s], st \in AttemptStatuses :
           AttemptEnded(e, s, n, st) \in [Execs -> [Steps -> Seq(Attempt)]]
  BY AttemptsType DEF TypeOK
<1>2. "running" \in CheckpointStatuses
  BY DEF CheckpointStatuses
<1>3. /\ CheckpointBefore(s) \in Checkpoint /\ CheckpointAfter(s) \in Checkpoint
      /\ CheckpointFailed(s) \in Checkpoint /\ CheckpointReview(s) \in Checkpoint
  BY <1>2, CheckpointType DEF TypeOK
<1>4. \A w \in Write : Merged(e, w) \in [Execs -> Row] /\ Unleased(e, w) \in [Execs -> Row]
  BY WrittenType DEF TypeOK
<1>5. \A K : Logged(ledger, e, K) \in [Execs -> [Kinds -> 0..2]]
  BY LoggedType DEF TypeOK
<1>6. {"completed", "failed", "cancelled"} \subseteq AttemptStatuses
      /\ {"completed", "failed"} \subseteq StepStatuses
  BY DEF AttemptStatuses, StepStatuses
<1>7. \A st \in {"completed", "failed"} :
        RunningSnapshot(e, s) \in Write /\ TerminalSnapshot(e, s, st) \in Write
  BY <1>6, SnapshotType DEF TypeOK
<1>8. CASE BeginExecutionAttempt(e, p, s)
  BY <1>8, <1>1, <1>3, <1>4, <1>7 DEF TypeOK, BeginExecutionAttempt
<1>9. ASSUME NEW n \in DOMAIN attempts[e][s], HeartbeatAttempt(e, p, s, n) PROVE TypeOK'
  <2>1. LeaseMirrored(snap, e, p) \in [Execs -> Row]
    BY MirroredType DEF TypeOK
  <2>2. snap' \in [Execs -> Row] /\ ledger' \in [Execs -> [Kinds -> 0..2]]
    BY <1>9, <1>5, <2>1 DEF TypeOK, HeartbeatAttempt
  <2>3. attempts' \in [Execs -> [Steps -> Seq(Attempt)]]
    BY <1>9, <1>1 DEF HeartbeatAttempt
  <2> QED  BY <1>9, <2>2, <2>3 DEF TypeOK, HeartbeatAttempt
<1>10. ASSUME NEW n \in DOMAIN attempts[e][s], CompleteExecutionAttempt(e, s, n) PROVE TypeOK'
  BY <1>10, <1>1, <1>3, <1>4, <1>6, <1>7 DEF TypeOK, CompleteExecutionAttempt, MayEndAttempt
<1>11. ASSUME NEW n \in DOMAIN attempts[e][s], FailExecutionAttempt(e, s, n) PROVE TypeOK'
  BY <1>11, <1>1, <1>3, <1>4, <1>6, <1>7 DEF TypeOK, FailExecutionAttempt, MayEndAttempt
<1>12. ASSUME NEW n \in DOMAIN attempts[e][s], AttemptLeaseLapses(e, s, n) PROVE TypeOK'
  BY <1>12, <1>1 DEF TypeOK, AttemptLeaseLapses
<1>13. ASSUME NEW n \in DOMAIN attempts[e][s], NEW w \in Write,
              PauseExecutionAttemptForReview(e, s, n, w)
       PROVE  TypeOK'
  <2>1. w \in Write /\ Released(e) \in LockRow
    BY ReleasedType DEF TypeOK
  <2>2. attempts' \in [Execs -> [Steps -> Seq(Attempt)]]
    BY <1>13, <1>1, <1>6 DEF PauseExecutionAttemptForReview, MayPauseAttempt
  <2> QED  BY <1>13, <1>3, <1>4, <1>5, <2>1, <2>2
           DEF TypeOK, PauseExecutionAttemptForReview, PausedForReview
<1> QED  BY <1>8, <1>9, <1>10, <1>11, <1>12, <1>13 DEF AttemptStep

(* The empty store is well typed, and every transaction keeps it so.       *)
LEMMA TypeInit == StoreInit => TypeOK
<1> SUFFICES ASSUME StoreInit PROVE TypeOK
  OBVIOUS
<1>1. lock \in LockRow /\ queue \in {"none", "open", "due"}
  BY DEF StoreInit, LockRow
<1>2. ckpt \in Checkpoint
  BY StepsAssumption DEF StoreInit, NoCheckpoint, Checkpoint
<1>3. snap \in [Execs -> Row]
  BY DEF StoreInit, NoRow, Row, StageStatuses, StepStatuses
<1>4. attempts \in [Execs -> [Steps -> Seq(Attempt)]]
  BY DEF StoreInit
<1>5. ledger \in [Execs -> [Kinds -> 0..2]]
  BY DEF StoreInit
<1> QED  BY <1>1, <1>2, <1>3, <1>4, <1>5 DEF TypeOK

LEMMA TypeKept ==
  ASSUME TypeOK, [StoreNext]_storeVars
  PROVE  TypeOK'
<1>1. CASE UNCHANGED storeVars
  BY <1>1 DEF TypeOK, storeVars
<1>2. CASE QueueStep
  BY <1>2 DEF TypeOK, QueueStep, ExpireRecoveryItems, RecoveryItemDue
<1>3. CASE StoreNext /\ ~QueueStep
  BY <1>3, CheckpointStepType, RunStepType, LockStepType, AttemptStepType DEF StoreNext, StoreStep
<1> QED  BY <1>1, <1>2, <1>3


(* The rows, whatever is called, stay in the statuses that the             *)
(* normalizations of executionStateStore.js allow.                         *)
THEOREM TypeCorrect == StoreSpec => []TypeOK
BY TypeInit, TypeKept, PTL DEF StoreSpec

-----------------------------------------------------------------------------
(* Completions.  CompletionInRows is what makes the others inductive: a    *)
(* step with a completed attempt is completed in the rows, there the       *)
(* transition table keeps it, and getExecutionAndStep then refuses the     *)
(* transactions that would end another attempt of it or begin one.         *)

CompletionInv == AtMostOneCompletion /\ CompletionInRows /\ LastStepIsCompleted

(* What a transaction does to the completions: keep every completed step   *)
(* of the rows, and add no completed attempt or exactly one, the first.    *)
Kept ==
    \A f \in Execs, t \in Steps :
      HasRow(f) /\ snap[f].steps[t] = "completed"
        => HasRow(f)' /\ snap'[f].steps[t] = "completed"

NoNewCompletion ==
    /\ \A f \in Execs, t \in Steps :
         /\ CompletedAttempts(f, t)' = CompletedAttempts(f, t)
         /\ IsCompleted(f, t) => DOMAIN attempts'[f][t] = DOMAIN attempts[f][t]
    /\ ckpt'.last \in {0, ckpt.last}

OneNewCompletion(e, s, n) ==
    /\ ~IsCompleted(e, s)
    /\ CompletedAttempts(e, s)' = {n}
    /\ \A f \in Execs, t \in Steps : f # e \/ t # s => attempts'[f][t] = attempts[f][t]
    /\ HasRow(e)' /\ snap'[e].steps[s] = "completed"
    /\ ckpt'.last = s /\ ckpt'.cur = s + 1

(* A transaction of either sort keeps the invariant.                       *)
LEMMA CompletionsKept ==
  ASSUME TypeOK, CompletionInv, Kept,
         \/ NoNewCompletion
         \/ \E e \in Execs, s \in Steps, n \in Nat : OneNewCompletion(e, s, n)
  PROVE  /\ CompletionInv'
         /\ \A f \in Execs, t \in Steps :
              IsCompleted(f, t) => /\ DOMAIN attempts'[f][t] = DOMAIN attempts[f][t]
                                   /\ CompletedAttempts(f, t)' = CompletedAttempts(f, t)
<1>1. CASE NoNewCompletion
  <2>1. AtMostOneCompletion'
    BY <1>1 DEF NoNewCompletion, CompletionInv, AtMostOneCompletion
  <2>2. \A f \in Execs, t \in Steps : IsCompleted(f, t)' = IsCompleted(f, t)
    BY <1>1 DEF NoNewCompletion, IsCompleted
  <2>3. CompletionInRows'
    BY <2>2 DEF CompletionInv, CompletionInRows, Kept
  <2>4. LastStepIsCompleted'
    <3> SUFFICES ASSUME ckpt'.last > 0
                 PROVE  \E e \in Execs : IsCompleted(e, ckpt.last)'
      BY DEF LastStepIsCompleted
    <3>1. ckpt'.last = ckpt.last
      BY <1>1 DEF NoNewCompletion
    <3>2. PICK e \in Execs : CompletedAttempts(e, ckpt.last) # {}
      BY <3>1 DEF CompletionInv, LastStepIsCompleted, IsCompleted
    <3>3. ckpt.last \in Steps
      BY <3>1 DEF TypeOK, Checkpoint, Steps
    <3>4. CompletedAttempts(e, ckpt.last)' = CompletedAttempts(e, ckpt.last)
      BY <3>1, <3>3, <1>1 DEF NoNewCompletion, CompletedAttempts
    <3> QED  BY <3>2, <3>4 DEF IsCompleted
  <2> QED  BY <1>1, <2>1, <2>3, <2>4 DEF CompletionInv, NoNewCompletion
<1>2. ASSUME NEW e \in Execs, NEW s \in Steps, NEW n \in Nat, OneNewCompletion(e, s, n)
      PROVE  /\ CompletionInv'
             /\ \A f \in Execs, t \in Steps :
                  IsCompleted(f, t) => /\ DOMAIN attempts'[f][t] = DOMAIN attempts[f][t]
                                       /\ CompletedAttempts(f, t)' = CompletedAttempts(f, t)
  <2>1. \A f \in Execs, t \in Steps : f # e \/ t # s =>
          /\ attempts'[f][t] = attempts[f][t]
          /\ CompletedAttempts(f, t)' = CompletedAttempts(f, t)
    BY <1>2 DEF OneNewCompletion, CompletedAttempts
  <2>2. ~IsCompleted(e, s) /\ CompletedAttempts(e, s)' = {n}
    BY <1>2 DEF OneNewCompletion
  <2>3. AtMostOneCompletion'
    BY <2>1, <2>2 DEF CompletionInv, AtMostOneCompletion
  <2>4. CompletionInRows'
    BY <2>1, <1>2 DEF CompletionInv, CompletionInRows, Kept, OneNewCompletion, IsCompleted
  <2>5. LastStepIsCompleted'
    BY <2>2, <1>2 DEF LastStepIsCompleted, OneNewCompletion, IsCompleted, CompletedAttempts
  <2> QED  BY <2>1, <2>2, <2>3, <2>4, <2>5 DEF CompletionInv
<1> QED  BY <1>1, <1>2

(* persistExecutionSnapshot keeps completed steps, whatever the lease      *)
(* columns it writes: its transition table has no way out of completed.    *)
LEMMA PersistKeeps ==
  ASSUME TypeOK, NEW e \in Execs, NEW w \in Write, MayPersist(e, w),
         \/ \E o, l : snap' = Overwritten(e, w, o, l)
         \/ snap' = Merged(e, w)
         \/ snap' = Unleased(e, w)
  PROVE  Kept
<1>1. PICK o, l : snap' = Overwritten(e, w, o, l)
  BY DEF Merged, Unleased
<1>2. "none" \notin ExecutionStatuses /\ w.status \in ExecutionStatuses
  BY DEF ExecutionStatuses, Write
<1>3. \A st : LegalChange("completed", st) => st = "completed"
  BY DEF LegalChange
<1> SUFFICES ASSUME NEW f \in Execs, NEW t \in Steps, HasRow(f),
                    snap[f].steps[t] = "completed"
             PROVE  HasRow(f)' /\ snap'[f].steps[t] = "completed"
  BY DEF Kept
<1>4. CASE f = e
  <2>1. LegalChange(snap[e].steps[t], w.steps[t])
    BY <1>4 DEF MayPersist
  <2>2. w.steps[t] = "completed"
    BY <2>1, <1>3, <1>4
  <2> QED  BY <1>1, <1>2, <1>4, <2>2 DEF TypeOK, Overwritten, HasRow
<1>5. CASE f # e
  BY <1>1, <1>5 DEF TypeOK, Overwritten, HasRow
<1> QED  BY <1>4, <1>5

(* syncExecutionLeaseTx and the passing of time touch no status.           *)
LEMMA LeaseKeeps ==
  ASSUME TypeOK, NEW e \in Execs,
         \/ \E o : snap' = LeaseMirrored(snap, e, o)
         \/ snap' = [snap EXCEPT ![e].live = FALSE]
         \/ UNCHANGED snap
  PROVE  Kept
<1>1. snap \in [Execs -> Row]
  BY DEF TypeOK
<1>2. ASSUME NEW o, snap' = LeaseMirrored(snap, e, o)
      PROVE  \A f \in Execs : snap'[f].status = snap[f].status /\ snap'[f].steps = snap[f].steps
  <2>1. \A r \in Row : \A b : LET m == [r EXCEPT !.owner = o, !.live = b]
                             IN  m.status = r.status /\ m.steps = r.steps
    BY DEF Row
  <2>2. CASE snap' = snap
    BY <2>2
  <2>3. CASE snap' = [snap EXCEPT ![e].owner = o, ![e].live = o # NoProc]
    BY <1>1, <2>1, <2>3
  <2> QED  BY <1>2, <2>2, <2>3 DEF LeaseMirrored
<1>3. ASSUME snap' = [snap EXCEPT ![e].live = FALSE]
      PROVE  \A f \in Execs : snap'[f].status = snap[f].status /\ snap'[f].steps = snap[f].steps
  BY <1>1, <1>3 DEF Row
<1>4. \A f \in Execs : snap'[f].status = snap[f].status /\ snap'[f].steps = snap[f].steps
  BY <1>2, <1>3
<1> QED  BY <1>4 DEF Kept, HasRow

(* A transaction that leaves the attempts alone, and the index of the last *)
(* completed step alone or starts it, adds no completion.                  *)
LEMMA SameAttempts ==
  ASSUME UNCHANGED attempts, ckpt'.last \in {0, ckpt.last}
  PROVE  NoNewCompletion
BY DEF NoNewCompletion, CompletedAttempts

LEMMA LastKept ==
  ASSUME TypeOK, NEW s \in Steps, NEW st
  PROVE  /\ [ckpt EXCEPT !.status = st].last = ckpt.last
         /\ CheckpointBefore(s).last = ckpt.last
         /\ CheckpointFailed(s).last = ckpt.last
         /\ CheckpointReview(s).last = ckpt.last
BY DEF TypeOK, Checkpoint, CheckpointBefore, CheckpointFailed, CheckpointReview

(* The lock's transactions, the checkpoint's, and those that write a run.  *)
LEMMA LockStepCompletions ==
  ASSUME TypeOK, NEW e \in Execs, NEW p \in Procs, LockStep(e, p)
  PROVE  Kept /\ NoNewCompletion
<1>1. UNCHANGED <<attempts, ckpt>>
  BY DEF LockStep, AcquireExecutionLock, AcquireConflict, AcquireOrReuseExecutionLock,
         ReleaseExecutionLock
<1>2. \/ snap' = LeaseMirrored(snap, e, p)
      \/ snap' = LeaseMirrored(snap, e, NoProc)
      \/ UNCHANGED snap
  BY DEF LockStep, AcquireExecutionLock, AcquireConflict, AcquireOrReuseExecutionLock,
         ReleaseExecutionLock
<1> QED  BY <1>1, <1>2, LeaseKeeps, SameAttempts

LEMMA CheckpointStepCompletions ==
  ASSUME TypeOK, NEW e \in Execs, CheckpointStep(e, CheckpointStatuses, Kinds)
  PROVE  Kept /\ NoNewCompletion
<1>1. UNCHANGED attempts
  BY DEF CheckpointStep, StartExecutionState, SetCheckpointStatus, CompleteCheckpoint,
         AppendLedgerEvent, FinalizeExecutionTransition, ExecutionLeaseLapses
<1>2. \/ snap' = LeaseMirrored(snap, e, NoProc)
      \/ snap' = [snap EXCEPT ![e].live = FALSE]
      \/ UNCHANGED snap
  BY DEF CheckpointStep, StartExecutionState, SetCheckpointStatus, CompleteCheckpoint,
         AppendLedgerEvent, FinalizeExecutionTransition, ExecutionLeaseLapses
<1>3. \/ UNCHANGED ckpt
      \/ ckpt' = [NoCheckpoint EXCEPT !.status = "pending"]
      \/ ckpt' = [ckpt EXCEPT !.status = "completed", !.cur = NumSteps + 1]
      \/ \E st : ckpt' = [ckpt EXCEPT !.status = st]
  BY DEF CheckpointStep, StartExecutionState, SetCheckpointStatus, CompleteCheckpoint,
         AppendLedgerEvent, FinalizeExecutionTransition, ExecutionLeaseLapses
<1>4. ckpt'.last \in {0, ckpt.last}
  BY <1>3 DEF TypeOK, Checkpoint, NoCheckpoint
<1> QED  BY <1>1, <1>2, <1>4, LeaseKeeps, SameAttempts

LEMMA RunStepCompletions ==
  ASSUME TypeOK, NEW e \in Execs, RunStep(e, Write, {"completed", "failed"})
  PROVE  Kept /\ NoNewCompletion
<1>1. PICK w \in Write :
        \/ \E p \in Procs \cup {NoProc}, live \in BOOLEAN : PersistExecutionSnapshot(e, w, p, live)
        \/ \E s \in Steps : PauseBeforeExecutionForReview(e, s, w)
        \/ \E st \in {"completed", "failed"} : FinalizeExecution(e, w, st)
        \/ PauseExecutionForReview(e, w)
  BY DEF RunStep
<1>2. /\ UNCHANGED attempts
      /\ MayPersist(e, w)
      /\ \/ \E o, l : snap' = Overwritten(e, w, o, l)
         \/ snap' = Merged(e, w)
         \/ snap' = Unleased(e, w)
  BY <1>1 DEF PersistExecutionSnapshot, PauseBeforeExecutionForReview, FinalizeExecution,
              PauseExecutionForReview, PausedForReview, MayPauseBefore, MayFinalize
<1>3. \/ UNCHANGED ckpt
      \/ \E s \in Steps : ckpt' = CheckpointReview(s)
      \/ \E st : ckpt' = [ckpt EXCEPT !.status = st]
  BY <1>1 DEF PersistExecutionSnapshot, PauseBeforeExecutionForReview, FinalizeExecution,
              PauseExecutionForReview, PausedForReview
<1>4. ckpt'.last = ckpt.last
  BY <1>3, LastKept, StepsAssumption DEF TypeOK, Checkpoint
<1> QED  BY <1>2, <1>4, PersistKeeps, SameAttempts

(* An attempt that is rewritten without completing it, in a step that may  *)
(* not be open only if the attempt was not completed either.               *)
LEMMA RewrittenAttempt ==
  ASSUME TypeOK, NEW e \in Execs, NEW s \in Steps, NEW n \in DOMAIN attempts[e][s],
         attempts[e][s][n].status # "completed",
         \/ \E b : attempts' = [attempts EXCEPT ![e][s][n].live = b]
         \/ \E st \in {"failed", "cancelled"} : attempts' = AttemptEnded(e, s, n, st),
         ckpt'.last = ckpt.last
  PROVE  NoNewCompletion
<1> DEFINE OnlyOne(a) == /\ \A f \in Execs, t \in Steps : f # e \/ t # s => a[f][t] = attempts[f][t]
                         /\ DOMAIN a[e][s] = DOMAIN attempts[e][s]
                         /\ \A m \in DOMAIN attempts[e][s] : m # n => a[e][s][m] = attempts[e][s][m]
<1>1. attempts \in [Execs -> [Steps -> Seq(Attempt)]]
  BY DEF TypeOK
<1>2. attempts[e][s][n] \in Attempt
  BY <1>1
<1>3. ASSUME OnlyOne(attempts'), attempts'[e][s][n].status # "completed"
      PROVE  NoNewCompletion
  <2>1. CompletedAttempts(e, s)' = CompletedAttempts(e, s)
    BY <1>3 DEF CompletedAttempts
  <2>2. \A f \in Execs, t \in Steps : f # e \/ t # s =>
          CompletedAttempts(f, t)' = CompletedAttempts(f, t)
    BY <1>3 DEF CompletedAttempts
  <2> QED  BY <1>3, <2>1, <2>2 DEF NoNewCompletion
<1>4. CASE \E b : attempts' = [attempts EXCEPT ![e][s][n].live = b]
  <2>1. PICK b : attempts' = [attempts EXCEPT ![e][s][n].live = b]
    BY <1>4
  <2>2. OnlyOne(attempts')
    BY <1>1, <2>1
  <2>3. attempts'[e][s][n] = [attempts[e][s][n] EXCEPT !.live = b]
    BY <1>1, <2>1
  <2>4. attempts'[e][s][n].status # "completed"
    BY <1>2, <2>3 DEF Attempt
  <2> QED  BY <1>3, <2>2, <2>4
<1>5. CASE \E st \in {"failed", "cancelled"} : attempts' = AttemptEnded(e, s, n, st)
  <2>1. PICK st \in {"failed", "cancelled"} : attempts' = AttemptEnded(e, s, n, st)
    BY <1>5
  <2>2. OnlyOne(attempts')
    BY <1>1, <2>1 DEF AttemptEnded
  <2> DEFINE half == [attempts EXCEPT ![e][s][n].status = st]
  <2>3. half[e][s][n] = [attempts[e][s][n] EXCEPT !.status = st]
    BY <1>1
  <2>4. half[e][s][n].status = st /\ "status" \in DOMAIN half[e][s][n]
    BY <1>2, <2>3 DEF Attempt
  <2>5. /\ e \in DOMAIN half /\ s \in DOMAIN half[e] /\ n \in DOMAIN half[e][s]
        /\ attempts' = [half EXCEPT ![e][s][n].live = FALSE]
    BY <1>1, <2>1 DEF AttemptEnded
  <2> HIDE DEF half
  <2>6. attempts'[e][s][n] = [half[e][s][n] EXCEPT !.live = FALSE]
    BY <2>5
  <2>7. attempts'[e][s][n].status # "completed"
    BY <2>4, <2>6
  <2> QED  BY <1>3, <2>2, <2>7
<1> QED  BY <1>4, <1>5

(* getExecutionAndStep: a step that may be written has not completed.      *)
LEMMA OpenIsNotCompleted ==
  ASSUME CompletionInv, NEW e \in Execs, NEW s \in Steps, StepIsOpen(e, s)
  PROVE  ~IsCompleted(e, s)
BY DEF CompletionInv, CompletionInRows, StepIsOpen, TerminalStep

(* Ending an attempt as completed is the step's only completion.           *)
LEMMA CompleteCompletions ==
  ASSUME TypeOK, CompletionInv, NEW e \in Execs, NEW s \in Steps, NEW n \in Nat,
         CompleteExecutionAttempt(e, s, n)
  PROVE  Kept /\ OneNewCompletion(e, s, n)
<1>1. /\ StepIsOpen(e, s) /\ n \in DOMAIN attempts[e][s]
      /\ MayPersist(e, TerminalSnapshot(e, s, "completed"))
      /\ attempts' = AttemptEnded(e, s, n, "completed")
      /\ ckpt' = CheckpointAfter(s)
      /\ snap' = Merged(e, TerminalSnapshot(e, s, "completed"))
  BY DEF CompleteExecutionAttempt, MayEndAttempt
<1>2. ~IsCompleted(e, s)
  BY <1>1, OpenIsNotCompleted
<1>3. "completed" \in StepStatuses
  BY DEF StepStatuses
<1>4. TerminalSnapshot(e, s, "completed") \in Write
  BY <1>3, SnapshotType DEF TypeOK
<1>5. Kept
  BY <1>1, <1>4, PersistKeeps
<1>6. attempts[e][s] \in Seq(Attempt) /\ attempts \in [Execs -> [Steps -> Seq(Attempt)]]
  BY DEF TypeOK
<1>7. \A f \in Execs, t \in Steps : f # e \/ t # s => attempts'[f][t] = attempts[f][t]
  BY <1>1, <1>6 DEF AttemptEnded
<1>8. /\ DOMAIN attempts'[e][s] = DOMAIN attempts[e][s]
      /\ \A m \in DOMAIN attempts[e][s] : m # n => attempts'[e][s][m] = attempts[e][s][m]
  BY <1>1, <1>6 DEF AttemptEnded
<1>9. attempts'[e][s][n].status = "completed"
  <2>1. attempts[e][s][n] \in Attempt
    BY <1>1, <1>6
  <2> QED  BY <1>1, <1>6, <2>1 DEF AttemptEnded, Attempt
<1>10. CompletedAttempts(e, s)' = {n}
  BY <1>1, <1>2, <1>8, <1>9 DEF CompletedAttempts, IsCompleted
<1>11. HasRow(e)' /\ snap'[e].steps[s] = "completed"
  <2>1. snap[e].steps \in [Steps -> StepStatuses] /\ snap \in [Execs -> Row]
    BY DEF TypeOK, Row
  <2> QED  BY <1>1, <2>1 DEF Merged, Overwritten, TerminalSnapshot, HasRow
<1>12. ckpt'.last = s /\ ckpt'.cur = s + 1
  BY <1>1 DEF CheckpointAfter
<1> QED  BY <1>2, <1>5, <1>7, <1>10, <1>11, <1>12 DEF OneNewCompletion

(* The other transactions of an attempt add no completion, and undo none.  *)
LEMMA BeginCompletions ==
  ASSUME TypeOK, CompletionInv, NEW e \in Execs, NEW p \in Procs, NEW s \in Steps,
         BeginExecutionAttempt(e, p, s)
  PROVE  Kept /\ NoNewCompletion
<1> DEFINE a == [status |-> "running", live |-> TRUE, proc |-> p]
<1>1. /\ StepIsOpen(e, s) /\ MayPersist(e, RunningSnapshot(e, s))
      /\ attempts' = [attempts EXCEPT ![e][s] = Append(@, a)]
      /\ ckpt' = CheckpointBefore(s)
      /\ snap' = Merged(e, RunningSnapshot(e, s))
  BY DEF BeginExecutionAttempt, MayBegin
<1>2. "running" \in StepStatuses
  BY DEF StepStatuses
<1>3. RunningSnapshot(e, s) \in Write
  BY <1>2, SnapshotType DEF TypeOK
<1>4. Kept
  BY <1>1, <1>3, PersistKeeps
<1>5. ~IsCompleted(e, s)
  BY <1>1, OpenIsNotCompleted
<1>6. attempts[e][s] \in Seq(Attempt) /\ attempts \in [Execs -> [Steps -> Seq(Attempt)]]
  BY DEF TypeOK
<1>7. \A f \in Execs, t \in Steps : f # e \/ t # s => attempts'[f][t] = attempts[f][t]
  BY <1>1, <1>6
<1>8. attempts'[e][s] = Append(attempts[e][s], a)
  BY <1>1, <1>6
<1>9. \A m \in DOMAIN attempts'[e][s] :
        attempts'[e][s][m].status = "completed" => m \in CompletedAttempts(e, s)
  <2> SUFFICES ASSUME NEW m \in DOMAIN attempts'[e][s],
                      attempts'[e][s][m].status = "completed"
               PROVE  m \in CompletedAttempts(e, s)
    OBVIOUS
  <2>1. m \in 1..Len(attempts[e][s]) + 1
    BY <1>6, <1>8
  <2>2. CASE m = Len(attempts[e][s]) + 1
    BY <1>6, <1>8, <2>2
  <2>3. CASE m # Len(attempts[e][s]) + 1
    BY <1>6, <1>8, <2>1, <2>3 DEF CompletedAttempts
  <2> QED  BY <2>2, <2>3
<1>10. CompletedAttempts(e, s)' = CompletedAttempts(e, s)
  BY <1>5, <1>9 DEF IsCompleted, CompletedAttempts
<1>11. \A f \in Execs, t \in Steps :
         /\ CompletedAttempts(f, t)' = CompletedAttempts(f, t)
         /\ IsCompleted(f, t) => DOMAIN attempts'[f][t] = DOMAIN attempts[f][t]
  BY <1>5, <1>7, <1>10 DEF CompletedAttempts
<1>12. ckpt'.last = ckpt.last
  BY <1>1, LastKept
<1> QED  BY <1>4, <1>11, <1>12 DEF NoNewCompletion

LEMMA AttemptStepCompletions ==
  ASSUME TypeOK, CompletionInv, NEW e \in Execs, NEW p \in Procs, NEW s \in Steps,
         AttemptStep(e, p, s, Write)
  PROVE  Kept /\ (NoNewCompletion \/ \E n \in Nat : OneNewCompletion(e, s, n))
<1>1. CASE BeginExecutionAttempt(e, p, s)
  BY <1>1, BeginCompletions
<1>2. ASSUME NEW n \in DOMAIN attempts[e][s], CompleteExecutionAttempt(e, s, n)
      PROVE  Kept /\ \E m \in Nat : OneNewCompletion(e, s, m)
  <2>1. attempts[e][s] \in Seq(Attempt)
    BY DEF TypeOK
  <2>2. n \in Nat
    BY <2>1
  <2> QED  BY <1>2, <2>2, CompleteCompletions
<1>3. ASSUME NEW n \in DOMAIN attempts[e][s], HeartbeatAttempt(e, p, s, n)
      PROVE  Kept /\ NoNewCompletion
  <2>1. /\ n \in DOMAIN attempts[e][s] /\ attempts[e][s][n].status # "completed"
        /\ attempts' = [attempts EXCEPT ![e][s][n].live = TRUE]
        /\ UNCHANGED ckpt
    BY <1>3 DEF HeartbeatAttempt
  <2>2. snap' = LeaseMirrored(snap, e, p) \/ UNCHANGED snap
    BY <1>3 DEF HeartbeatAttempt
  <2> QED  BY <2>1, <2>2, LeaseKeeps, RewrittenAttempt
<1>4. ASSUME NEW n \in DOMAIN attempts[e][s], AttemptLeaseLapses(e, s, n)
      PROVE  Kept /\ NoNewCompletion
  <2>1. /\ n \in DOMAIN attempts[e][s] /\ attempts[e][s][n].status # "completed"
        /\ attempts' = [attempts EXCEPT ![e][s][n].live = FALSE]
        /\ UNCHANGED <<ckpt, snap>>
    BY <1>4 DEF AttemptLeaseLapses
  <2> QED  BY <2>1, LeaseKeeps, RewrittenAttempt
<1>5. ASSUME NEW n \in DOMAIN attempts[e][s], StepIsOpen(e, s)
      PROVE  attempts[e][s][n].status # "completed"
  BY <1>5, OpenIsNotCompleted DEF IsCompleted, CompletedAttempts
<1>6. ASSUME NEW n \in DOMAIN attempts[e][s], FailExecutionAttempt(e, s, n)
      PROVE  Kept /\ NoNewCompletion
  <2>1. /\ StepIsOpen(e, s) /\ n \in DOMAIN attempts[e][s]
        /\ MayPersist(e, TerminalSnapshot(e, s, "failed"))
        /\ attempts' = AttemptEnded(e, s, n, "failed")
        /\ ckpt' = CheckpointFailed(s)
        /\ snap' = Merged(e, TerminalSnapshot(e, s, "failed"))
    BY <1>6 DEF FailExecutionAttempt, MayEndAttempt
  <2>2. "failed" \in StepStatuses
    BY DEF StepStatuses
  <2>3. TerminalSnapshot(e, s, "failed") \in Write
    BY <2>2, SnapshotType DEF TypeOK
  <2>4. Kept
    BY <2>1, <2>3, PersistKeeps
  <2>5. ckpt'.last = ckpt.last
    BY <2>1, LastKept
  <2> QED  BY <1>5, <2>1, <2>4, <2>5, RewrittenAttempt
<1>7. ASSUME NEW n \in DOMAIN attempts[e][s], NEW w \in Write,
             PauseExecutionAttemptForReview(e, s, n, w)
      PROVE  Kept /\ NoNewCompletion
  <2>1. /\ StepIsOpen(e, s) /\ n \in DOMAIN attempts[e][s] /\ MayPersist(e, w)
        /\ attempts' = AttemptEnded(e, s, n, "cancelled")
        /\ ckpt' = CheckpointReview(s)
        /\ snap' = Merged(e, w) \/ snap' = Unleased(e, w)
    BY <1>7 DEF PauseExecutionAttemptForReview, MayPauseAttempt, PausedForReview
  <2>2. Kept
    BY <2>1, PersistKeeps
  <2>3. ckpt'.last = ckpt.last
    BY <2>1, LastKept
  <2> QED  BY <1>5, <2>1, <2>2, <2>3, RewrittenAttempt
<1> QED  BY <1>1, <1>2, <1>3, <1>4, <1>6, <1>7 DEF AttemptStep

(* Every transaction is of one of the two sorts.                           *)
LEMMA StoreNextCompletions ==
  ASSUME TypeOK, CompletionInv, StoreNext
  PROVE  /\ Kept
         /\ \/ NoNewCompletion
            \/ \E e \in Execs, s \in Steps, n \in Nat : OneNewCompletion(e, s, n)
<1>1. CASE QueueStep
  <2>1. UNCHANGED snap /\ UNCHANGED attempts /\ ckpt'.last = ckpt.last
    BY <1>1 DEF QueueStep, ExpireRecoveryItems, RecoveryItemDue
  <2>2. Kept
    BY <2>1 DEF Kept, HasRow
  <2> QED  BY <2>1, <2>2, SameAttempts
<1>2. ASSUME NEW e \in Execs, CheckpointStep(e, CheckpointStatuses, Kinds)
      PROVE  Kept /\ NoNewCompletion
  BY <1>2, CheckpointStepCompletions
<1>3. ASSUME NEW e \in Execs, RunStep(e, Write, {"completed", "failed"})
      PROVE  Kept /\ NoNewCompletion
  BY <1>3, RunStepCompletions
<1>4. ASSUME NEW e \in Execs, NEW p \in Procs, LockStep(e, p)
      PROVE  Kept /\ NoNewCompletion
  BY <1>4, LockStepCompletions
<1>5. ASSUME NEW e \in Execs, NEW p \in Procs, NEW s \in Steps, AttemptStep(e, p, s, Write)
      PROVE  Kept /\ (NoNewCompletion \/ \E n \in Nat : OneNewCompletion(e, s, n))
  BY <1>5, AttemptStepCompletions
<1> QED  BY <1>1, <1>2, <1>3, <1>4, <1>5 DEF StoreNext, StoreStep

LEMMA CompletionStep ==
  ASSUME TypeOK, CompletionInv, [StoreNext]_storeVars
  PROVE  /\ CompletionInv'
         /\ \A f \in Execs, t \in Steps :
              IsCompleted(f, t) => /\ DOMAIN attempts'[f][t] = DOMAIN attempts[f][t]
                                   /\ CompletedAttempts(f, t)' = CompletedAttempts(f, t)
<1>1. CASE StoreNext
  BY <1>1, StoreNextCompletions, CompletionsKept
<1>2. CASE UNCHANGED storeVars
  <2>1. UNCHANGED snap /\ UNCHANGED attempts /\ ckpt'.last \in {0, ckpt.last}
    BY <1>2 DEF storeVars
  <2>2. Kept
    BY <2>1 DEF Kept, HasRow
  <2> QED  BY <2>1, <2>2, SameAttempts, CompletionsKept
<1> QED  BY <1>1, <1>2

-----------------------------------------------------------------------------
(* The theorems. *)

(* Initially nothing has completed and the checkpoint has no step behind.  *)
LEMMA CompletionInit == StoreInit => CompletionInv
BY DEF StoreInit, CompletionInv, AtMostOneCompletion, CompletionInRows, LastStepIsCompleted,
       IsCompleted, CompletedAttempts, NoCheckpoint

(* The invariant holds of every execution of the store.                    *)
LEMMA CompletionInvariant == StoreSpec => []CompletionInv
<1>1. TypeOK /\ CompletionInv /\ [StoreNext]_storeVars => CompletionInv'
  BY CompletionStep
<1> QED  BY <1>1, CompletionInit, TypeCorrect, PTL DEF StoreSpec

(* However many workers hold a running attempt of a step, and whatever     *)
(* runs they write, at most one of its attempts is recorded as completed.  *)
THEOREM OneCompletion == StoreSpec => []AtMostOneCompletion
<1>1. CompletionInv => AtMostOneCompletion
  BY DEF CompletionInv
<1> QED  BY <1>1, CompletionInvariant, PTL

(* The rows never lose a completion that the attempts record.              *)
THEOREM RowsKeepCompletions == StoreSpec => []CompletionInRows
<1>1. CompletionInv => CompletionInRows
  BY DEF CompletionInv
<1> QED  BY <1>1, CompletionInvariant, PTL

(* lastCompletedStepIndex points at a step that an attempt completed.      *)
THEOREM LastStepCompleted == StoreSpec => []LastStepIsCompleted
<1>1. CompletionInv => LastStepIsCompleted
  BY DEF CompletionInv
<1> QED  BY <1>1, CompletionInvariant, PTL

(* A completed step gains no attempt and keeps the one that completed.     *)
THEOREM CompletedStaysSettled == StoreSpec => CompletedIsSettled
<1> DEFINE Settles ==
      \A e \in Execs, s \in Steps :
        IsCompleted(e, s) => /\ DOMAIN attempts'[e][s] = DOMAIN attempts[e][s]
                             /\ CompletedAttempts(e, s)' = CompletedAttempts(e, s)
<1>1. TypeOK /\ CompletionInv /\ [StoreNext]_storeVars => [Settles]_storeVars
  <2> SUFFICES ASSUME TypeOK, CompletionInv, [StoreNext]_storeVars PROVE Settles
    OBVIOUS
  <2> QED  BY CompletionStep
<1>2. CompletedIsSettled <=> [][Settles]_storeVars
  BY DEF CompletedIsSettled
<1> HIDE DEF Settles
<1> QED  BY <1>1, <1>2, TypeCorrect, CompletionInvariant, PTL DEF StoreSpec

=============================================================================
