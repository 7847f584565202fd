------------------------ MODULE ExecutionOrderProofs ------------------------
(***************************************************************************)
(* Where one execution of the plan has rows, the engine attempts its steps *)
(* in order, completes all of them or none, and never loses its place: the *)
(* run a call carries, hydrated from rows or rewritten from a checkpoint   *)
(* that were read long ago, claims no step that has not completed.  Then   *)
(* who gives executions rows, who holds the lock and who gives it back,    *)
(* and why a step is begun at most once where recoveries wait.             *)
(***************************************************************************)
EXTENDS ExecutionProperties, ExecutionEngineProofs, FiniteSetTheorems

-----------------------------------------------------------------------------
(* The invariant. *)

(* A step has completed, by these attempts.                                *)
Done(at, e, s) == \E n \in DOMAIN at[e][s] : at[e][s][n].status = "completed"

(* The rows and the checkpoint claim nothing that has not completed; what  *)
(* is paused has not failed.                                               *)
RowsTrue == \A e \in Execs, s \in Steps : snap[e].steps[s] = "completed" => Done(attempts, e, s)
PausesClean ==
    \A e \in Execs : snap[e].status \in {"paused", "paused_for_review"} =>
        \A s \in Steps : snap[e].steps[s] # "failed"
CheckpointTrue ==
    /\ ckpt.status = "none" => ckpt.last = 0
    /\ \A e \in Execs : snap[e].status # "none" => \A s \in 1..ckpt.last : Done(attempts, e, s)
Sequential ==
    \A e \in Execs, s \in Steps :
        attempts[e][s] # << >> => \A t \in 1..s - 1 : Done(attempts, e, t)
Whole ==
    \A e \in Execs : snap[e].status = "completed" \/ ledger[e]["completed"] > 0 =>
        \A s \in Steps : Done(attempts, e, s)

StoreOrder == RowsTrue /\ PausesClean /\ CheckpointTrue /\ Sequential /\ Whole

(* The steps that a run claims to be behind it, as its own or by the       *)
(* checkpoint it goes on from.  They have completed, unless the call works *)
(* for an execution that another one has been ahead of.                    *)
Behind(m) == {s \in Steps : m.steps[s] = "completed"} \cup 1..m.from.last
Apart(sn, e) == \E d \in Execs \ {e} : sn[d].status # "none"
Backed(e, S, sn, at) == Apart(sn, e) \/ \A s \in S : Done(at, e, s)

(* Points at which no step of the run has failed, and those at which all   *)
(* have completed.                                                         *)
CleanAt(c) ==
    {"created", "launch", "started", "stageRun", "stageLog", "step", "refusedBegin", "markRunning",
     "tool", "complete", "markCompleted", "fail", "markFailed", "failThrown", "markThrown",
     "markPaused", "stagePaused", "pause", "decide"}
    \cup (IF Op[c] = "recover" THEN {} ELSE {"reuse"})
FinishedAt == {"stageDoneLog", "finalize"}
Clean(m)    == \A s \in Steps : m.steps[s] # "failed"
Finished(m) == \A s \in Steps : m.steps[s] = "completed"
FitPoint(c, l, m) == (l \in CleanAt(c) => Clean(m)) /\ (l \in FinishedAt => Finished(m))

Fits(c) ==
    /\ FitPoint(c, pc[c], run[c])
    /\ Backed(target[c], Behind(run[c]), snap, attempts)
    /\ pc[c] = "markCompleted" => Done(attempts, target[c], run[c].step)

OrderInv == StoreOrder /\ \A c \in Calls : Fits(c)

(* What every step of the engine may rely on.                              *)
Context ==
    /\ EngineInv /\ EngineInv' /\ CompletionInv /\ CompletionInv'
    /\ AtMostOneExecution /\ AtMostOneExecution' /\ OrderInv
    /\ \A e \in Execs, s \in Steps : Done(attempts, e, s) => Done(attempts', e, s)

-----------------------------------------------------------------------------
(* What a step does to the store. *)

KeepsRow(e) ==
    /\ snap'[e].status = snap[e].status
    /\ snap'[e].stage = snap[e].stage /\ snap'[e].steps = snap[e].steps
KeepsLedger(e) == ledger'[e]["completed"] > 0 => ledger[e]["completed"] > 0
Begins(e, s)   == attempts[e][s] = << >> /\ attempts'[e][s] # << >>
CheckpointStays == ckpt'.status = "none" => ckpt' = ckpt

(* It leaves alone what the invariant is about.                            *)
Calm ==
    /\ \A e \in Execs : KeepsRow(e) /\ KeepsLedger(e) /\ \A s \in Steps : ~Begins(e, s)
    /\ CheckpointStays
    /\ ckpt'.last = ckpt.last \/ (ckpt.status = "none" /\ ckpt'.last = 0)

(* It writes w over the rows of execution e, and what else it does it does *)
(* to e.                                                                   *)
Writes(e, w) ==
    /\ snap'[e].status = w.status /\ snap'[e].steps = w.steps
    /\ \A d \in Execs \ {e} : KeepsRow(d) /\ KeepsLedger(d) /\ \A s \in Steps : ~Begins(d, s)
    /\ CheckpointStays

(* What it then leaves.                                                    *)
Advances ==
    /\ StoreOrder' /\ ckpt'.last >= ckpt.last
    /\ \A e \in Execs : snap[e].status # "none" => snap'[e].status # "none"

LEMMA DoneIs ==
  ASSUME NEW e \in Execs, NEW s \in Steps
  PROVE  IsCompleted(e, s) <=> Done(attempts, e, s)
BY DEF IsCompleted, CompletedAttempts, Done

LEMMA ContextTypes ==
  ASSUME Context
  PROVE  /\ ckpt.last \in 0..NumSteps /\ ckpt'.last \in 0..NumSteps
         /\ run \in [Calls -> Run] /\ target \in [Calls -> Execs] /\ pc \in [Calls -> Points]
         /\ snap \in [Execs -> Row] /\ snap' \in [Execs -> Row]
         /\ 1..ckpt.last \subseteq Steps /\ 1..ckpt'.last \subseteq Steps
<1>1. /\ ckpt.last \in 0..NumSteps /\ ckpt'.last \in 0..NumSteps
      /\ snap \in [Execs -> Row] /\ snap' \in [Execs -> Row]
  BY DEF Context, EngineInv, TypeOK, Checkpoint
<1>2. run \in [Calls -> Run] /\ target \in [Calls -> Execs] /\ pc \in [Calls -> Points]
  BY DEF Context, EngineInv, EngineTypeOK
<1> QED  BY <1>1, <1>2, StepsAssumption DEF Steps

LEMMA CalmAdvances ==
  ASSUME Context, Calm
  PROVE  Advances
<1>1. StoreOrder /\ \A e \in Execs, s \in Steps : Done(attempts, e, s) => Done(attempts', e, s)
  BY DEF Context, OrderInv
<1>2. \A e \in Execs : KeepsRow(e)
  BY DEF Calm
<1>3. RowsTrue' /\ PausesClean'
  BY <1>1, <1>2 DEF StoreOrder, RowsTrue, PausesClean, KeepsRow
<1>4. CheckpointTrue' /\ ckpt'.last >= ckpt.last
  <2>1. ckpt'.last = ckpt.last
    BY <1>1 DEF Calm, StoreOrder, CheckpointTrue
  <2>2. ckpt'.status = "none" => ckpt'.last = 0
    BY <1>1 DEF Calm, CheckpointStays, StoreOrder, CheckpointTrue
  <2>3. ASSUME NEW e \in Execs, snap'[e].status # "none", NEW s \in 1..ckpt'.last
        PROVE  Done(attempts', e, s)
    BY <1>1, <1>2, <2>1, <2>3, ContextTypes DEF StoreOrder, CheckpointTrue, KeepsRow
  <2>4. ckpt'.last >= ckpt.last
    BY <2>1, ContextTypes
  <2> QED  BY <2>2, <2>3, <2>4 DEF CheckpointTrue
<1>5. Sequential'
  <2>1. \A e \in Execs, s \in Steps : ~Begins(e, s)
    BY DEF Calm
  <2>2. ASSUME NEW e \in Execs, NEW s \in Steps, attempts'[e][s] # << >>, NEW t \in 1..s - 1
        PROVE  Done(attempts', e, t)
    <3>1. t \in Steps
      BY StepsAssumption DEF Steps
    <3> QED  BY <1>1, <2>1, <2>2, <3>1 DEF StoreOrder, Sequential, Begins
  <2> QED  BY <2>2 DEF Sequential
<1>6. Whole'
  <2>1. \A e \in Execs : KeepsLedger(e)
    BY DEF Calm
  <2>2. ASSUME NEW e \in Execs, snap'[e].status = "completed" \/ ledger'[e]["completed"] > 0,
               NEW s \in Steps
        PROVE  Done(attempts', e, s)
    BY <1>1, <1>2, <2>1, <2>2 DEF StoreOrder, Whole, KeepsRow, KeepsLedger
  <2> QED  BY <2>2 DEF Whole
<1> QED  BY <1>2, <1>3, <1>4, <1>5, <1>6 DEF Advances, StoreOrder, KeepsRow

(* A write of what has completed, to the rows of the one execution that    *)
(* has any.                                                                *)
LEMMA WriteAdvances ==
  ASSUME Context, NEW e \in Execs, NEW w \in Write, Writes(e, w),
         \A s \in Steps : w.steps[s] = "completed" => Done(attempts', e, s),
         w.status \in {"paused", "paused_for_review"} => \A s \in Steps : w.steps[s] # "failed",
         w.status = "completed" \/ ~KeepsLedger(e) => \A s \in Steps : Done(attempts', e, s),
         \A s \in Steps : Begins(e, s) => \A t \in 1..s - 1 : Done(attempts', e, t),
         \/ ckpt'.last = ckpt.last
         \/ ckpt'.last >= ckpt.last /\ \A t \in 1..ckpt'.last : Done(attempts', e, t)
  PROVE  Advances /\ ~Apart(snap', e)
<1>1. StoreOrder /\ \A d \in Execs, s \in Steps : Done(attempts, d, s) => Done(attempts', d, s)
  BY DEF Context, OrderInv
<1>2. /\ snap'[e].status = w.status /\ snap'[e].steps = w.steps /\ w.status # "none"
      /\ \A d \in Execs \ {e} : KeepsRow(d) /\ KeepsLedger(d) /\ \A s \in Steps : ~Begins(d, s)
  BY DEF Writes, Write, ExecutionStatuses
<1>3. \A d \in Execs \ {e} : snap'[d].status = "none" /\ snap[d].status = "none"
  BY <1>2 DEF Context, AtMostOneExecution, HasRow, KeepsRow
<1>4. RowsTrue' /\ PausesClean'
  <2>1. ASSUME NEW d \in Execs, NEW s \in Steps, snap'[d].steps[s] = "completed"
        PROVE  Done(attempts', d, s)
    BY <1>1, <1>2, <2>1 DEF StoreOrder, RowsTrue, KeepsRow
  <2>2. ASSUME NEW d \in Execs, snap'[d].status \in {"paused", "paused_for_review"}
        PROVE  \A s \in Steps : snap'[d].steps[s] # "failed"
    BY <1>2, <1>3, <2>2
  <2> QED  BY <2>1, <2>2 DEF RowsTrue, PausesClean
<1>5. CheckpointTrue' /\ ckpt'.last >= ckpt.last
  <2>1. ckpt'.status = "none" => ckpt'.last = 0
    BY <1>1 DEF Writes, CheckpointStays, StoreOrder, CheckpointTrue
  <2>2. ASSUME ckpt'.last = ckpt.last, ckpt.last > 0, snap[e].status = "none"
        PROVE  FALSE
    <3>1. PICK d \in Execs : IsCompleted(d, ckpt.last)
      BY <2>2 DEF Context, CompletionInv, LastStepIsCompleted
    <3>2. ckpt.last \in Steps
      BY <2>2, ContextTypes DEF Steps
    <3>3. HasRow(d)
      BY <3>1, <3>2 DEF Context, CompletionInv, CompletionInRows
    <3> QED  BY <1>3, <2>2, <3>3 DEF HasRow
  <2>3. ASSUME NEW s \in 1..ckpt'.last PROVE Done(attempts', e, s)
    <3>1. CASE ckpt'.last = ckpt.last
      <4>1. s \in Steps /\ s \in 1..ckpt.last /\ ckpt.last > 0
        BY <3>1, ContextTypes
      <4> QED  BY <1>1, <2>2, <3>1, <4>1 DEF StoreOrder, CheckpointTrue
    <3> QED  BY <3>1
  <2>4. ckpt'.last >= ckpt.last
    BY ContextTypes
  <2> QED  BY <1>3, <2>1, <2>3, <2>4 DEF CheckpointTrue
<1>6. Sequential'
  <2>1. ASSUME NEW d \in Execs, NEW s \in Steps, attempts'[d][s] # << >>, NEW t \in 1..s - 1
        PROVE  Done(attempts', d, t)
    <3>1. t \in Steps
      BY StepsAssumption DEF Steps
    <3> QED  BY <1>1, <1>2, <2>1, <3>1 DEF StoreOrder, Sequential, Begins
  <2> QED  BY <2>1 DEF Sequential
<1>7. Whole'
  <2>1. ASSUME NEW d \in Execs, snap'[d].status = "completed" \/ ledger'[d]["completed"] > 0,
               NEW s \in Steps
        PROVE  Done(attempts', d, s)
    BY <1>1, <1>2, <2>1 DEF StoreOrder, Whole, KeepsRow, KeepsLedger
  <2> QED  BY <2>1 DEF Whole
<1>8. ~Apart(snap', e)
  BY <1>3 DEF Apart
<1>9. \A d \in Execs : snap[d].status # "none" => snap'[d].status # "none"
  BY <1>2, <1>3
<1> QED  BY <1>4, <1>5, <1>6, <1>7, <1>8, <1>9 DEF Advances, StoreOrder

-----------------------------------------------------------------------------
(* The transactions. *)

LEMMA MirrorKeepsRows ==
  ASSUME TypeOK, NEW e \in Execs,
         \/ \E o : snap' = LeaseMirrored(snap, e, o)
         \/ snap' = [snap EXCEPT ![e].live = FALSE]
         \/ UNCHANGED snap
  PROVE  \A d \in Execs : KeepsRow(d)
<1>1. snap \in [Execs -> Row]
  BY DEF TypeOK
<1>2. ASSUME NEW d \in Execs, NEW r \in Row, NEW o, NEW b
      PROVE  /\ [r EXCEPT !.owner = o, !.live = b].status = r.status
             /\ [r EXCEPT !.owner = o, !.live = b].stage = r.stage
             /\ [r EXCEPT !.owner = o, !.live = b].steps = r.steps
             /\ [r EXCEPT !.live = FALSE].status = r.status
             /\ [r EXCEPT !.live = FALSE].stage = r.stage
             /\ [r EXCEPT !.live = FALSE].steps = r.steps
  BY DEF Row
<1>3. CASE UNCHANGED snap
  BY <1>3 DEF KeepsRow
<1>4. CASE snap' = [snap EXCEPT ![e].live = FALSE]
  BY <1>1, <1>2, <1>4 DEF KeepsRow
<1>5. ASSUME NEW o, snap' = LeaseMirrored(snap, e, o)
      PROVE  \A d \in Execs : KeepsRow(d)
  <2>1. CASE snap[e].status = "none"
    BY <1>5, <2>1 DEF LeaseMirrored, KeepsRow
  <2>2. CASE snap[e].status # "none"
    <3> DEFINE b == o # NoProc
    <3>1. snap' = [snap EXCEPT ![e] = [snap[e] EXCEPT !.owner = o, !.live = b]]
      BY <1>1, <1>5, <2>2 DEF LeaseMirrored, Row
    <3> HIDE DEF b
    <3> QED  BY <1>1, <1>2, <3>1 DEF KeepsRow
  <2> QED  BY <2>1, <2>2
<1> QED  BY <1>3, <1>4, <1>5

LEMMA LoggedKeeps ==
  ASSUME TypeOK, NEW e \in Execs, NEW K, ledger' = Logged(ledger, e, K)
  PROVE  /\ \A d \in Execs \ {e} : KeepsLedger(d)
         /\ "completed" \notin K => KeepsLedger(e)
<1>1. ledger \in [Execs -> [Kinds -> 0..2]] /\ "completed" \in Kinds
  BY DEF TypeOK, Kinds
<1>2. \A d \in Execs \ {e} : ledger'[d] = ledger[d]
  BY <1>1 DEF Logged
<1>3. "completed" \notin K => ledger'[e]["completed"] = ledger[e]["completed"]
  BY <1>1 DEF Logged
<1> QED  BY <1>2, <1>3 DEF KeepsLedger

LEMMA MarkKeeps ==
  ASSUME TypeOK, NEW st
  PROVE  /\ [ckpt EXCEPT !.status = st].last = ckpt.last
         /\ [ckpt EXCEPT !.status = st].status = st
BY DEF TypeOK, Checkpoint

(* The transactions that leave rows, attempts and completions alone.       *)
LEMMA LockStepCalm ==
  ASSUME TypeOK, NEW e \in Execs, NEW p \in Procs, LockStep(e, p)
  PROVE  Calm
<1>1. /\ \/ \E o : snap' = LeaseMirrored(snap, e, o)
         \/ UNCHANGED snap
      /\ UNCHANGED <<attempts, ckpt>> /\ ledger' = Logged(ledger, e, {"lease"})
  BY DEF LockStep, AcquireExecutionLock, AcquireConflict, AcquireOrReuseExecutionLock,
         ReleaseExecutionLock
<1>2. \A d \in Execs : KeepsRow(d)
  BY <1>1, MirrorKeepsRows
<1>3. \A d \in Execs : KeepsLedger(d)
  BY <1>1, LoggedKeeps
<1> QED  BY <1>1, <1>2, <1>3 DEF Calm, Begins, CheckpointStays

LEMMA MarkCalm ==
  ASSUME TypeOK, NEW st \in CheckpointStatuses,
         \/ SetCheckpointStatus(st)
         \/ StartExecutionState
         \/ CompleteCheckpoint
  PROVE  Calm
<1>1. UNCHANGED <<snap, attempts, ledger>>
  BY DEF SetCheckpointStatus, StartExecutionState, CompleteCheckpoint
<1>2. st # "none"
  BY DEF CheckpointStatuses
<1>3. CheckpointStays /\ (ckpt'.last = ckpt.last \/ (ckpt.status = "none" /\ ckpt'.last = 0))
  <2>1. CASE SetCheckpointStatus(st)
    BY <1>2, <2>1, MarkKeeps DEF SetCheckpointStatus, CheckpointStays
  <2>2. CASE StartExecutionState
    BY <2>2 DEF StartExecutionState, NoCheckpoint, CheckpointStays
  <2>3. CASE CompleteCheckpoint
    BY <2>3 DEF CompleteCheckpoint, CheckpointStays, TypeOK, Checkpoint
  <2> QED  BY <2>1, <2>2, <2>3
<1> QED  BY <1>1, <1>3 DEF Calm, KeepsRow, KeepsLedger, Begins

LEMMA AppendCalm ==
  ASSUME TypeOK, NEW e \in Execs, NEW kind, kind # "completed", AppendLedgerEvent(e, kind)
  PROVE  Calm
<1>1. \A d \in Execs : KeepsLedger(d)
  BY LoggedKeeps DEF AppendLedgerEvent
<1> QED  BY <1>1 DEF AppendLedgerEvent, Calm, KeepsRow, Begins, CheckpointStays

LEMMA TransitionCalm ==
  ASSUME TypeOK, NEW e \in Execs, NEW st \in CheckpointStatuses, NEW K \in {{}, {"abandoned"}},
         NEW q, FinalizeExecutionTransition(e, st, K, q)
  PROVE  Calm
<1>1. \A d \in Execs : KeepsLedger(d)
  BY LoggedKeeps DEF FinalizeExecutionTransition
<1>2. \A d \in Execs : KeepsRow(d)
  BY MirrorKeepsRows DEF FinalizeExecutionTransition
<1>3. ckpt'.status # "none" /\ ckpt'.last = ckpt.last
  BY MarkKeeps DEF FinalizeExecutionTransition, CheckpointStatuses
<1> QED  BY <1>1, <1>2, <1>3 DEF FinalizeExecutionTransition, Calm, Begins, CheckpointStays

LEMMA NothingCalm ==
  ASSUME UNCHANGED <<ckpt, snap, attempts, ledger>>
  PROVE  Calm
BY DEF Calm, KeepsRow, KeepsLedger, Begins, CheckpointStays

(* The passing of time, and a heartbeat.                                   *)
LEMMA LapseCalm ==
  ASSUME TypeOK, NEW e \in Execs,
         \/ ExecutionLeaseLapses(e)
         \/ \E p \in Procs, s \in Steps, n \in Nat :
               HeartbeatAttempt(e, p, s, n) \/ AttemptLeaseLapses(e, s, n)
  PROVE  Calm
<1>1. CASE ExecutionLeaseLapses(e)
  <2>1. \A d \in Execs : KeepsRow(d)
    BY <1>1, MirrorKeepsRows DEF ExecutionLeaseLapses
  <2> QED  BY <1>1, <2>1 DEF ExecutionLeaseLapses, Calm, KeepsLedger, Begins, CheckpointStays
<1>2. ASSUME NEW p \in Procs, NEW s \in Steps, NEW n \in Nat,
             HeartbeatAttempt(e, p, s, n) \/ AttemptLeaseLapses(e, s, n)
      PROVE  Calm
  <2>1. n \in DOMAIN attempts[e][s] /\ \E b : attempts' = [attempts EXCEPT ![e][s][n].live = b]
    BY <1>2 DEF HeartbeatAttempt, AttemptLeaseLapses
  <2>2. \A d \in Execs, t \in Steps : ~Begins(d, t)
    BY <2>1 DEF Begins, TypeOK
  <2>3. \/ \E o : snap' = LeaseMirrored(snap, e, o)
        \/ UNCHANGED snap
    BY <1>2 DEF HeartbeatAttempt, AttemptLeaseLapses
  <2>4. \A d \in Execs : KeepsRow(d)
    BY <2>3, MirrorKeepsRows
  <2>5. ledger' = Logged(ledger, e, {"lease"}) \/ UNCHANGED ledger
    BY <1>2 DEF HeartbeatAttempt, AttemptLeaseLapses
  <2>6. \A d \in Execs : KeepsLedger(d)
    BY <2>5, LoggedKeeps DEF KeepsLedger
  <2>7. UNCHANGED ckpt
    BY <1>2 DEF HeartbeatAttempt, AttemptLeaseLapses
  <2> QED  BY <2>2, <2>4, <2>6, <2>7 DEF Calm, CheckpointStays
<1> QED  BY <1>1, <1>2

(* A run written over the rows.                                            *)
LEMMA OverwritesRow ==
  ASSUME TypeOK, NEW e \in Execs, NEW w \in Write,
         \/ \E o, l : snap' = Overwritten(e, w, o, l)
         \/ snap' = Merged(e, w)
         \/ snap' = Unleased(e, w)
  PROVE  /\ snap'[e].status = w.status /\ snap'[e].steps = w.steps
         /\ \A d \in Execs \ {e} : KeepsRow(d)
<1>1. PICK o, l : snap' = Overwritten(e, w, o, l)
  BY DEF Merged, Unleased
<1>2. snap \in [Execs -> Row]
  BY DEF TypeOK
<1> QED  BY <1>1, <1>2 DEF Overwritten, KeepsRow

LEMMA PersistWrites ==
  ASSUME TypeOK, NEW e \in Execs, NEW w \in Write, NEW o, NEW l,
         PersistExecutionSnapshot(e, w, o, l)
  PROVE  Writes(e, w) /\ KeepsLedger(e) /\ UNCHANGED <<ckpt, attempts>>
<1>1. /\ snap'[e].status = w.status /\ snap'[e].steps = w.steps
      /\ \A d \in Execs \ {e} : KeepsRow(d)
  BY OverwritesRow DEF PersistExecutionSnapshot
<1> QED  BY <1>1 DEF PersistExecutionSnapshot, Writes, KeepsLedger, Begins, CheckpointStays

(* A run set aside for review, before a step, during one or as a whole.    *)
LEMMA PauseWrites ==
  ASSUME TypeOK, NEW e \in Execs, NEW w \in Write,
         \/ PauseExecutionForReview(e, w)
         \/ \E s \in Steps : PauseBeforeExecutionForReview(e, s, w)
         \/ \E s \in Steps, n \in Nat : PauseExecutionAttemptForReview(e, s, n, w)
  PROVE  /\ Writes(e, w) /\ KeepsLedger(e) /\ ckpt'.last = ckpt.last
         /\ \A s \in Steps : ~Begins(e, s)
<1>1. snap' = Merged(e, w) \/ snap' = Unleased(e, w)
  BY DEF PauseExecutionForReview, PauseBeforeExecutionForReview, PauseExecutionAttemptForReview,
         PausedForReview
<1>2. /\ snap'[e].status = w.status /\ snap'[e].steps = w.steps
      /\ \A d \in Execs \ {e} : KeepsRow(d)
  BY <1>1, OverwritesRow
<1>3. \E K : "completed" \notin K /\ ledger' = Logged(ledger, e, K)
  BY DEF PauseExecutionForReview, PauseBeforeExecutionForReview, PauseExecutionAttemptForReview,
         PausedForReview
<1>4. \A d \in Execs : KeepsLedger(d)
  BY <1>3, LoggedKeeps
<1>5. ckpt'.status = "awaiting_review" /\ ckpt'.last = ckpt.last
  BY DEF PauseExecutionForReview, PauseBeforeExecutionForReview, PauseExecutionAttemptForReview,
         PausedForReview, CheckpointReview, TypeOK, Checkpoint
<1>6. \A d \in Execs, s \in Steps : ~Begins(d, s)
  <2>1. CASE UNCHANGED attempts
    BY <2>1 DEF Begins
  <2>2. ASSUME NEW s \in Steps, NEW n \in Nat, PauseExecutionAttemptForReview(e, s, n, w)
        PROVE  \A d \in Execs, t \in Steps : ~Begins(d, t)
    <3>1. n \in DOMAIN attempts[e][s] /\ attempts' = AttemptEnded(e, s, n, "cancelled")
      BY <2>2 DEF PauseExecutionAttemptForReview, MayPauseAttempt
    <3>2. \A d \in Execs, t \in Steps : d # e \/ t # s => attempts'[d][t] = attempts[d][t]
      BY <3>1 DEF AttemptEnded, TypeOK
    <3>3. attempts[e][s] # << >>
      BY <3>1
    <3> QED  BY <3>2, <3>3 DEF Begins
  <2> QED  BY <2>1, <2>2 DEF PauseExecutionForReview, PauseBeforeExecutionForReview
<1> QED  BY <1>2, <1>4, <1>5, <1>6 DEF Writes, CheckpointStays

LEMMA FinalizeWrites ==
  ASSUME TypeOK, NEW e \in Execs, NEW w \in Write, NEW st \in {"completed", "failed"},
         FinalizeExecution(e, w, st)
  PROVE  /\ Writes(e, w) /\ ckpt'.last = ckpt.last /\ UNCHANGED attempts
         /\ st # "completed" => KeepsLedger(e)
<1>1. /\ snap'[e].status = w.status /\ snap'[e].steps = w.steps
      /\ \A d \in Execs \ {e} : KeepsRow(d)
  BY OverwritesRow DEF FinalizeExecution
<1>2. (\A d \in Execs \ {e} : KeepsLedger(d)) /\ (st # "completed" => KeepsLedger(e))
  BY LoggedKeeps DEF FinalizeExecution
<1>3. ckpt'.status # "none" /\ ckpt'.last = ckpt.last
  BY MarkKeeps DEF FinalizeExecution
<1> QED  BY <1>1, <1>2, <1>3 DEF FinalizeExecution, Writes, Begins, CheckpointStays

-----------------------------------------------------------------------------
(* What a step does to the call that takes it. *)

InOrder(c) == Advances /\ Fits(c)'

LEMMA BehindIsSteps ==
  ASSUME NEW m \in Run
  PROVE  Behind(m) \subseteq Steps
BY StepsAssumption DEF Behind, Run, Checkpoint, Steps

LEMMA SameBehind ==
  ASSUME NEW m, NEW k, k.steps = m.steps, k.from = m.from
  PROVE  /\ Behind(k) = Behind(m) /\ (Clean(k) <=> Clean(m)) /\ (Finished(k) <=> Finished(m))
         /\ \A c, l : FitPoint(c, l, m) <=> FitPoint(c, l, k)
BY DEF Behind, Clean, Finished, FitPoint

(* The fields of a run that claim nothing.                                 *)
LEMMA OtherFields ==
  ASSUME NEW m \in Run
  PROVE  /\ \A x : [m EXCEPT !.gs = x].steps = m.steps /\ [m EXCEPT !.gs = x].from = m.from
         /\ \A x : [m EXCEPT !.rv = x].steps = m.steps /\ [m EXCEPT !.rv = x].from = m.from
         /\ \A x : [m EXCEPT !.stage = x].steps = m.steps /\ [m EXCEPT !.stage = x].from = m.from
         /\ \A x : [m EXCEPT !.seen = x].steps = m.steps /\ [m EXCEPT !.seen = x].from = m.from
         /\ \A x : [m EXCEPT !.step = x].steps = m.steps /\ [m EXCEPT !.step = x].from = m.from
         /\ \A x : [m EXCEPT !.lost = x].steps = m.steps /\ [m EXCEPT !.lost = x].from = m.from
         /\ \A x : [m EXCEPT !.live = x].steps = m.steps /\ [m EXCEPT !.live = x].from = m.from
         /\ Held(m).steps = m.steps /\ Held(m).from = m.from
BY DEF Run, Held

LEMMA StagedFits ==
  /\ Behind(StagedRun) = {} /\ Clean(StagedRun)
BY DEF Behind, Clean, StagedRun, NoCheckpoint

(* A step that has been marked otherwise than completed.                   *)
LEMMA MarkedFields ==
  ASSUME NEW m \in Run, NEW s \in Steps, NEW st \in StepStatuses
  PROVE  /\ Marked(m, s, st).from = m.from
         /\ \A t \in Steps \ {s} : Marked(m, s, st).steps[t] = m.steps[t]
         /\ Marked(m, s, st).steps[s] = st
         /\ Behind(Marked(m, s, st)) \subseteq Behind(m) \cup {s}
         /\ st # "completed" => Behind(Marked(m, s, st)) \subseteq Behind(m)
         /\ st # "failed" /\ Clean(m) => Clean(Marked(m, s, st))
<1>1. /\ Marked(m, s, st).from = m.from
      /\ Marked(m, s, st).steps = [m.steps EXCEPT ![s] = st]
      /\ m.steps \in [Steps -> StepStatuses]
  BY DEF Marked, Run
<1>2. /\ \A t \in Steps \ {s} : Marked(m, s, st).steps[t] = m.steps[t]
      /\ Marked(m, s, st).steps[s] = st
  BY <1>1
<1> QED  BY <1>1, <1>2 DEF Behind, Clean

LEMMA BackedStays ==
  ASSUME Context, Advances, NEW e \in Execs, NEW S \in SUBSET Steps, Backed(e, S, snap, attempts)
  PROVE  Backed(e, S, snap', attempts')
BY DEF Context, Advances, Backed, Apart

LEMMA BackedLess ==
  ASSUME NEW e, NEW S, NEW T \in SUBSET S, NEW sn, NEW at, Backed(e, S, sn, at)
  PROVE  Backed(e, T, sn, at)
BY DEF Backed

LEMMA CallFits ==
  ASSUME Context, NEW c \in Calls
  PROVE  /\ run[c] \in Run /\ target[c] \in Execs
         /\ Backed(target[c], Behind(run[c]), snap, attempts)
         /\ pc[c] \in CleanAt(c) => Clean(run[c])
         /\ pc[c] \in FinishedAt => Finished(run[c])
         /\ pc[c] = "markCompleted" => Done(attempts, target[c], run[c].step)
BY ContextTypes DEF Context, OrderInv, Fits, FitPoint

LEMMA GoFits ==
  ASSUME Context, Advances, NEW c \in Calls, NEW m \in Run, NEW l, GoWith(c, l, m),
         FitPoint(c, l, m), Backed(target[c], Behind(m), snap', attempts'),
         l = "markCompleted" => Done(attempts', target[c], m.step)
  PROVE  InOrder(c)
<1>1. pc'[c] = l /\ run'[c] = m /\ target'[c] = target[c]
  BY ContextTypes DEF GoWith, Carry
<1> QED  BY <1>1 DEF InOrder, Fits

LEMMA EndFits ==
  ASSUME Context, Advances, NEW c \in Calls, NEW r, End(c, r)
  PROVE  InOrder(c)
<1>1. pc'[c] = "done" /\ run'[c] = StagedRun
  BY ContextTypes DEF End
<1>2. FitPoint(c, "done", StagedRun)
  BY DEF FitPoint, CleanAt, FinishedAt
<1>3. Backed(target'[c], Behind(StagedRun), snap', attempts')
  BY StagedFits DEF Backed
<1> QED  BY <1>1, <1>2, <1>3 DEF InOrder, Fits

(* A step that leaves the store's order alone.                             *)
LEMMA CalmGoes ==
  ASSUME Context, Calm, NEW c \in Calls, NEW m \in Run, NEW l, l # "markCompleted",
         GoWith(c, l, m), FitPoint(c, l, m), Backed(target[c], Behind(m), snap, attempts)
  PROVE  InOrder(c)
<1>1. Advances
  BY CalmAdvances
<1>2. Backed(target[c], Behind(m), snap', attempts')
  BY <1>1, BackedStays, BehindIsSteps, CallFits
<1> QED  BY <1>1, <1>2, GoFits

LEMMA CalmKeeps ==
  ASSUME Context, Calm, NEW c \in Calls, NEW l, l # "markCompleted",
         Go(c, l), FitPoint(c, l, run[c])
  PROVE  InOrder(c)
BY CallFits, CalmGoes DEF Go

LEMMA CalmEnds ==
  ASSUME Context, Calm, NEW c \in Calls, NEW r, End(c, r)
  PROVE  InOrder(c)
BY CalmAdvances, EndFits

(* Points that ask nothing of the run.                                     *)
LEMMA EasyPoint ==
  ASSUME NEW c, NEW l \in {"idle", "corrupt", "corruptLog", "doubt", "doubtLog", "validate",
           "reconcile", "start", "stage", "stageFailed", "stageFailedLog", "finalizeFailed",
           "recoverState", "restage", "rehydrate", "rejectLog", "rejectFailed", "release",
           "done", "dead"}, NEW m
  PROVE  FitPoint(c, l, m) /\ l # "markCompleted"
BY DEF FitPoint, CleanAt, FinishedAt

LEMMA GiveUpInOrder ==
  ASSUME Context, NEW c \in Calls, NEW m, GiveUp(c, m)
  PROVE  InOrder(c)
<1>1. Calm
  BY NothingCalm DEF GiveUp, storeVars
<1> QED  BY <1>1, CalmEnds, CalmKeeps, EasyPoint DEF GiveUp

(* What the status of a run says of its steps (normalizeExecutionStatus).  *)
LEMMA StatusTells ==
  ASSUME NEW m
  PROVE  /\ StatusOf(m) \in {"paused", "paused_for_review"} => Clean(m)
         /\ StatusOf(m) = "completed" => Finished(m)
BY DEF StatusOf, Clean, Finished

(* A run that claims only what has completed may be written.               *)
LEMMA RunAdvances ==
  ASSUME Context, NEW e \in Execs, NEW m \in Run, Writes(e, WriteOf(m)),
         Backed(e, Behind(m), snap, attempts),
         KeepsLedger(e) \/ Finished(m), ckpt'.last = ckpt.last,
         \A s \in Steps : ~Begins(e, s)
  PROVE  /\ Advances /\ Backed(e, Behind(m), snap', attempts')
         /\ ~Apart(snap', e)
<1>1. WriteOf(m) \in Write /\ WriteOf(m).steps = m.steps /\ WriteOf(m).status = StatusOf(m)
  BY WriteType DEF WriteOf
<1>2. ASSUME NEW s \in Steps, m.steps[s] = "completed"
      PROVE  Done(attempts', e, s)
  <2>1. ~Apart(snap, e)
    <3>1. snap'[e].status # "none"
      BY <1>1 DEF Writes, Write, ExecutionStatuses
    <3>2. \A d \in Execs \ {e} : snap'[d].status = "none"
      BY <3>1 DEF Context, AtMostOneExecution, HasRow
    <3> QED  BY <3>2 DEF Writes, KeepsRow, Apart
  <2>2. Done(attempts, e, s)
    BY <1>2, <2>1 DEF Backed, Behind
  <2> QED  BY <2>2 DEF Context
<1>3. WriteOf(m).status \in {"paused", "paused_for_review"} =>
        \A s \in Steps : WriteOf(m).steps[s] # "failed"
  BY <1>1, StatusTells DEF Clean
<1>4. WriteOf(m).status = "completed" \/ ~KeepsLedger(e) => \A s \in Steps : Done(attempts', e, s)
  BY <1>1, <1>2, StatusTells DEF Finished
<1>5. Advances /\ ~Apart(snap', e)
  BY <1>1, <1>2, <1>3, <1>4, WriteAdvances
<1> QED  BY <1>5, BackedStays, BehindIsSteps

LEMMA SavesAdvance ==
  ASSUME Context, NEW c \in Calls, NEW m \in Run, Saves(c, m),
         Backed(target[c], Behind(m), snap, attempts)
  PROVE  Advances /\ Backed(target[c], Behind(m), snap', attempts')
<1>1. target[c] \in Execs /\ WriteOf(m) \in Write /\ TypeOK
  BY CallFits, WriteType DEF Context, EngineInv
<1>2. /\ Writes(target[c], WriteOf(m)) /\ KeepsLedger(target[c])
      /\ UNCHANGED <<ckpt, attempts>>
  BY <1>1, PersistWrites DEF Saves
<1> QED  BY <1>1, <1>2, RunAdvances DEF Begins

LEMMA PersistOrEndInOrder ==
  ASSUME Context, NEW c \in Calls, NEW m \in Run, NEW l, l # "markCompleted",
         PersistOrEnd(c, m, l), FitPoint(c, l, m), Backed(target[c], Behind(m), snap, attempts)
  PROVE  InOrder(c)
<1>1. CASE Persists(c, m, l)
  BY <1>1, SavesAdvance, GoFits DEF Persists
<1>2. CASE Throws(c, m) /\ End(c, "thrown")
  BY <1>2, NothingCalm, CalmEnds DEF Throws, storeVars
<1> QED  BY <1>1, <1>2 DEF PersistOrEnd

LEMMA PersistOrCatchInOrder ==
  ASSUME Context, NEW c \in Calls, NEW m \in Run, NEW l, l # "markCompleted",
         NEW k, k # "markCompleted", PersistOrCatch(c, m, l, k), FitPoint(c, l, m),
         FitPoint(c, k, run[c]), Backed(target[c], Behind(m), snap, attempts)
  PROVE  InOrder(c)
<1>1. CASE Persists(c, m, l)
  BY <1>1, SavesAdvance, GoFits DEF Persists
<1>2. CASE Throws(c, m) /\ Go(c, k)
  BY <1>2, NothingCalm, CalmKeeps DEF Throws, storeVars
<1> QED  BY <1>1, <1>2 DEF PersistOrCatch

LEMMA EmitsInOrder ==
  ASSUME Context, NEW c \in Calls, NEW kind, kind # "completed", NEW l, l # "markCompleted",
         Emits(c, kind, l), FitPoint(c, l, run[c])
  PROVE  InOrder(c)
<1>1. target[c] \in Execs /\ TypeOK
  BY CallFits DEF Context, EngineInv
<1> QED  BY <1>1, AppendCalm, CalmKeeps DEF Emits

-----------------------------------------------------------------------------
(* execute, up to the loop. *)

LEMMA OpeningTypes ==
  ASSUME Context, NEW c \in Calls
  PROVE  /\ TypeOK /\ ProcOf[c] \in Procs /\ target[c] \in Execs /\ run[c] \in Run
         /\ lock.held => lock.exec \in Execs
         /\ pc[c] \in ReportPoints => run[c].seen \in Execs
BY CallFits, CallsAssumption DEF Context, EngineInv, LockNamed, CallsSound, Sound

LEMMA DistrustInOrder ==
  ASSUME Context, Calm, NEW c \in Calls, NEW l \in {"release", "corrupt", "doubt"}, Distrust(c, l)
  PROVE  InOrder(c)
<1> DEFINE x == IF lock.held THEN lock.exec ELSE NoExec
           m == [run[c] EXCEPT !.seen = x]
<1>1. run[c] \in Run /\ x \in Execs \cup {NoExec}
  BY OpeningTypes
<1>2. m \in Run
  BY <1>1, RunType
<1>3. m.steps = run[c].steps /\ m.from = run[c].from
  BY <1>1, OtherFields
<1>4. Backed(target[c], Behind(m), snap, attempts)
  BY <1>3, SameBehind, CallFits
<1>5. FitPoint(c, l, m) /\ l # "markCompleted"
  BY EasyPoint
<1>6. GoWith(c, l, m)
  BY DEF Distrust
<1> HIDE DEF m
<1> QED  BY <1>2, <1>4, <1>5, <1>6, CalmGoes

LEMMA ExecuteAcquireInOrder ==
  ASSUME Context, NEW c \in Calls, ExecuteAcquire(c)
  PROVE  InOrder(c)
<1>1. LockStep(target[c], ProcOf[c])
  BY DEF ExecuteAcquire, LockStep
<1>2. Calm
  BY <1>1, OpeningTypes, LockStepCalm
<1> QED  BY <1>2, CalmKeeps, CalmEnds, EasyPoint DEF ExecuteAcquire

LEMMA DistrustedInOrder ==
  ASSUME Context, NEW c \in Calls, Corrupt(c) \/ CorruptLog(c) \/ Doubt(c) \/ DoubtLog(c)
  PROVE  InOrder(c)
<1>1. CASE Corrupt(c) \/ Doubt(c)
  <2>1. "corrupted" \in CheckpointStatuses
    BY DEF CheckpointStatuses
  <2>2. Calm
    BY <1>1, <2>1, OpeningTypes, MarkCalm DEF Corrupt, Doubt
  <2>3. CASE Corrupt(c)
    BY <2>2, <2>3, CalmKeeps, EasyPoint DEF Corrupt
  <2>4. CASE Doubt(c)
    BY <2>2, <2>4, CalmKeeps, CalmEnds, EasyPoint DEF Doubt
  <2> QED  BY <1>1, <2>3, <2>4
<1>2. CASE CorruptLog(c) \/ DoubtLog(c)
  <2>1. run[c].seen \in Execs
    BY <1>2, OpeningTypes DEF CorruptLog, DoubtLog, At, ReportPoints
  <2>2. Calm
    BY <1>2, <2>1, OpeningTypes, AppendCalm DEF CorruptLog, DoubtLog
  <2> QED  BY <1>2, <2>2, CalmKeeps, CalmEnds, EasyPoint DEF CorruptLog, DoubtLog
<1> QED  BY <1>1, <1>2

LEMMA ValidateInOrder ==
  ASSUME Context, NEW c \in Calls, Validate(c)
  PROVE  InOrder(c)
<1>1. Calm
  BY NothingCalm DEF Validate, IntegrityHolds, IntegrityFails
<1> QED  BY <1>1, CalmKeeps, EasyPoint, DistrustInOrder DEF Validate, DistrustHolder

LEMMA ReconcileInOrder ==
  ASSUME Context, NEW c \in Calls, Reconcile(c)
  PROVE  InOrder(c)
<1>1. ASSUME ReconcileToOperator \/ Abandon PROVE Calm
  <2>1. lock.exec \in Execs /\ TypeOK
    BY <1>1, OpeningTypes DEF ReconcileToOperator, CanReconcile, Abandon
  <2>2. {"pause_for_operator_recovery", "execution_abandoned"} \subseteq CheckpointStatuses
    BY DEF CheckpointStatuses
  <2> QED  BY <1>1, <2>1, <2>2, TransitionCalm DEF ReconcileToOperator, QueueRecoveryReview, Abandon
<1>2. ASSUME ReconcileResume \/ ReconcileNoop \/ ReconcileUnlocked \/ ReconcileFails PROVE Calm
  BY <1>2, NothingCalm DEF ReconcileResume, ReconcileNoop, ReconcileUnlocked, ReconcileFails,
                           IntegrityFails, storeVars
<1>3. ASSUME Calm PROVE InOrder(c)
  BY <1>3, CalmKeeps, CalmEnds, EasyPoint, DistrustInOrder DEF Reconcile, DistrustHolder
<1>4. Calm
  BY <1>1, <1>2 DEF Reconcile
<1> QED  BY <1>3, <1>4

LEMMA StartInOrder ==
  ASSUME Context, NEW c \in Calls,
         Start(c) \/ Stage(c) \/ Created(c) \/ Launch(c) \/ Started(c)
  PROVE  InOrder(c)
<1>1. target[c] \in Execs /\ run[c] \in Run /\ TypeOK
  BY OpeningTypes
<1>2. Backed(target[c], Behind(run[c]), snap, attempts)
  BY CallFits
<1>3. CASE Start(c)
  <2>1. Calm
    BY <1>1, <1>3, MarkCalm, NothingCalm DEF Start, storeVars, CheckpointStatuses
  <2> QED  BY <1>3, <2>1, CalmKeeps, EasyPoint DEF Start
<1>4. CASE Stage(c)
  <2>1. FitPoint(c, "created", StagedRun)
    BY StagedFits DEF FitPoint, FinishedAt
  <2>2. Backed(target[c], Behind(StagedRun), snap, attempts)
    BY StagedFits DEF Backed
  <2> QED  BY <1>4, <2>1, <2>2, StagedType, PersistOrEndInOrder DEF Stage
<1>5. CASE Created(c) \/ Started(c)
  <2>1. Clean(run[c])
    BY <1>5, CallFits DEF Created, Started, At, CleanAt
  <2>2. FitPoint(c, "launch", run[c]) /\ FitPoint(c, "stageRun", run[c])
    BY <2>1 DEF FitPoint, FinishedAt
  <2> QED  BY <1>5, <2>2, EmitsInOrder DEF Created, Started
<1>6. CASE Launch(c)
  <2>1. Clean(run[c])
    BY <1>6, CallFits DEF Launch, At, CleanAt
  <2>2. CASE PersistOrEnd(c, [run[c] EXCEPT !.gs = "running"], "started")
    <3> DEFINE m == [run[c] EXCEPT !.gs = "running"]
    <3>1. m \in Run /\ m.steps = run[c].steps /\ m.from = run[c].from
      BY <1>1, RunType, OtherFields
    <3>2. FitPoint(c, "started", m) /\ Backed(target[c], Behind(m), snap, attempts)
      BY <1>2, <2>1, <3>1, SameBehind DEF FitPoint, FinishedAt
    <3> HIDE DEF m
    <3>3. PersistOrEnd(c, m, "started")
      BY <2>2 DEF m
    <3> QED  BY <3>1, <3>2, <3>3, PersistOrEndInOrder
  <2>3. CASE PauseExecutionForReview(target[c], WriteOf(Held(run[c]))) /\ End(c, "paused")
    <3>1. /\ Held(run[c]) \in Run /\ Held(run[c]).steps = run[c].steps
          /\ Held(run[c]).from = run[c].from
      BY <1>1, RunType, OtherFields
    <3>2. WriteOf(Held(run[c])) \in Write
      BY <3>1, WriteType
    <3>3. /\ Writes(target[c], WriteOf(Held(run[c]))) /\ KeepsLedger(target[c])
          /\ ckpt'.last = ckpt.last /\ \A s \in Steps : ~Begins(target[c], s)
      BY <1>1, <2>3, <3>2, PauseWrites
    <3>4. Backed(target[c], Behind(Held(run[c])), snap, attempts)
      BY <1>2, <3>1, SameBehind
    <3> QED  BY <1>1, <2>3, <3>1, <3>3, <3>4, RunAdvances, EndFits
  <2>4. CASE UNCHANGED storeVars /\ End(c, "refused")
    BY <2>4, NothingCalm, CalmEnds DEF storeVars
  <2>5. CASE Saves(c, Barred(run[c])) /\ End(c, "refused")
    <3>1. Barred(run[c]) \in Run
      BY <1>1, RunType
    <3>2. Behind(Barred(run[c])) \subseteq Behind(run[c])
      BY <1>1 DEF Behind, Barred, Run
    <3>3. Backed(target[c], Behind(Barred(run[c])), snap, attempts)
      BY <1>2, <3>2, BackedLess
    <3> QED  BY <2>5, <3>1, <3>3, SavesAdvance, EndFits
  <2> QED  BY <1>6, <2>2, <2>3, <2>4, <2>5 DEF Launch
<1> QED  BY <1>3, <1>4, <1>5, <1>6

-----------------------------------------------------------------------------
(* recoverExecution and resumeExecution, up to the loop. *)

(* Rows that were found are the rows of the execution that has any.        *)
LEMMA HydratedBacked ==
  ASSUME Context, NEW d \in Execs, NEW e \in Execs, d = e \/ snap[d].status # "none"
  PROVE  Backed(e, Behind(HydratedRun(d)), snap, attempts)
<1>1. HydratedRun(d).steps = snap[d].steps /\ HydratedRun(d).from = NoCheckpoint
  BY DEF HydratedRun, StagedRun
<1>2. Behind(HydratedRun(d)) = {s \in Steps : snap[d].steps[s] = "completed"}
  BY <1>1 DEF Behind, NoCheckpoint
<1>3. CASE d = e
  BY <1>2, <1>3 DEF Backed, Context, OrderInv, StoreOrder, RowsTrue
<1>4. CASE d # e
  BY <1>4 DEF Backed, Apart
<1> QED  BY <1>3, <1>4

LEMMA PreflightInOrder ==
  ASSUME Context, NEW c \in Calls, Preflight(c)
  PROVE  InOrder(c)
<1> DEFINE e == RecoveryTarget(target[c])
<1>1. Calm
  BY NothingCalm DEF Preflight, PreflightAllows, PreflightFails, PreflightRefuses,
                     IntegrityHolds, IntegrityFails, storeVars
<1>2. e \in Execs
  BY OpeningTypes DEF RecoveryTarget
<1>3. Advances
  BY <1>1, CalmAdvances
<1>4. CASE Carry(c, "reuse", PersistedRun, e)
  <2>1. PersistedRun \in Run
    BY OpeningTypes, PersistedType
  <2>2. Backed(e, Behind(PersistedRun), snap, attempts)
    <3>1. CASE \E d \in Execs : Resumable(d)
      <4>1. PICK d \in Execs : Resumable(d) /\ PersistedRun = HydratedRun(d)
        BY <3>1 DEF PersistedRun
      <4> QED  BY <1>2, <4>1, HydratedBacked DEF Resumable
    <3>2. CASE ~\E d \in Execs : Resumable(d)
      BY <3>2, StagedFits DEF PersistedRun, Backed
    <3> QED  BY <3>1, <3>2
  <2>3. FitPoint(c, "reuse", PersistedRun)
    BY DEF Preflight, FitPoint, CleanAt, FinishedAt
  <2>4. pc'[c] = "reuse" /\ run'[c] = PersistedRun /\ target'[c] = e
    BY <1>4, ContextTypes DEF Carry
  <2>5. Backed(e, Behind(PersistedRun), snap', attempts')
    BY <1>2, <1>3, <2>1, <2>2, BackedStays, BehindIsSteps
  <2> HIDE DEF e
  <2> QED  BY <1>3, <2>3, <2>4, <2>5 DEF InOrder, Fits
<1>5. CASE Distrust(c, "doubt") \/ End(c, "refused")
  BY <1>1, <1>5, DistrustInOrder, CalmEnds
<1> QED  BY <1>4, <1>5 DEF Preflight

LEMMA ReuseInOrder ==
  ASSUME Context, NEW c \in Calls, Reuse(c)
  PROVE  InOrder(c)
<1>1. LockStep(target[c], ProcOf[c])
  BY DEF Reuse, AcquireOrReuseConflict, LockStep
<1>2. Calm
  BY <1>1, OpeningTypes, LockStepCalm
<1>3. FitPoint(c, IF Op[c] = "recover" THEN "validate" ELSE "decide", run[c])
  BY CallFits DEF Reuse, At, FitPoint, CleanAt, FinishedAt
<1> QED  BY <1>2, <1>3, CalmKeeps, CalmEnds DEF Reuse

LEMMA RecoverStateInOrder ==
  ASSUME Context, NEW c \in Calls, RecoverState(c)
  PROVE  InOrder(c)
<1>1. TypeOK /\ run[c] \in Run /\ target[c] \in Execs
  BY OpeningTypes
<1>2. Calm
  BY <1>1, MarkCalm, NothingCalm DEF RecoverState, storeVars, CheckpointStatuses
<1>3. CASE Go(c, "release")
  BY <1>2, <1>3, CalmKeeps, EasyPoint
<1>4. CASE GoWith(c, "restage", [run[c] EXCEPT !.from = ckpt])
  <2> DEFINE m == [run[c] EXCEPT !.from = ckpt]
  <2>1. ckpt \in Checkpoint
    BY <1>1 DEF TypeOK
  <2>2. m \in Run /\ m.steps = run[c].steps /\ m.from = ckpt
    BY <1>1, <2>1 DEF Run
  <2>3. Backed(target[c], 1..ckpt.last, snap, attempts)
    <3>1. CASE snap[target[c]].status # "none" \/ ckpt.last = 0
      BY <1>1, <3>1 DEF Backed, Context, OrderInv, StoreOrder, CheckpointTrue
    <3>2. CASE snap[target[c]].status = "none" /\ ckpt.last # 0
      <4>1. ckpt.last \in Steps /\ ckpt.last > 0
        BY <3>2, ContextTypes DEF Steps
      <4>2. PICK d \in Execs : IsCompleted(d, ckpt.last)
        BY <4>1 DEF Context, CompletionInv, LastStepIsCompleted
      <4>3. snap[d].status # "none"
        BY <4>1, <4>2 DEF Context, CompletionInv, CompletionInRows, HasRow
      <4> QED  BY <3>2, <4>3 DEF Backed, Apart
    <3> QED  BY <3>1, <3>2
  <2>4. Backed(target[c], Behind(m), snap, attempts)
    <3>1. Behind(m) \subseteq Behind(run[c]) \cup 1..ckpt.last
      BY <2>2 DEF Behind
    <3> QED  BY <2>3, <3>1, CallFits DEF Backed
  <2> HIDE DEF m
  <2>5. GoWith(c, "restage", m)
    BY <1>4 DEF m
  <2> QED  BY <1>2, <2>2, <2>4, <2>5, CalmGoes, EasyPoint
<1> QED  BY <1>3, <1>4 DEF RecoverState

LEMMA RestageInOrder ==
  ASSUME Context, NEW c \in Calls, Restage(c) \/ Rehydrate(c)
  PROVE  InOrder(c)
<1>1. run[c] \in Run /\ target[c] \in Execs
  BY OpeningTypes
<1>2. Backed(target[c], Behind(run[c]), snap, attempts)
  BY CallFits
<1>3. CASE UNCHANGED storeVars /\ End(c, "thrown")
  BY <1>3, NothingCalm, CalmEnds DEF storeVars
<1>4. CASE Restage(c)
  <2> DEFINE m == [run[c] EXCEPT !.gs = "paused", !.owner = NoProc, !.live = FALSE]
  <2>1. m \in Run /\ m.steps = run[c].steps /\ m.from = run[c].from
    BY <1>1 DEF Run
  <2>2. Backed(target[c], Behind(m), snap, attempts)
    BY <1>2, <2>1, SameBehind
  <2>3. (Saves(c, m) /\ Go(c, "rehydrate")) \/ (UNCHANGED storeVars /\ End(c, "thrown"))
    BY <1>4 DEF Restage, Throws
  <2> HIDE DEF m
  <2>4. CASE Saves(c, m) /\ Go(c, "rehydrate")
    <3>1. Advances
      BY <2>1, <2>2, <2>4, SavesAdvance
    <3>2. Backed(target[c], Behind(run[c]), snap', attempts')
      BY <1>1, <1>2, <3>1, BackedStays, BehindIsSteps
    <3> QED  BY <1>1, <2>4, <3>1, <3>2, EasyPoint, GoFits DEF Go
  <2> QED  BY <1>3, <2>3, <2>4
<1>5. CASE Rehydrate(c)
  <2> DEFINE m == CheckpointedRun(run[c])
             rv == IF run[c].from.status = "awaiting_review" THEN "pending" ELSE "approved"
             k == [m EXCEPT !.gs = "paused", !.rv = rv]
  <2>1. /\ m \in Run /\ m.from = NoCheckpoint
        /\ m.steps = [s \in Steps |-> IF s <= run[c].from.last THEN "completed" ELSE "pending"]
    BY <1>1, CheckpointedType DEF CheckpointedRun, Run
  <2>2. Behind(m) \subseteq Behind(run[c]) /\ Clean(m)
    <3>1. run[c].from.last \in Int
      BY <1>1 DEF Run, Checkpoint
    <3> QED  BY <2>1, <3>1, StepsAssumption DEF Behind, Clean, NoCheckpoint, Steps
  <2>3. Backed(target[c], Behind(m), snap, attempts)
    BY <1>2, <2>2, BackedLess
  <2>4. k \in Run /\ k.steps = m.steps /\ k.from = m.from
    <3> HIDE DEF m
    <3> QED  BY <2>1 DEF Run
  <2>5. (Saves(c, m) /\ GoWith(c, "stageRun", k)) \/ (UNCHANGED storeVars /\ End(c, "thrown"))
    BY <1>5 DEF Rehydrate, Throws
  <2>6. Behind(k) = Behind(m) /\ FitPoint(c, "stageRun", k)
    BY <2>2, <2>4, SameBehind DEF FitPoint, FinishedAt
  <2> HIDE DEF m, k
  <2>7. CASE Saves(c, m) /\ GoWith(c, "stageRun", k)
    <3>1. Advances /\ Backed(target[c], Behind(m), snap', attempts')
      BY <2>1, <2>3, <2>7, SavesAdvance
    <3> QED  BY <2>4, <2>6, <2>7, <3>1, GoFits
  <2> QED  BY <1>3, <2>5, <2>7
<1> QED  BY <1>4, <1>5

LEMMA ResumeInOrder ==
  ASSUME Context, NEW c \in Calls,
         Resume(c) \/ Approve(c) \/ Reject(c) \/ RejectLog(c) \/ RejectFailed(c)
  PROVE  InOrder(c)
<1>1. run[c] \in Run /\ target[c] \in Execs /\ TypeOK
  BY OpeningTypes
<1>2. Backed(target[c], Behind(run[c]), snap, attempts)
  BY CallFits
<1>3. CASE Resume(c)
  <2>1. Calm
    BY <1>3, NothingCalm DEF Resume, storeVars
  <2>2. HydratedRun(target[c]) \in Run
    BY <1>1, HydratedType
  <2>3. Clean(HydratedRun(target[c]))
    BY <1>1, <1>3 DEF Resume, MayResume, Context, OrderInv, StoreOrder, PausesClean, Clean,
                      HydratedRun, StagedRun
  <2>4. FitPoint(c, "reuse", HydratedRun(target[c]))
    BY <2>3 DEF FitPoint, FinishedAt
  <2>5. Backed(target[c], Behind(HydratedRun(target[c])), snap, attempts)
    BY <1>1, HydratedBacked
  <2> QED  BY <1>3, <2>1, <2>2, <2>4, <2>5, CalmGoes DEF Resume
<1>4. CASE Approve(c)
  <2>1. PICK s \in Steps :
          PersistOrEnd(c, [Marked(run[c], s, "pending")
                             EXCEPT !.gs = "running", !.rv = "approved",
                                    !.stage = "running", !.acked = s], "stageRun")
    BY <1>4 DEF Approve
  <2> DEFINE k == Marked(run[c], s, "pending")
             m == [k EXCEPT !.gs = "running", !.rv = "approved", !.stage = "running", !.acked = s]
  <2>2. Clean(run[c])
    BY <1>4, CallFits DEF Approve, At, CleanAt
  <2>3. k \in Run /\ Clean(k) /\ Behind(k) \subseteq Behind(run[c])
    BY <1>1, <2>2, MarkedType, MarkedFields DEF StepStatuses
  <2>4. s \in 0..NumSteps
    BY StepsAssumption DEF Steps
  <2> HIDE DEF k
  <2>5. m \in Run /\ m.steps = k.steps /\ m.from = k.from
    BY <2>3, <2>4 DEF Run, StageStatuses
  <2>6. FitPoint(c, "stageRun", m) /\ Backed(target[c], Behind(m), snap, attempts)
    BY <1>2, <2>3, <2>5, SameBehind, BackedLess DEF FitPoint, FinishedAt
  <2>7. PersistOrEnd(c, m, "stageRun")
    BY <2>1 DEF k
  <2> HIDE DEF m
  <2> QED  BY <2>5, <2>6, <2>7, PersistOrEndInOrder
<1>5. CASE Reject(c)
  <2>1. PICK s \in Steps :
          PersistOrEnd(c, [Marked(run[c], s, "failed") EXCEPT !.stage = "failed"], "rejectLog")
    BY <1>5 DEF Reject
  <2> DEFINE k == Marked(run[c], s, "failed")
             m == [k EXCEPT !.stage = "failed"]
  <2>2. k \in Run /\ Behind(k) \subseteq Behind(run[c])
    BY <1>1, MarkedType, MarkedFields DEF StepStatuses
  <2> HIDE DEF k
  <2>3. m \in Run /\ m.steps = k.steps /\ m.from = k.from
    BY <2>2, RunType, OtherFields DEF StageStatuses
  <2>4. Backed(target[c], Behind(m), snap, attempts)
    BY <1>2, <2>2, <2>3, SameBehind, BackedLess
  <2>5. PersistOrEnd(c, m, "rejectLog")
    BY <2>1 DEF k
  <2> HIDE DEF m
  <2> QED  BY <2>3, <2>4, <2>5, EasyPoint, PersistOrEndInOrder
<1>6. CASE RejectLog(c)
  BY <1>6, EasyPoint, EmitsInOrder DEF RejectLog
<1>7. CASE RejectFailed(c)
  BY <1>1, <1>7, AppendCalm, CalmEnds DEF RejectFailed
<1> QED  BY <1>3, <1>4, <1>5, <1>6, <1>7

-----------------------------------------------------------------------------
(* The loop. *)

(* A run that is written with another stage status.                        *)
LEMMA StageInOrder ==
  ASSUME Context, NEW c \in Calls,
         \/ StageRun(c) \/ StageLog(c) \/ StageDone(c)
         \/ StageFailed(c) \/ StageFailedLog(c) \/ StageDoneLog(c)
  PROVE  InOrder(c)
<1>1. run[c] \in Run
  BY OpeningTypes
<1>2. ASSUME NEW st \in {"running", "completed", "failed"}, NEW l, l # "markCompleted",
             FitPoint(c, l, run[c]), PersistOrEnd(c, [run[c] EXCEPT !.stage = st], l)
      PROVE  InOrder(c)
  <2> DEFINE m == [run[c] EXCEPT !.stage = st]
  <2>1. m \in Run /\ m.steps = run[c].steps /\ m.from = run[c].from
    BY <1>1, RunType, OtherFields DEF StageStatuses
  <2>2. FitPoint(c, l, m) /\ Backed(target[c], Behind(m), snap, attempts)
    BY <1>2, <2>1, CallFits, SameBehind
  <2>3. PersistOrEnd(c, m, l)
    BY <1>2
  <2> HIDE DEF m
  <2> QED  BY <1>2, <2>1, <2>2, <2>3, PersistOrEndInOrder
<1>3. ASSUME NEW l \in {"stageRun", "stageLog", "step"}, pc[c] = l
      PROVE  Clean(run[c])
  BY <1>3, CallFits DEF CleanAt
<1>4. CASE StageRun(c)
  <2>1. FitPoint(c, "stageLog", run[c])
    BY <1>3, <1>4 DEF StageRun, At, FitPoint, FinishedAt
  <2> QED  BY <1>2, <1>4, <2>1 DEF StageRun
<1>5. CASE StageLog(c)
  <2>1. FitPoint(c, "step", run[c])
    BY <1>3, <1>5 DEF StageLog, At, FitPoint, FinishedAt
  <2> QED  BY <1>5, <2>1, EmitsInOrder DEF StageLog
<1>6. CASE StageDone(c)
  <2>1. Finished(run[c])
    BY <1>3, <1>6 DEF StageDone, At, Pending, Clean, Finished
  <2>2. FitPoint(c, "stageDoneLog", run[c])
    BY <2>1 DEF FitPoint, CleanAt
  <2> QED  BY <1>2, <1>6, <2>2 DEF StageDone
<1>7. CASE StageFailed(c)
  BY <1>2, <1>7, EasyPoint DEF StageFailed
<1>8. CASE StageFailedLog(c)
  BY <1>8, EasyPoint, EmitsInOrder DEF StageFailedLog
<1>9. CASE StageDoneLog(c)
  <2>1. Finished(run[c])
    BY <1>9, CallFits DEF StageDoneLog, At, FinishedAt
  <2>2. FitPoint(c, "finalize", run[c])
    BY <2>1 DEF FitPoint, CleanAt
  <2> QED  BY <1>9, <2>2, EmitsInOrder DEF StageDoneLog
<1> QED  BY <1>4, <1>5, <1>6, <1>7, <1>8, <1>9

LEMMA HandTypes ==
  ASSUME Context, NEW c \in Calls, pc[c] \in InHandPoints
  PROVE  /\ TypeOK /\ target[c] \in Execs /\ run[c] \in Run /\ Clean(run[c])
         /\ InHand(c) = run[c].step /\ InHand(c) \in Steps /\ run[c].n \in Nat
         /\ Backed(target[c], Behind(run[c]), snap, attempts)
         /\ \A l \in InHandPoints : FitPoint(c, l, run[c])
<1>1. TypeOK /\ run[c] \in Run /\ InHand(c) = run[c].step /\ InHand(c) \in Steps
  BY HandSound DEF Context, EngineInv, InHand
<1>2. Clean(run[c]) /\ target[c] \in Execs /\ Backed(target[c], Behind(run[c]), snap, attempts)
  BY CallFits DEF InHandPoints, CleanAt
<1>3. run[c].n \in Nat
  BY <1>1, BoundAssumption DEF Run
<1>4. \A l \in InHandPoints : FitPoint(c, l, run[c])
  BY <1>2 DEF FitPoint, InHandPoints, FinishedAt
<1> QED  BY <1>1, <1>2, <1>3, <1>4

(* The writes of a run about the step in hand.                             *)
LEMMA MarkInOrder ==
  ASSUME Context, NEW c \in Calls,
         \/ RefusedBegin(c) \/ MarkRunning(c) \/ MarkCompleted(c) \/ MarkFailed(c)
         \/ MarkThrown(c) \/ MarkPaused(c) \/ StagePaused(c)
  PROVE  InOrder(c)
<1>1. pc[c] \in InHandPoints
  BY DEF RefusedBegin, MarkRunning, MarkCompleted, MarkFailed, MarkThrown, MarkPaused,
         StagePaused, At, InHandPoints
<1>2. {"failed", "running", "completed", "paused_for_review"} \subseteq StepStatuses
      /\ "failThrown" \in InHandPoints
  BY DEF InHandPoints, StepStatuses
<1>3. \A st \in StepStatuses :
        /\ MarkedInHand(c, st) \in Run
        /\ Behind(MarkedInHand(c, st)) \subseteq Behind(run[c]) \cup {InHand(c)}
        /\ st # "completed" => Behind(MarkedInHand(c, st)) \subseteq Behind(run[c])
        /\ st # "failed" => Clean(MarkedInHand(c, st))
  BY <1>1, HandTypes, MarkedType, MarkedFields DEF MarkedInHand
<1>4. \A st \in StepStatuses \ {"completed"} :
        Backed(target[c], Behind(MarkedInHand(c, st)), snap, attempts)
  BY <1>1, <1>3, HandTypes, BackedLess
<1>5. \A st \in StepStatuses \ {"failed"}, l \in {"tool", "step", "stagePaused"} :
        FitPoint(c, l, MarkedInHand(c, st)) /\ l # "markCompleted"
  BY <1>3 DEF FitPoint, FinishedAt
<1>6. FitPoint(c, "failThrown", run[c])
  BY <1>1, <1>2, HandTypes
<1>7. CASE RefusedBegin(c) \/ MarkThrown(c)
  BY <1>2, <1>3, <1>4, <1>7, EasyPoint, PersistOrEndInOrder DEF RefusedBegin, MarkThrown
<1>8. CASE MarkRunning(c)
  BY <1>2, <1>3, <1>4, <1>5, <1>8, PersistOrEndInOrder DEF MarkRunning
<1>9. CASE MarkCompleted(c)
  <2>1. Done(attempts, target[c], InHand(c))
    BY <1>1, <1>9, CallFits, HandTypes DEF MarkCompleted, At
  <2>2. Backed(target[c], Behind(MarkedInHand(c, "completed")), snap, attempts)
    BY <1>1, <1>2, <1>3, <2>1, HandTypes DEF Backed
  <2> QED  BY <1>2, <1>3, <1>5, <1>6, <1>9, <2>2, PersistOrCatchInOrder DEF MarkCompleted
<1>10. CASE MarkFailed(c)
  <2>1. PersistOrCatch(c, MarkedInHand(c, "failed"), "stageFailed", "failThrown")
    BY <1>10 DEF MarkFailed
  <2>2. FitPoint(c, "stageFailed", MarkedInHand(c, "failed"))
    BY EasyPoint
  <2>3. /\ MarkedInHand(c, "failed") \in Run
        /\ Backed(target[c], Behind(MarkedInHand(c, "failed")), snap, attempts)
    BY <1>2, <1>3, <1>4
  <2> QED  BY <1>6, <2>1, <2>2, <2>3, PersistOrCatchInOrder
<1>11. CASE MarkPaused(c)
  BY <1>2, <1>3, <1>4, <1>5, <1>6, <1>11, PersistOrCatchInOrder DEF MarkPaused
<1>12. CASE StagePaused(c)
  <2> DEFINE m == [run[c] EXCEPT !.stage = "paused_for_review"]
  <2>1. m \in Run /\ m.steps = run[c].steps /\ m.from = run[c].from
    BY <1>1, HandTypes, RunType, OtherFields DEF StageStatuses
  <2>2. FitPoint(c, "pause", m) /\ Backed(target[c], Behind(m), snap, attempts)
    BY <1>1, <2>1, HandTypes, SameBehind DEF FitPoint, FinishedAt
  <2>3. PersistOrEnd(c, m, "pause")
    BY <1>12 DEF StagePaused
  <2> HIDE DEF m
  <2> QED  BY <2>1, <2>2, <2>3, PersistOrEndInOrder
<1> QED  BY <1>7, <1>8, <1>9, <1>10, <1>11, <1>12

LEMMA ToolInOrder ==
  ASSUME Context, NEW c \in Calls, (\E o \in Outcomes : ToolReturns(c, o)) \/ Heartbeat(c)
  PROVE  InOrder(c)
<1>1. pc[c] = "tool" /\ pc[c] \in InHandPoints
  BY DEF ToolReturns, Heartbeat, At, InHandPoints
<1>2. CASE \E o \in Outcomes : ToolReturns(c, o)
  <2>1. PICK l \in {"failThrown", "markPaused", "complete", "fail"} : Go(c, l)
    BY <1>2 DEF ToolReturns
  <2>2. FitPoint(c, l, run[c]) /\ l # "markCompleted"
    BY <1>1, HandTypes DEF InHandPoints
  <2>3. Calm
    BY <1>2, NothingCalm DEF ToolReturns, storeVars
  <2> QED  BY <2>1, <2>2, <2>3, CalmKeeps
<1>3. CASE Heartbeat(c)
  <2>1. PICK b \in BOOLEAN : GoWith(c, "tool", [run[c] EXCEPT !.lost = b])
    <3> DEFINE r == attempts[target[c]][InHand(c)][run[c].n].status = "running"
               b == run[c].lost \/ ~r \/ ~HoldsLock(target[c], ProcOf[c])
    <3>1. b \in BOOLEAN
      OBVIOUS
    <3>2. GoWith(c, "tool", [run[c] EXCEPT !.lost = b])
      BY <1>3 DEF Heartbeat
    <3> HIDE DEF b
    <3> QED  BY <3>1, <3>2
  <2> DEFINE m == [run[c] EXCEPT !.lost = b]
  <2>2. m \in Run /\ m.steps = run[c].steps /\ m.from = run[c].from
    BY <1>1, HandTypes, RunType, OtherFields
  <2>3. FitPoint(c, "tool", m) /\ Backed(target[c], Behind(m), snap, attempts)
    BY <1>1, <2>2, HandTypes, SameBehind DEF FitPoint, FinishedAt
  <2>4. Calm
    <3>1. \/ HeartbeatAttempt(target[c], ProcOf[c], InHand(c), run[c].n)
          \/ UNCHANGED storeVars
      BY <1>3 DEF Heartbeat
    <3>2. TypeOK /\ target[c] \in Execs /\ InHand(c) \in Steps /\ run[c].n \in Nat
          /\ ProcOf[c] \in Procs
      BY <1>1, HandTypes, OpeningTypes
    <3> QED  BY <3>1, <3>2, LapseCalm, NothingCalm DEF storeVars
  <2>5. GoWith(c, "tool", m)
    BY <2>1
  <2> HIDE DEF m
  <2> QED  BY <2>2, <2>3, <2>4, <2>5, CalmGoes
<1> QED  BY <1>2, <1>3

(* A run paused before its next step, or blocked at it.                    *)
LEMMA StopInOrder ==
  ASSUME Context, NEW c \in Calls, PauseBefore(c) \/ BlockStep(c)
  PROVE  InOrder(c)
<1>1. run[c] \in Run /\ target[c] \in Execs /\ TypeOK
  BY OpeningTypes
<1>2. Backed(target[c], Behind(run[c]), snap, attempts)
  BY CallFits
<1>3. CASE BlockStep(c)
  <2>1. PICK s \in Steps : PersistOrEnd(c, Marked(run[c], s, "failed"), "stageFailed")
    BY <1>3 DEF BlockStep
  <2> DEFINE m == Marked(run[c], s, "failed")
  <2>2. m \in Run /\ Behind(m) \subseteq Behind(run[c])
    BY <1>1, MarkedType, MarkedFields DEF StepStatuses
  <2>3. PersistOrEnd(c, m, "stageFailed")
    BY <2>1
  <2> HIDE DEF m
  <2>4. Backed(target[c], Behind(m), snap, attempts)
    BY <1>2, <2>2, BackedLess
  <2>5. FitPoint(c, "stageFailed", m)
    BY EasyPoint
  <2> QED  BY <2>2, <2>3, <2>4, <2>5, PersistOrEndInOrder
<1>4. CASE PauseBefore(c)
  <2>1. PICK s \in Steps :
          LET w == WriteOf([Held(Marked(run[c], s, "paused_for_review"))
                              EXCEPT !.stage = "paused_for_review"])
          IN  \/ PauseBeforeExecutionForReview(target[c], s, w) /\ End(c, "paused")
              \/ UNCHANGED storeVars /\ End(c, "failed")
    BY <1>4 DEF PauseBefore
  <2> DEFINE k == Marked(run[c], s, "paused_for_review")
             h == Held(k)
             m == [h EXCEPT !.stage = "paused_for_review"]
  <2>2. k \in Run /\ Behind(k) \subseteq Behind(run[c])
    BY <1>1, MarkedType, MarkedFields DEF StepStatuses
  <2> HIDE DEF k
  <2>3. h \in Run /\ h.steps = k.steps /\ h.from = k.from
    BY <2>2, RunType, OtherFields
  <2> HIDE DEF h
  <2>4. m \in Run /\ m.steps = h.steps /\ m.from = h.from
    BY <2>3, RunType, OtherFields DEF StageStatuses
  <2>5. Backed(target[c], Behind(m), snap, attempts)
    <3>1. Behind(m) = Behind(k)
      BY <2>3, <2>4, SameBehind
    <3> QED  BY <1>2, <2>2, <3>1, BackedLess
  <2>6. \/ PauseBeforeExecutionForReview(target[c], s, WriteOf(m)) /\ End(c, "paused")
        \/ UNCHANGED storeVars /\ End(c, "failed")
    BY <2>1 DEF k, h
  <2> HIDE DEF m
  <2>7. CASE PauseBeforeExecutionForReview(target[c], s, WriteOf(m)) /\ End(c, "paused")
    <3>1. /\ Writes(target[c], WriteOf(m)) /\ KeepsLedger(target[c])
          /\ ckpt'.last = ckpt.last /\ \A t \in Steps : ~Begins(target[c], t)
      BY <1>1, <2>4, <2>7, WriteType, PauseWrites
    <3> QED  BY <1>1, <2>4, <2>5, <2>7, <3>1, RunAdvances, EndFits
  <2>8. CASE UNCHANGED storeVars /\ End(c, "failed")
    BY <2>8, NothingCalm, CalmEnds DEF storeVars
  <2> QED  BY <2>6, <2>7, <2>8
<1> QED  BY <1>3, <1>4

LEMMA PauseInOrder ==
  ASSUME Context, NEW c \in Calls, Pause(c)
  PROVE  InOrder(c)
<1>1. pc[c] \in InHandPoints
  BY DEF Pause, At, InHandPoints
<1> DEFINE m == Held(run[c])
<1>2. m \in Run /\ m.steps = run[c].steps /\ m.from = run[c].from
  BY <1>1, HandTypes, RunType, OtherFields
<1>3. Backed(target[c], Behind(m), snap, attempts)
  BY <1>1, <1>2, HandTypes, SameBehind
<1>4. \/ PauseExecutionAttemptForReview(target[c], InHand(c), run[c].n, WriteOf(m)) /\ End(c, "paused")
      \/ GiveUp(c, m)
  BY DEF Pause
<1> HIDE DEF m
<1>5. CASE PauseExecutionAttemptForReview(target[c], InHand(c), run[c].n, WriteOf(m))
           /\ End(c, "paused")
  <2>1. /\ Writes(target[c], WriteOf(m)) /\ KeepsLedger(target[c])
        /\ ckpt'.last = ckpt.last /\ \A t \in Steps : ~Begins(target[c], t)
    BY <1>1, <1>2, <1>5, HandTypes, WriteType, PauseWrites
  <2> QED  BY <1>1, <1>2, <1>3, <1>5, <2>1, HandTypes, RunAdvances, EndFits
<1> QED  BY <1>4, <1>5, GiveUpInOrder

LEMMA FinalizedInOrder ==
  ASSUME Context, NEW c \in Calls, Finalize(c) \/ FinalizeFailed(c)
  PROVE  InOrder(c)
<1>1. run[c] \in Run /\ target[c] \in Execs /\ TypeOK
  BY OpeningTypes
<1>2. ASSUME NEW m \in Run, m.steps = run[c].steps, m.from = run[c].from,
             NEW st \in {"completed", "failed"}, NEW l, Finalized(c, l, m, st),
             st = "completed" => Finished(m)
      PROVE  InOrder(c)
  <2>1. Backed(target[c], Behind(m), snap, attempts)
    BY <1>2, CallFits, SameBehind
  <2>2. CASE FinalizeExecution(target[c], WriteOf(m), st) /\ End(c, st)
    <3>1. /\ Writes(target[c], WriteOf(m)) /\ ckpt'.last = ckpt.last /\ UNCHANGED attempts
          /\ KeepsLedger(target[c]) \/ Finished(m)
      BY <1>1, <1>2, <2>2, WriteType, FinalizeWrites
    <3>2. \A t \in Steps : ~Begins(target[c], t)
      BY <3>1 DEF Begins
    <3> QED  BY <1>1, <2>1, <2>2, <3>1, <3>2, RunAdvances, EndFits
  <2> QED  BY <1>2, <2>2, GiveUpInOrder DEF Finalized
<1>3. CASE Finalize(c)
  <2> DEFINE m == [run[c] EXCEPT !.gs = "idle", !.rv = "approved"]
  <2>1. m \in Run /\ m.steps = run[c].steps /\ m.from = run[c].from
    BY <1>1 DEF Run
  <2>2. Finished(m)
    BY <1>3, <2>1, CallFits, SameBehind DEF Finalize, Finalized, At, FinishedAt
  <2>3. Finalized(c, "finalize", m, "completed")
    BY <1>3 DEF Finalize
  <2> HIDE DEF m
  <2> QED  BY <1>2, <2>1, <2>2, <2>3
<1>4. CASE FinalizeFailed(c)
  <2> DEFINE m == [run[c] EXCEPT !.gs = "error"]
  <2>1. m \in Run /\ m.steps = run[c].steps /\ m.from = run[c].from
    BY <1>1, RunType, OtherFields
  <2>2. Finalized(c, "finalizeFailed", m, "failed")
    BY <1>4 DEF FinalizeFailed
  <2> HIDE DEF m
  <2> QED  BY <1>2, <2>1, <2>2
<1> QED  BY <1>3, <1>4

LEMMA ReleaseInOrder ==
  ASSUME Context, NEW c \in Calls, Release(c)
  PROVE  InOrder(c)
<1>1. LockStep(target[c], ProcOf[c]) \/ UNCHANGED storeVars
  BY DEF Release, LockStep
<1>2. Calm
  BY <1>1, OpeningTypes, LockStepCalm, NothingCalm DEF storeVars
<1> QED  BY <1>2, CalmEnds DEF Release

-----------------------------------------------------------------------------
(* The attempts. *)

(* A transaction over the rows as they are, about one step of one          *)
(* execution.                                                              *)
LEMMA RowsWrites ==
  ASSUME Context, NEW e \in Execs, NEW s \in Steps, NEW w \in Write,
         snap' = Merged(e, w), UNCHANGED ledger, ckpt'.status # "none",
         \A d \in Execs, t \in Steps : d # e \/ t # s => attempts'[d][t] = attempts[d][t]
  PROVE  /\ Writes(e, w) /\ KeepsLedger(e)
         /\ \A t \in Steps \ {s} : ~Begins(e, t)
<1>1. TypeOK
  BY DEF Context, EngineInv
<1>2. /\ snap'[e].status = w.status /\ snap'[e].steps = w.steps
      /\ \A d \in Execs \ {e} : KeepsRow(d)
  BY <1>1, OverwritesRow
<1> QED  BY <1>2 DEF Writes, KeepsLedger, Begins, CheckpointStays

(* No other execution has rows beside one with an open step.               *)
LEMMA OpenIsAlone ==
  ASSUME Context, NEW e \in Execs, NEW s \in Steps, StepIsOpen(e, s)
  PROVE  ~Apart(snap, e) /\ ~Done(attempts, e, s)
<1>1. ~Apart(snap, e)
  BY DEF Context, AtMostOneExecution, HasRow, Apart, StepIsOpen
<1> QED  BY <1>1, OpenIsNotCompleted, DoneIs DEF Context

LEMMA BeginAdvances ==
  ASSUME Context, NEW e \in Execs, NEW p \in Procs, NEW s \in Steps,
         BeginExecutionAttempt(e, p, s), \A t \in 1..s - 1 : Done(attempts, e, t)
  PROVE  Advances
<1> DEFINE w == RunningSnapshot(e, s)
<1>1. /\ snap' = Merged(e, w) /\ ckpt' = CheckpointBefore(s) /\ UNCHANGED ledger
      /\ attempts' = [attempts EXCEPT ![e][s] =
                        Append(@, [status |-> "running", live |-> TRUE, proc |-> p])]
  BY DEF BeginExecutionAttempt
<1>2. TypeOK /\ RowsTrue /\ \A d \in Execs, t \in Steps : Done(attempts, d, t) => Done(attempts', d, t)
  BY DEF Context, EngineInv, OrderInv, StoreOrder
<1>3. w \in Write
  BY <1>2, SnapshotType DEF TypeOK, StepStatuses
<1>4. w.status = "running" /\ w.steps = [snap[e].steps EXCEPT ![s] = "running"]
  BY DEF RunningSnapshot
<1>5. snap[e].steps \in [Steps -> StepStatuses]
  BY <1>2 DEF TypeOK, Row
<1> HIDE DEF w
<1>6. \A d \in Execs, t \in Steps : d # e \/ t # s => attempts'[d][t] = attempts[d][t]
  BY <1>1, <1>2 DEF TypeOK
<1>7. ckpt'.status # "none" /\ ckpt'.last = ckpt.last
  <2>1. CheckpointBefore(s).status = "running"
    BY <1>2 DEF CheckpointBefore, TypeOK, Checkpoint
  <2> QED  BY <1>1, <1>2, <2>1, LastKept
<1>8. Writes(e, w) /\ KeepsLedger(e) /\ \A t \in Steps \ {s} : ~Begins(e, t)
  BY <1>1, <1>3, <1>6, <1>7, RowsWrites
<1>9. \A t \in Steps : w.steps[t] = "completed" => Done(attempts', e, t)
  BY <1>2, <1>4, <1>5 DEF RowsTrue
<1>10. \A t \in Steps : Begins(e, t) => \A u \in 1..t - 1 : Done(attempts', e, u)
  <2> SUFFICES ASSUME NEW u \in 1..s - 1 PROVE Done(attempts', e, u)
    BY <1>8
  <2>1. u \in Steps
    BY StepsAssumption DEF Steps
  <2> QED  BY <1>2, <2>1
<1> QED  BY <1>3, <1>4, <1>7, <1>8, <1>9, <1>10, WriteAdvances

(* A step begins once every step before it has completed.                  *)
LEMMA BeginInOrder ==
  ASSUME Context, NEW c \in Calls, Begin(c)
  PROVE  InOrder(c)
<1>1. /\ run[c] \in Run /\ target[c] \in Execs /\ ProcOf[c] \in Procs /\ Clean(run[c])
      /\ Backed(target[c], Behind(run[c]), snap, attempts)
  BY OpeningTypes, CallFits DEF Begin, At, CleanAt
<1>2. PICK s \in Steps :
        /\ IsNext(run[c], s)
        /\ \/ /\ BeginExecutionAttempt(target[c], ProcOf[c], s)
              /\ GoWith(c, "markRunning",
                        [run[c] EXCEPT !.step = s, !.n = Len(attempts[target[c]][s]) + 1,
                                       !.lost = FALSE])
           \/ /\ UNCHANGED storeVars
              /\ GoWith(c, "refusedBegin", [run[c] EXCEPT !.step = s])
  BY DEF Begin
<1>3. CASE /\ BeginExecutionAttempt(target[c], ProcOf[c], s)
           /\ GoWith(c, "markRunning",
                     [run[c] EXCEPT !.step = s, !.n = Len(attempts[target[c]][s]) + 1,
                                    !.lost = FALSE])
  <2> DEFINE n == Len(attempts[target[c]][s])
             m == [run[c] EXCEPT !.step = s, !.n = n + 1, !.lost = FALSE]
  <2>1. n \in Nat /\ n < MaxAttempts
    <3>1. attempts[target[c]][s] \in Seq(Attempt)
      BY <1>1, OpeningTypes DEF TypeOK
    <3>2. n < MaxAttempts
      BY <1>3 DEF BeginExecutionAttempt
    <3> QED  BY <3>1, <3>2
  <2>2. n + 1 \in 0..MaxAttempts /\ s \in 0..NumSteps
    BY <2>1, BoundAssumption, StepsAssumption DEF Steps
  <2>3. m \in Run /\ m.steps = run[c].steps /\ m.from = run[c].from
    <3> HIDE DEF n
    <3> QED  BY <1>1, <2>2 DEF Run
  <2>4. GoWith(c, "markRunning", m)
    BY <1>3
  <2>5. StepIsOpen(target[c], s)
    BY <1>3 DEF BeginExecutionAttempt, MayBegin
  <2>6. ASSUME NEW t \in 1..s - 1 PROVE Done(attempts, target[c], t)
    <3>1. t \in Steps /\ ~(s <= t)
      BY StepsAssumption DEF Steps
    <3>2. run[c].steps[t] = "completed"
      BY <1>1, <1>2, <3>1 DEF IsNext, Pending, Clean
    <3> QED  BY <1>1, <2>5, <3>1, <3>2, OpenIsAlone DEF Backed, Behind
  <2>7. Advances
    BY <1>1, <1>3, <2>6, BeginAdvances
  <2> HIDE DEF m
  <2>8. Backed(target[c], Behind(m), snap', attempts')
    BY <1>1, <2>3, <2>7, SameBehind, BehindIsSteps, BackedStays
  <2>9. FitPoint(c, "markRunning", m)
    BY <1>1, <2>3, SameBehind DEF FitPoint, FinishedAt
  <2> QED  BY <2>3, <2>4, <2>7, <2>8, <2>9, GoFits
<1>4. CASE UNCHANGED storeVars /\ GoWith(c, "refusedBegin", [run[c] EXCEPT !.step = s])
  <2> DEFINE m == [run[c] EXCEPT !.step = s]
  <2>1. m \in Run /\ m.steps = run[c].steps /\ m.from = run[c].from
    BY <1>1, RunType, OtherFields
  <2>2. GoWith(c, "refusedBegin", m)
    BY <1>4
  <2> HIDE DEF m
  <2>3. FitPoint(c, "refusedBegin", m) /\ Backed(target[c], Behind(m), snap, attempts)
    BY <1>1, <2>1, SameBehind DEF FitPoint, FinishedAt
  <2> QED  BY <1>4, <2>1, <2>2, <2>3, NothingCalm, CalmGoes DEF storeVars
<1> QED  BY <1>2, <1>3, <1>4

(* The checkpoint moves to a step that completes, which no step after it   *)
(* has yet.                                                                *)
LEMMA CompleteAdvances ==
  ASSUME Context, NEW e \in Execs, NEW s \in Steps, NEW n \in Nat,
         CompleteExecutionAttempt(e, s, n)
  PROVE  Advances /\ Done(attempts', e, s)
<1> DEFINE w == TerminalSnapshot(e, s, "completed")
<1>1. /\ snap' = Merged(e, w) /\ UNCHANGED ledger /\ ckpt' = CheckpointAfter(s)
      /\ StepIsOpen(e, s) /\ n \in DOMAIN attempts[e][s]
  BY DEF CompleteExecutionAttempt, MayEndAttempt
<1>2. /\ TypeOK /\ StoreOrder /\ CompletionInv
      /\ \A d \in Execs, t \in Steps : Done(attempts, d, t) => Done(attempts', d, t)
  BY DEF Context, EngineInv, OrderInv
<1>3. OneNewCompletion(e, s, n)
  BY <1>2, CompleteCompletions
<1>4. Done(attempts', e, s)
  BY <1>3 DEF OneNewCompletion, CompletedAttempts, Done
<1>5. w \in Write
  BY <1>2, SnapshotType DEF TypeOK, StepStatuses
<1>6. w.status = "running" /\ w.steps = [snap[e].steps EXCEPT ![s] = "completed"]
  BY DEF TerminalSnapshot
<1>7. snap[e].steps \in [Steps -> StepStatuses]
  BY <1>2 DEF TypeOK, Row
<1> HIDE DEF w
<1>8. ckpt'.status # "none" /\ ckpt'.last = s
  BY <1>1 DEF CheckpointAfter
<1>9. Writes(e, w) /\ KeepsLedger(e) /\ \A t \in Steps \ {s} : ~Begins(e, t)
  BY <1>1, <1>3, <1>5, <1>8, RowsWrites DEF OneNewCompletion
<1>10. attempts[e][s] # << >> /\ ~Begins(e, s)
  BY <1>1 DEF Begins
<1>11. \A t \in 1..s - 1 : Done(attempts, e, t)
  BY <1>2, <1>10 DEF StoreOrder, Sequential
<1>12. ckpt'.last >= ckpt.last
  <2> SUFFICES ASSUME s < ckpt.last PROVE FALSE
    BY <1>8, ContextTypes DEF Steps
  <2>1. s \in 1..ckpt.last
    BY ContextTypes DEF Steps
  <2>2. Done(attempts, e, s)
    BY <1>1, <1>2, <2>1 DEF StoreOrder, CheckpointTrue, StepIsOpen
  <2> QED  BY <1>1, <2>2, OpenIsAlone
<1>13. \A t \in 1..ckpt'.last : Done(attempts', e, t)
  <2> SUFFICES ASSUME NEW t \in 1..s PROVE Done(attempts', e, t)
    BY <1>8
  <2>1. t \in Steps /\ (t = s \/ t \in 1..s - 1)
    BY StepsAssumption DEF Steps
  <2> QED  BY <1>2, <1>4, <1>11, <2>1
<1>14. \A t \in Steps : w.steps[t] = "completed" => Done(attempts', e, t)
  BY <1>2, <1>4, <1>6, <1>7 DEF StoreOrder, RowsTrue
<1>15. \A t \in Steps : ~Begins(e, t)
  BY <1>9, <1>10
<1> QED  BY <1>4, <1>5, <1>6, <1>9, <1>12, <1>13, <1>14, <1>15, WriteAdvances

LEMMA CompleteInOrder ==
  ASSUME Context, NEW c \in Calls, Complete(c)
  PROVE  InOrder(c)
<1>1. pc[c] \in InHandPoints /\ "markCompleted" \in InHandPoints
  BY DEF Complete, At, InHandPoints
<1>2. CASE CompleteExecutionAttempt(target[c], InHand(c), run[c].n) /\ Go(c, "markCompleted")
  <2>1. Advances /\ Done(attempts', target[c], InHand(c))
    BY <1>1, <1>2, HandTypes, CompleteAdvances
  <2>2. Backed(target[c], Behind(run[c]), snap', attempts')
    BY <1>1, <2>1, HandTypes, BehindIsSteps, BackedStays
  <2>3. FitPoint(c, "markCompleted", run[c]) /\ InHand(c) = run[c].step /\ run[c] \in Run
    BY <1>1, HandTypes
  <2> QED  BY <1>2, <2>1, <2>2, <2>3, GoFits DEF Go
<1> QED  BY <1>2, GiveUpInOrder DEF Complete

LEMMA FailAdvances ==
  ASSUME Context, NEW e \in Execs, NEW s \in Steps, NEW n \in Nat, FailExecutionAttempt(e, s, n)
  PROVE  Advances
<1> DEFINE w == TerminalSnapshot(e, s, "failed")
<1>1. /\ snap' = Merged(e, w) /\ UNCHANGED ledger /\ ckpt' = CheckpointFailed(s)
      /\ n \in DOMAIN attempts[e][s] /\ attempts' = AttemptEnded(e, s, n, "failed")
  BY DEF FailExecutionAttempt, MayEndAttempt
<1>2. TypeOK /\ RowsTrue /\ \A d \in Execs, t \in Steps : Done(attempts, d, t) => Done(attempts', d, t)
  BY DEF Context, EngineInv, OrderInv, StoreOrder
<1>3. w \in Write
  BY <1>2, SnapshotType DEF TypeOK, StepStatuses
<1>4. w.status = "running" /\ w.steps = [snap[e].steps EXCEPT ![s] = "failed"]
  BY DEF TerminalSnapshot
<1>5. snap[e].steps \in [Steps -> StepStatuses]
  BY <1>2 DEF TypeOK, Row
<1> HIDE DEF w
<1>6. \A d \in Execs, t \in Steps : d # e \/ t # s => attempts'[d][t] = attempts[d][t]
  BY <1>1, <1>2 DEF TypeOK, AttemptEnded
<1>7. ckpt'.status # "none" /\ ckpt'.last = ckpt.last
  <2>1. CheckpointFailed(s).status = "failed"
    BY <1>2 DEF CheckpointFailed, TypeOK, Checkpoint
  <2> QED  BY <1>1, <1>2, <2>1, LastKept
<1>8. Writes(e, w) /\ KeepsLedger(e) /\ \A t \in Steps \ {s} : ~Begins(e, t)
  BY <1>1, <1>3, <1>6, <1>7, RowsWrites
<1>9. \A t \in Steps : w.steps[t] = "completed" => Done(attempts', e, t)
  BY <1>2, <1>4, <1>5 DEF RowsTrue
<1>10. \A t \in Steps : ~Begins(e, t)
  BY <1>1, <1>8 DEF Begins
<1> QED  BY <1>3, <1>4, <1>7, <1>8, <1>9, <1>10, WriteAdvances

LEMMA FailInOrder ==
  ASSUME Context, NEW c \in Calls, FailReported(c) \/ FailThrown(c)
  PROVE  InOrder(c)
<1>1. pc[c] \in InHandPoints
  BY DEF FailReported, FailThrown, Fail, At, InHandPoints
<1>2. ASSUME NEW k \in {"markFailed", "markThrown"},
             FailExecutionAttempt(target[c], InHand(c), run[c].n), Go(c, k)
      PROVE  InOrder(c)
  <2>1. Advances
    BY <1>1, <1>2, HandTypes, FailAdvances
  <2>2. Backed(target[c], Behind(run[c]), snap', attempts')
    BY <1>1, <2>1, HandTypes, BehindIsSteps, BackedStays
  <2>3. FitPoint(c, k, run[c]) /\ run[c] \in Run
    BY <1>1, <1>2, HandTypes DEF InHandPoints
  <2> QED  BY <1>2, <2>1, <2>2, <2>3, GoFits DEF Go
<1> QED  BY <1>2, GiveUpInOrder DEF FailReported, FailThrown, Fail

-----------------------------------------------------------------------------
(* Every step. *)

LEMMA CallInOrder ==
  ASSUME Context, NEW c \in Calls, CallStep(c) \/ Heartbeat(c)
  PROVE  InOrder(c)
<1>1. CASE Opening(c)
  BY <1>1, ExecuteAcquireInOrder, DistrustedInOrder, ValidateInOrder, ReconcileInOrder,
     StartInOrder, PreflightInOrder, ReuseInOrder, RecoverStateInOrder, RestageInOrder,
     ResumeInOrder DEF Opening
<1>2. CASE Looping(c)
  BY <1>2, StageInOrder, StopInOrder, BeginInOrder, MarkInOrder, ToolInOrder, CompleteInOrder,
     FailInOrder, PauseInOrder DEF Looping
<1>3. CASE Closing(c)
  BY <1>3, StageInOrder, FinalizedInOrder, ReleaseInOrder DEF Closing
<1> QED  BY <1>1, <1>2, <1>3, ToolInOrder DEF CallStep

(* A call that stays where it is, while another one or time moves.         *)
LEMMA FitsStays ==
  ASSUME Context, Advances, NEW d \in Calls, pc'[d] = pc[d], target'[d] = target[d],
         run'[d].steps = run[d].steps, run'[d].from = run[d].from, run'[d].step = run[d].step
  PROVE  Fits(d)'
<1>1. /\ Fits(d) /\ target[d] \in Execs /\ run[d] \in Run
      /\ \A e \in Execs, s \in Steps : Done(attempts, e, s) => Done(attempts', e, s)
  BY CallFits DEF Context, OrderInv
<1>2. Behind(run'[d]) = Behind(run[d]) /\ FitPoint(d, pc[d], run'[d])
  BY <1>1, SameBehind DEF Fits
<1>3. Backed(target[d], Behind(run'[d]), snap', attempts')
  BY <1>1, <1>2, BehindIsSteps, BackedStays DEF Fits
<1>4. pc[d] = "markCompleted" => Done(attempts', target[d], run'[d].step)
  BY <1>1, HandTypes DEF Fits, InHandPoints
<1> QED  BY <1>2, <1>3, <1>4 DEF Fits

LEMMA CallKeepsOrder ==
  ASSUME Context, NEW c \in Calls, CallStep(c) \/ Heartbeat(c)
  PROVE  Advances /\ \A d \in Calls : Fits(d)'
<1>1. Advances /\ Fits(c)'
  BY CallInOrder DEF InOrder
<1>2. Moves(c)
  BY CallSteps, HeartbeatSteps DEF Context
<1>3. \A d \in Calls \ {c} : pc'[d] = pc[d] /\ target'[d] = target[d] /\ run'[d] = run[d]
  BY <1>2, ContextTypes DEF Moves, Carry, End
<1> QED  BY <1>1, <1>3, FitsStays

LEMMA CrashKeepsOrder ==
  ASSUME Context, NEW p \in Procs, Crash(p)
  PROVE  Advances /\ \A d \in Calls : Fits(d)'
<1>1. Advances
  BY NothingCalm, CalmAdvances DEF Crash, storeVars
<1>2. ASSUME NEW d \in Calls, pc'[d] = "dead", run'[d] = StagedRun
      PROVE  Fits(d)'
  <2>1. FitPoint(d, "dead", StagedRun)
    BY EasyPoint
  <2>2. Backed(target'[d], Behind(StagedRun), snap', attempts')
    BY StagedFits DEF Backed
  <2> QED  BY <1>2, <2>1, <2>2 DEF Fits
<1>3. ASSUME NEW d \in Calls, pc'[d] = pc[d], run'[d] = run[d]
      PROVE  Fits(d)'
  BY <1>1, <1>3, FitsStays DEF Crash
<1> QED  BY <1>1, <1>2, <1>3 DEF Crash

LEMMA TimeKeepsOrder ==
  ASSUME Context, LeaseLapse \/ ItemDue \/ UNCHANGED vars
  PROVE  Advances /\ \A d \in Calls : Fits(d)'
<1>1. TypeOK
  BY DEF Context, EngineInv
<1>2. Calm
  <2>1. CASE AttemptLapse
    <3>1. PICK e \in Execs, s \in Steps :
            \E n \in DOMAIN attempts[e][s] : AttemptLeaseLapses(e, s, n)
      BY <2>1 DEF AttemptLapse
    <3>2. PICK n \in DOMAIN attempts[e][s] : AttemptLeaseLapses(e, s, n)
      BY <3>1
    <3>3. attempts[e][s] \in Seq(Attempt)
      BY <1>1 DEF TypeOK
    <3>4. n \in Nat /\ attempts[e][s][n] \in Attempt
      BY <3>2, <3>3
    <3>5. attempts[e][s][n].proc \in Procs
      BY <3>4 DEF Attempt
    <3> QED  BY <1>1, <3>2, <3>4, <3>5, LapseCalm
  <2>2. CASE RowLapse
    BY <1>1, <2>2, LapseCalm DEF RowLapse
  <2>3. CASE CarriedLapse \/ ItemDue \/ UNCHANGED vars
    BY <2>3, NothingCalm DEF CarriedLapse, ItemDue, RecoveryItemDue, vars, storeVars
  <2> QED  BY <2>1, <2>2, <2>3 DEF LeaseLapse
<1>3. \A d \in Calls : /\ [run[d] EXCEPT !.live = FALSE].steps = run[d].steps
                       /\ [run[d] EXCEPT !.live = FALSE].from = run[d].from
                       /\ [run[d] EXCEPT !.live = FALSE].step = run[d].step
  BY ContextTypes, OtherFields, LapseTouchesLive
<1>4. UNCHANGED <<pc, target>>
  BY DEF LeaseLapse, AttemptLapse, RowLapse, CarriedLapse, ItemDue, vars, callVars
<1>5. \A d \in Calls : run'[d] = run[d] \/ run'[d] = [run[d] EXCEPT !.live = FALSE]
  BY ContextTypes DEF LeaseLapse, AttemptLapse, RowLapse, CarriedLapse, ItemDue, vars, callVars
<1> QED  BY <1>2, <1>3, <1>4, <1>5, CalmAdvances, FitsStays

LEMMA OrderInit == EngineInit => OrderInv
<1> SUFFICES ASSUME EngineInit PROVE OrderInv
  OBVIOUS
<1>1. StoreOrder
  BY DEF EngineInit, StoreInit, StoreOrder, RowsTrue, PausesClean, CheckpointTrue, Sequential,
         Whole, NoRow, NoCheckpoint, Kinds
<1>2. ASSUME NEW c \in Calls PROVE Fits(c)
  <2>1. pc[c] = "idle" /\ run[c] = StagedRun
    BY <1>2 DEF EngineInit
  <2>2. FitPoint(c, "idle", StagedRun)
    BY EasyPoint
  <2>3. Backed(target[c], {}, snap, attempts)
    BY DEF Backed
  <2> QED  BY <2>1, <2>2, <2>3, StagedFits DEF Fits
<1> QED  BY <1>1, <1>2 DEF OrderInv

LEMMA OrderStep ==
  ASSUME EngineInv, CompletionInv, OrderInv, AtMostOneExecution, AtMostOneExecution',
         [EngineNext]_vars
  PROVE  /\ OrderInv' /\ CompletionInv' /\ ckpt'.last >= ckpt.last
         /\ \A e \in Execs : HasRow(e) => HasRow(e)'
<1>1. EngineInv' /\ [StoreNext]_storeVars /\ TypeOK
  BY EngineStep DEF EngineInv
<1>2. /\ CompletionInv'
      /\ \A f \in Execs, t \in Steps :
           IsCompleted(f, t) => CompletedAttempts(f, t)' = CompletedAttempts(f, t)
  BY <1>1, CompletionStep
<1>3. \A e \in Execs, s \in Steps : Done(attempts, e, s) => Done(attempts', e, s)
  BY <1>2 DEF IsCompleted, CompletedAttempts, Done
<1>4. Context
  BY <1>1, <1>2, <1>3 DEF Context
<1>5. Advances /\ \A d \in Calls : Fits(d)'
  BY <1>4, CallKeepsOrder, CrashKeepsOrder, TimeKeepsOrder DEF EngineNext
<1> QED  BY <1>2, <1>5 DEF Advances, OrderInv, HasRow

-----------------------------------------------------------------------------
(* The theorems, about the behaviours in which one execution of the plan   *)
(* has rows.  OneExecutionHasRows says when it does; two execution ids and *)
(* two recoveries can give two executions rows.                            *)

LEMMA OrderInvariant == EngineSpec /\ []AtMostOneExecution => []OrderInv
<1>1. EngineInv /\ CompletionInv /\ OrderInv /\ AtMostOneExecution /\ AtMostOneExecution'
      /\ [EngineNext]_vars => OrderInv'
  BY OrderStep
<1>2. EngineSpec => []CompletionInv
  BY EngineImplementsStore, CompletionInvariant, PTL
<1> QED  BY <1>1, <1>2, EngineInvariant, OrderInit, PTL DEF EngineSpec

(* What the invariant says of the steps and of the checkpoint.             *)
LEMMA OrderTells ==
  ASSUME OrderInv
  PROVE  StepsInOrder /\ CompletionIsWhole
<1>1. StepsInOrder
  <2> SUFFICES ASSUME NEW e \in Execs, NEW s \in Steps, attempts[e][s] # << >>,
                      NEW t \in 1..s - 1
               PROVE  IsCompleted(e, t)
    BY DEF StepsInOrder
  <2>1. t \in Steps
    BY StepsAssumption DEF Steps
  <2> QED  BY <2>1, DoneIs DEF OrderInv, StoreOrder, Sequential
<1>2. CompletionIsWhole
  BY DoneIs DEF OrderInv, StoreOrder, Whole, CompletionIsWhole
<1> QED  BY <1>1, <1>2

LEMMA CheckpointTells ==
  ASSUME TypeOK, CompletionInv, OrderInv
  PROVE  CheckpointIsTrue
<1> SUFFICES ASSUME NEW s \in 1..ckpt.last
             PROVE  \E e \in Execs : IsCompleted(e, s)
  BY DEF CheckpointIsTrue
<1>1. ckpt.last \in Steps /\ s \in Steps /\ ckpt.last > 0
  BY StepsAssumption DEF TypeOK, Checkpoint, Steps
<1>2. PICK e \in Execs : IsCompleted(e, ckpt.last)
  BY <1>1 DEF CompletionInv, LastStepIsCompleted
<1>3. HasRow(e)
  BY <1>1, <1>2 DEF CompletionInv, CompletionInRows
<1> QED  BY <1>1, <1>3, DoneIs DEF OrderInv, StoreOrder, CheckpointTrue, HasRow

(* Whether a call started, recovered or resumed the plan, from rows or     *)
(* from a checkpoint that it read however long ago, it attempts no step    *)
(* before the steps that come first have completed.                        *)
THEOREM StepsTakenInOrder == EngineSpec /\ []AtMostOneExecution => []StepsInOrder
BY OrderTells, OrderInvariant, PTL

(* A stale worker or a second driver that closes an execution as completed *)
(* closes one whose every step has completed.                              *)
THEOREM ClosedIsWhole == EngineSpec /\ []AtMostOneExecution => []CompletionIsWhole
BY OrderTells, OrderInvariant, PTL

(* Every step that a recovery from the checkpoint would skip has completed. *)
THEOREM CheckpointHolds == EngineSpec /\ []AtMostOneExecution => []CheckpointIsTrue
<1>1. EngineInv /\ CompletionInv /\ OrderInv => CheckpointIsTrue
  BY CheckpointTells DEF EngineInv
<1>2. EngineSpec => []CompletionInv
  BY EngineImplementsStore, CompletionInvariant, PTL
<1> QED  BY <1>1, <1>2, EngineInvariant, OrderInvariant, PTL

(* No worker that was overtaken, and no recovery, takes the checkpoint     *)
(* back behind a step that has completed.                                  *)
THEOREM CheckpointNeverBack == EngineSpec /\ []AtMostOneExecution => CheckpointAdvances
<1>1. EngineInv /\ CompletionInv /\ OrderInv /\ AtMostOneExecution /\ AtMostOneExecution'
      /\ [EngineNext]_vars => [ckpt'.last >= ckpt.last]_vars
  BY OrderStep
<1>2. EngineSpec => []CompletionInv
  BY EngineImplementsStore, CompletionInvariant, PTL
<1> QED  BY <1>1, <1>2, EngineInvariant, OrderInvariant, PTL DEF EngineSpec, CheckpointAdvances

-----------------------------------------------------------------------------
(* Where one execution has rows: the calls all name one execution id, or   *)
(* none of them recovers. *)

OneId      == \A c, d \in Calls : ExecOf[c] = ExecOf[d]
NoRecovery == \A c \in Calls : Op[c] # "recover"

(* Points at which a call works for an execution that has rows, and those  *)
(* at which it may write them.                                             *)
Rowed == {"created", "launch", "started", "reuse", "decide", "rejectLog", "rejectFailed"} \cup Driving
Writers == Rowed \cup {"stage", "restage", "rehydrate"}

(* What a step of a call leaves of the rows, the lock's name and the       *)
(* checkpoint.                                                             *)
Footprint(c) ==
    /\ ckpt'.status = "none" => ckpt.status = "none"
    /\ lock'.exec \in {lock.exec, target[c]}
    /\ \A d \in Execs \ {target[c]} : KeepsRow(d)
    /\ KeepsRow(target[c]) \/ (pc[c] \in Writers /\ snap'[target[c]].status # "none")

LEMMA RowsGrow ==
  ASSUME NEW c \in Calls, Footprint(c)
  PROVE  /\ \A d \in Execs : snap[d].status # "none" => snap'[d].status # "none"
         /\ \A d \in Execs : snap'[d].status # "none" =>
              snap[d].status # "none" \/ (d = target[c] /\ pc[c] \in Writers)
BY DEF Footprint, KeepsRow

LEMMA KeptFootprint ==
  ASSUME EngineInv, NEW c \in Calls, \A d \in Execs : KeepsRow(d), CheckpointStays,
         lock'.exec \in {lock.exec, target[c]}
  PROVE  Footprint(c)
BY DEF Footprint, CheckpointStays, EngineInv, EngineTypeOK

LEMMA SameFootprint ==
  ASSUME NEW c \in Calls, UNCHANGED <<lock, ckpt, snap>>
  PROVE  Footprint(c)
BY DEF Footprint, KeepsRow

LEMMA LockFootprint ==
  ASSUME EngineInv, NEW c \in Calls, LockStep(target[c], ProcOf[c])
  PROVE  Footprint(c)
<1>1. TypeOK /\ target[c] \in Execs /\ ProcOf[c] \in Procs
  BY CallsAssumption DEF EngineInv, EngineTypeOK
<1>2. Calm
  BY <1>1, LockStepCalm
<1>3. lock'.exec \in {lock.exec, target[c]}
  BY <1>1 DEF LockStep, AcquireExecutionLock, AcquireConflict, AcquireOrReuseExecutionLock,
              ReleaseExecutionLock, Released, TypeOK, LockRow
<1> QED  BY <1>2, <1>3, KeptFootprint DEF Calm

(* A run, or the rows of one step, written over the rows.                  *)
LEMMA RowFootprint ==
  ASSUME EngineInv, NEW c \in Calls, pc[c] \in Writers, NEW w, w.status # "none",
         \/ \E o, l : snap' = Overwritten(target[c], w, o, l)
         \/ snap' = Merged(target[c], w)
         \/ snap' = Unleased(target[c], w),
         UNCHANGED lock \/ lock' = Released(target[c]),
         UNCHANGED ckpt \/ ckpt'.status # "none"
  PROVE  Footprint(c)
<1>1. TypeOK /\ target[c] \in Execs
  BY DEF EngineInv, EngineTypeOK
<1>2. PICK o, l : snap' = Overwritten(target[c], w, o, l)
  BY DEF Merged, Unleased
<1>3. /\ snap'[target[c]].status = w.status
      /\ \A d \in Execs \ {target[c]} : snap'[d] = snap[d]
  BY <1>1, <1>2 DEF Overwritten, TypeOK
<1>4. lock'.exec = lock.exec
  BY <1>1 DEF Released, TypeOK, LockRow
<1> QED  BY <1>3, <1>4 DEF Footprint, KeepsRow

LEMMA SavesFootprint ==
  ASSUME EngineInv, NEW c \in Calls, pc[c] \in Writers, NEW m, Saves(c, m)
  PROVE  Footprint(c)
<1>1. WriteOf(m).status # "none"
  BY DEF WriteOf, StatusOf
<1> QED  BY <1>1, RowFootprint DEF Saves, PersistExecutionSnapshot

LEMMA PersistFootprint ==
  ASSUME EngineInv, NEW c \in Calls, pc[c] \in Writers, NEW m, NEW l, NEW k,
         PersistOrEnd(c, m, l) \/ PersistOrCatch(c, m, l, k)
  PROVE  Footprint(c)
<1>1. Saves(c, m) \/ UNCHANGED storeVars
  BY DEF PersistOrEnd, PersistOrCatch, Persists, Throws
<1> QED  BY <1>1, SavesFootprint, SameFootprint DEF storeVars

(* The calls that open an execution.                                       *)
LEMMA OpeningFootprint ==
  ASSUME EngineInv, NEW c \in Calls, Opening(c)
  PROVE  Footprint(c)
<1>1. TypeOK /\ target[c] \in Execs /\ (lock.held => lock.exec \in Execs)
  BY DEF EngineInv, EngineTypeOK, LockNamed
<1>2. CASE ExecuteAcquire(c) \/ Reuse(c)
  <2>1. LockStep(target[c], ProcOf[c])
    BY <1>2 DEF ExecuteAcquire, Reuse, AcquireOrReuseConflict, LockStep
  <2> QED  BY <2>1, LockFootprint
<1>3. CASE Corrupt(c) \/ Doubt(c) \/ Start(c) \/ RecoverState(c)
  <2>1. /\ UNCHANGED lock
        /\ Calm
    BY <1>1, <1>3, MarkCalm, NothingCalm
       DEF Corrupt, Doubt, Start, RecoverState, SetCheckpointStatus, StartExecutionState,
           CompleteCheckpoint, CheckpointStatuses, storeVars
  <2> QED  BY <2>1, KeptFootprint DEF Calm
<1>4. CASE CorruptLog(c) \/ DoubtLog(c) \/ Created(c) \/ Started(c) \/ RejectLog(c) \/ RejectFailed(c)
  BY <1>4, SameFootprint DEF CorruptLog, DoubtLog, Created, Started, RejectLog, RejectFailed, Emits,
                             AppendLedgerEvent
<1>5. CASE Validate(c) \/ Preflight(c) \/ Resume(c)
  BY <1>5, SameFootprint DEF Validate, Preflight, Resume, IntegrityHolds, IntegrityFails,
                             PreflightAllows, PreflightFails, PreflightRefuses, storeVars
<1>6. CASE Reconcile(c)
  <2>1. CASE ReconcileToOperator \/ Abandon
    <3>1. lock.exec \in Execs /\ lock' = Released(lock.exec)
      BY <1>1, <2>1 DEF ReconcileToOperator, CanReconcile, Abandon, QueueRecoveryReview,
                        FinalizeExecutionTransition
    <3>2. {"pause_for_operator_recovery", "execution_abandoned"} \subseteq CheckpointStatuses
      BY DEF CheckpointStatuses
    <3>3. Calm
      BY <1>1, <2>1, <3>1, <3>2, TransitionCalm DEF ReconcileToOperator, QueueRecoveryReview, Abandon
    <3>4. lock'.exec = lock.exec
      BY <1>1, <3>1 DEF Released, TypeOK, LockRow
    <3> QED  BY <3>3, <3>4, KeptFootprint DEF Calm
  <2>2. CASE ReconcileResume \/ ReconcileNoop \/ ReconcileUnlocked \/ ReconcileFails
    BY <2>2, SameFootprint DEF ReconcileResume, ReconcileNoop, ReconcileUnlocked, ReconcileFails,
                               IntegrityFails, storeVars
  <2> QED  BY <1>6, <2>1, <2>2 DEF Reconcile
<1>7. CASE Stage(c) \/ Approve(c) \/ Reject(c)
  <2>1. pc[c] \in Writers
    BY <1>7 DEF Stage, Approve, Reject, At, Writers, Rowed
  <2> QED  BY <1>7, <2>1, PersistFootprint DEF Stage, Approve, Reject
<1>8. CASE Restage(c) \/ Rehydrate(c)
  <2>1. pc[c] \in Writers /\ ((\E m : Saves(c, m)) \/ UNCHANGED storeVars)
    BY <1>8 DEF Restage, Rehydrate, Throws, At, Writers
  <2> QED  BY <2>1, SavesFootprint, SameFootprint DEF storeVars
<1>9. CASE Launch(c)
  <2>1. pc[c] \in Writers
    BY <1>9 DEF Launch, At, Writers, Rowed
  <2>2. CASE PauseExecutionForReview(target[c], WriteOf(Held(run[c])))
    <3>1. WriteOf(Held(run[c])).status # "none"
      BY DEF WriteOf, StatusOf
    <3>2. [ckpt EXCEPT !.status = "awaiting_review"].status # "none"
      BY <1>1, MarkKeeps
    <3> QED  BY <2>1, <2>2, <3>1, <3>2, RowFootprint DEF PauseExecutionForReview
  <2>3. CASE \/ PersistOrEnd(c, [run[c] EXCEPT !.gs = "running"], "started")
             \/ Saves(c, Barred(run[c]))
             \/ UNCHANGED storeVars
    BY <2>1, <2>3, PersistFootprint, SavesFootprint, SameFootprint DEF storeVars
  <2> QED  BY <1>9, <2>2, <2>3 DEF Launch
<1> QED  BY <1>2, <1>3, <1>4, <1>5, <1>6, <1>7, <1>8, <1>9 DEF Opening

(* The calls at work, and those that end.                                  *)
LEMMA WorkingFootprint ==
  ASSUME EngineInv, NEW c \in Calls, Looping(c) \/ Closing(c) \/ Heartbeat(c)
  PROVE  Footprint(c)
<1>1. TypeOK /\ target[c] \in Execs /\ ProcOf[c] \in Procs
  BY CallsAssumption DEF EngineInv, EngineTypeOK
<1>2. ASSUME pc[c] \in Driving PROVE pc[c] \in Writers
  BY <1>2 DEF Writers, Rowed
<1>3. CASE StageLog(c) \/ StageFailedLog(c) \/ StageDoneLog(c) \/ \E o \in Outcomes : ToolReturns(c, o)
  BY <1>3, SameFootprint DEF StageLog, StageFailedLog, StageDoneLog, Emits, AppendLedgerEvent,
                             ToolReturns, storeVars
<1>4. CASE \/ StageRun(c) \/ StageDone(c) \/ BlockStep(c) \/ RefusedBegin(c) \/ MarkRunning(c)
           \/ MarkCompleted(c) \/ MarkFailed(c) \/ MarkThrown(c) \/ MarkPaused(c)
           \/ StagePaused(c) \/ StageFailed(c)
  <2>1. pc[c] \in Driving
    BY <1>4 DEF StageRun, StageDone, BlockStep, RefusedBegin, MarkRunning, MarkCompleted, MarkFailed,
                MarkThrown, MarkPaused, StagePaused, StageFailed, At, Driving
  <2>2. \E m, l, k : PersistOrEnd(c, m, l) \/ PersistOrCatch(c, m, l, k)
    BY <1>4 DEF StageRun, StageDone, BlockStep, RefusedBegin, MarkRunning, MarkCompleted, MarkFailed,
                MarkThrown, MarkPaused, StagePaused, StageFailed
  <2> QED  BY <1>2, <2>1, <2>2, PersistFootprint
<1>5. CASE PauseBefore(c) \/ Pause(c)
  <2>1. pc[c] \in Driving
    BY <1>5 DEF PauseBefore, Pause, At, Driving
  <2>2. \/ UNCHANGED storeVars
        \/ \E m, s : \/ PauseBeforeExecutionForReview(target[c], s, WriteOf(m))
                     \/ PauseExecutionAttemptForReview(target[c], s, run[c].n, WriteOf(m))
    BY <1>5 DEF PauseBefore, Pause, GiveUp
  <2>3. ASSUME NEW m, NEW s, PausedForReview(target[c], s, WriteOf(m))
        PROVE  Footprint(c)
    <3>1. WriteOf(m).status # "none"
      BY DEF WriteOf, StatusOf
    <3>2. ckpt'.status # "none"
      BY <1>1, <2>3 DEF PausedForReview, CheckpointReview, TypeOK, Checkpoint
    <3> QED  BY <1>2, <2>1, <2>3, <3>1, <3>2, RowFootprint DEF PausedForReview
  <2> QED  BY <2>2, <2>3, SameFootprint DEF PauseBeforeExecutionForReview,
                                            PauseExecutionAttemptForReview, storeVars
<1>6. CASE Begin(c) \/ Complete(c) \/ FailReported(c) \/ FailThrown(c)
  <2>1. pc[c] \in Driving
    BY <1>6 DEF Begin, Complete, FailReported, FailThrown, Fail, At, Driving
  <2>2. \/ UNCHANGED storeVars
        \/ \E s : BeginExecutionAttempt(target[c], ProcOf[c], s)
        \/ \E s, n : CompleteExecutionAttempt(target[c], s, n) \/ FailExecutionAttempt(target[c], s, n)
    BY <1>6 DEF Begin, Complete, FailReported, FailThrown, Fail, GiveUp
  <2>3. ASSUME NEW s, NEW st, snap' = Merged(target[c], RunningSnapshot(target[c], s))
                              \/ snap' = Merged(target[c], TerminalSnapshot(target[c], s, st)),
               UNCHANGED lock, ckpt'.status # "none"
        PROVE  Footprint(c)
    <3>1. /\ RunningSnapshot(target[c], s).status # "none"
          /\ TerminalSnapshot(target[c], s, st).status # "none"
      BY DEF RunningSnapshot, TerminalSnapshot
    <3> QED  BY <1>2, <2>1, <2>3, <3>1, RowFootprint
  <2>4. \A s : /\ CheckpointBefore(s).status # "none" /\ CheckpointAfter(s).status # "none"
               /\ CheckpointFailed(s).status # "none"
    BY <1>1 DEF CheckpointBefore, CheckpointAfter, CheckpointFailed, TypeOK, Checkpoint
  <2> QED  BY <2>2, <2>3, <2>4, SameFootprint DEF BeginExecutionAttempt, CompleteExecutionAttempt,
                                                  FailExecutionAttempt, storeVars
<1>7. CASE Finalize(c) \/ FinalizeFailed(c)
  <2>1. pc[c] \in Driving
    BY <1>7 DEF Finalize, FinalizeFailed, Finalized, At, Driving
  <2>2. \E m : \E st \in {"completed", "failed"} :
          UNCHANGED storeVars \/ FinalizeExecution(target[c], WriteOf(m), st)
    <3>1. \E l, m : \E st \in {"completed", "failed"} : Finalized(c, l, m, st)
      BY <1>7 DEF Finalize, FinalizeFailed
    <3> QED  BY <3>1 DEF Finalized, GiveUp
  <2>3. ASSUME NEW m, NEW st \in {"completed", "failed"}, FinalizeExecution(target[c], WriteOf(m), st)
        PROVE  Footprint(c)
    <3>1. WriteOf(m).status # "none"
      BY DEF WriteOf, StatusOf
    <3>2. ckpt'.status # "none"
      BY <1>1, <2>3, MarkKeeps DEF FinalizeExecution
    <3> QED  BY <1>2, <2>1, <2>3, <3>1, <3>2, RowFootprint DEF FinalizeExecution
  <2> QED  BY <2>2, <2>3, SameFootprint DEF storeVars
<1>8. CASE Release(c)
  BY <1>8, LockFootprint, SameFootprint DEF Release, LockStep, storeVars
<1>9. CASE Heartbeat(c)
  <2>1. InHand(c) \in Steps /\ run[c].n \in Nat
    <3>1. pc[c] \in InHandPoints /\ run[c] \in Run
      BY <1>9 DEF Heartbeat, At, InHandPoints, EngineInv, EngineTypeOK
    <3> QED  BY <3>1, HandSound, BoundAssumption DEF Run
  <2>2. CASE HeartbeatAttempt(target[c], ProcOf[c], InHand(c), run[c].n)
    <3>1. Calm
      BY <1>1, <2>1, <2>2, LapseCalm
    <3> QED  BY <2>2, <3>1, KeptFootprint DEF HeartbeatAttempt, Calm
  <2> QED  BY <1>9, <2>2, SameFootprint DEF Heartbeat, storeVars
<1> QED  BY <1>3, <1>4, <1>5, <1>6, <1>7, <1>8, <1>9 DEF Looping, Closing

LEMMA CallFootprint ==
  ASSUME EngineInv, NEW c \in Calls, CallStep(c) \/ Heartbeat(c)
  PROVE  Footprint(c)
BY OpeningFootprint, WorkingFootprint DEF CallStep

LEMMA TimeFootprint ==
  ASSUME EngineInv, (\E p \in Procs : Crash(p)) \/ LeaseLapse \/ ItemDue \/ UNCHANGED vars
  PROVE  /\ \A d \in Execs : KeepsRow(d)
         /\ UNCHANGED <<lock, ckpt, target>>
         /\ \A c \in Calls :
              \/ pc'[c] = "dead"
              \/ pc'[c] = pc[c] /\ run'[c] \in {run[c], [run[c] EXCEPT !.live = FALSE]}
<1>0. (\E p \in Procs : Crash(p)) \/ RowLapse \/ CarriedLapse \/ AttemptLapse \/ ItemDue \/ UNCHANGED vars
  BY DEF LeaseLapse
<1>1. UNCHANGED <<lock, ckpt, target>>
  BY DEF Crash, LeaseLapse, AttemptLapse, AttemptLeaseLapses, CarriedLapse, RowLapse,
         ExecutionLeaseLapses, ItemDue, RecoveryItemDue, vars, callVars, storeVars
<1>2. \A d \in Execs : KeepsRow(d)
  <2>1. CASE RowLapse
    <3>1. PICK e \in Execs : ExecutionLeaseLapses(e)
      BY <2>1 DEF RowLapse
    <3> QED  BY <3>1, MirrorKeepsRows DEF ExecutionLeaseLapses, EngineInv
  <2>2. CASE ~RowLapse
    <3>1. UNCHANGED snap
      BY <2>2 DEF Crash, LeaseLapse, AttemptLapse, AttemptLeaseLapses, CarriedLapse, ItemDue,
                  RecoveryItemDue, vars, callVars, storeVars
    <3> QED  BY <3>1 DEF KeepsRow
  <2> QED  BY <2>1, <2>2
<1>3. ASSUME NEW c \in Calls
      PROVE  \/ pc'[c] = "dead"
             \/ pc'[c] = pc[c] /\ run'[c] \in {run[c], [run[c] EXCEPT !.live = FALSE]}
  <2>1. run \in [Calls -> Run]
    BY DEF EngineInv, EngineTypeOK
  <2>2. ASSUME NEW p \in Procs, Crash(p)
        PROVE  \/ pc'[c] = "dead"
               \/ pc'[c] = pc[c] /\ run'[c] \in {run[c], [run[c] EXCEPT !.live = FALSE]}
    BY <2>2 DEF Crash
  <2>3. CASE RowLapse
    BY <2>3 DEF RowLapse
  <2>5. CASE CarriedLapse
    <3>1. PICK b \in Calls : run' = [run EXCEPT ![b].live = FALSE]
      BY <2>5 DEF CarriedLapse
    <3>2. CASE b = c
      BY <2>1, <2>5, <3>1, <3>2 DEF CarriedLapse
    <3>3. CASE b # c
      BY <2>1, <2>5, <3>1, <3>3 DEF CarriedLapse
    <3> QED  BY <3>2, <3>3
  <2>4. CASE AttemptLapse \/ ItemDue \/ UNCHANGED vars
    <3>1. pc' = pc /\ run' = run
      BY <2>4 DEF AttemptLapse, ItemDue, vars, callVars
    <3> QED  BY <3>1
  <2> QED  BY <1>0, <2>2, <2>3, <2>4, <2>5
<1> QED  BY <1>1, <1>2, <1>3

(* Only executions that some call names are locked, worked for or given    *)
(* rows.                                                                   *)
NamedByCalls == {ExecOf[c] : c \in Calls}
OnlyNamed ==
    /\ \A c \in Calls : target[c] \in NamedByCalls
    /\ lock.exec \in NamedByCalls \cup {NoExec}
    /\ \A e \in Execs : snap[e].status # "none" => e \in NamedByCalls

(* Where a step of a call leads, and whom it then works for.               *)
LEMMA Targets ==
  ASSUME EngineInv, NEW c \in Calls, CallStep(c) \/ Heartbeat(c)
  PROVE  /\ \A d \in Calls \ {c} : pc'[d] = pc[d] /\ target'[d] = target[d] /\ run'[d] = run[d]
         /\ target'[c] \in {target[c], RecoveryTarget(target[c])}
         /\ Op[c] # "recover" => target'[c] = target[c]
<1>1. pc \in [Calls -> Points] /\ target \in [Calls -> Execs] /\ run \in [Calls -> Run]
  BY DEF EngineInv, EngineTypeOK
<1>2. \/ \E l, m : GoWith(c, l, m)
      \/ \E r : End(c, r)
      \/ Op[c] = "recover" /\ \E l, m : Carry(c, l, m, RecoveryTarget(target[c]))
  <2>1. CASE ExecuteAcquire(c) \/ Corrupt(c) \/ CorruptLog(c) \/ Doubt(c) \/ DoubtLog(c)
             \/ Validate(c) \/ Reconcile(c) \/ Start(c) \/ Created(c) \/ Started(c)
    BY <2>1 DEF ExecuteAcquire, Corrupt, CorruptLog, Doubt, DoubtLog, Validate, Reconcile, Start,
                Created, Started, DistrustHolder, Distrust, Emits, Go
  <2>2. CASE Stage(c) \/ Launch(c) \/ Reuse(c) \/ RecoverState(c) \/ Restage(c) \/ Rehydrate(c)
             \/ Resume(c) \/ Approve(c) \/ Reject(c) \/ RejectLog(c) \/ RejectFailed(c)
    BY <2>2 DEF Stage, Launch, Reuse, RecoverState, Restage, Rehydrate, Resume, Approve, Reject,
                RejectLog, RejectFailed, PersistOrEnd, Persists, Emits, Go
  <2>3. CASE Preflight(c)
    BY <2>3 DEF Preflight, Distrust
  <2>4. CASE StageRun(c) \/ StageLog(c) \/ StageDone(c) \/ PauseBefore(c) \/ BlockStep(c) \/ Begin(c)
             \/ RefusedBegin(c) \/ MarkRunning(c) \/ \E o \in Outcomes : ToolReturns(c, o)
    BY <2>4 DEF StageRun, StageLog, StageDone, PauseBefore, BlockStep, Begin, RefusedBegin,
                MarkRunning, ToolReturns, PersistOrEnd, Persists, Emits, Go
  <2>5. CASE Complete(c) \/ MarkCompleted(c) \/ FailReported(c) \/ FailThrown(c) \/ MarkFailed(c)
             \/ MarkThrown(c) \/ MarkPaused(c) \/ StagePaused(c) \/ Pause(c)
    BY <2>5 DEF Complete, MarkCompleted, FailReported, FailThrown, Fail, MarkFailed, MarkThrown,
                MarkPaused, StagePaused, Pause, GiveUp, PersistOrEnd, PersistOrCatch, Persists, Go
  <2>6. CASE Closing(c) \/ Heartbeat(c)
    BY <2>6 DEF Closing, StageFailed, StageFailedLog, StageDoneLog, Finalize, FinalizeFailed,
                Finalized, Release, Heartbeat, GiveUp, PersistOrEnd, Persists, Emits, Go
  <2> QED  BY <2>1, <2>2, <2>3, <2>4, <2>5, <2>6 DEF CallStep, Opening, Looping
<1> QED  BY <1>1, <1>2 DEF GoWith, Carry, End

LEMMA NamedStep ==
  ASSUME EngineInv, OnlyNamed, [EngineNext]_vars
  PROVE  OnlyNamed'
<1>1. ASSUME NEW c \in Calls, CallStep(c) \/ Heartbeat(c)
      PROVE  OnlyNamed'
  <2>1. target[c] \in NamedByCalls /\ Footprint(c)
    BY <1>1, CallFootprint DEF OnlyNamed
  <2>2. RecoveryTarget(target[c]) \in NamedByCalls
    <3>1. lock.held => lock.exec \in NamedByCalls
      BY NullAssumption DEF EngineInv, LockNamed, OnlyNamed
    <3>2. \A d \in Execs : Resumable(d) => d \in NamedByCalls
      BY DEF OnlyNamed, Resumable
    <3> QED  BY <2>1, <3>1, <3>2 DEF RecoveryTarget
  <2>3. \A d \in Calls : target'[d] \in NamedByCalls
    BY <1>1, <2>1, <2>2, Targets DEF OnlyNamed
  <2>4. lock'.exec \in NamedByCalls \cup {NoExec} /\ \A e \in Execs : snap'[e].status # "none" => e \in NamedByCalls
    BY <2>1, RowsGrow DEF Footprint, OnlyNamed
  <2> QED  BY <2>3, <2>4 DEF OnlyNamed
<1>2. CASE (\E p \in Procs : Crash(p)) \/ LeaseLapse \/ ItemDue \/ UNCHANGED vars
  BY <1>2, TimeFootprint DEF OnlyNamed, KeepsRow
<1> QED  BY <1>1, <1>2 DEF EngineNext

(* Without a recovery, only the call that found no checkpoint gives an     *)
(* execution rows.                                                         *)
NoRows == \A e \in Execs : snap[e].status = "none"
Founded(c) ==
    /\ pc[c] \notin {"recoverState", "restage", "rehydrate"}
    /\ pc[c] \in {"validate", "reconcile"} => Op[c] = "execute"
    /\ pc[c] = "stage" => ckpt.status # "none" /\ NoRows
    /\ pc[c] \in Rowed => snap[target[c]].status # "none"
OneFounder ==
    /\ AtMostOneExecution
    /\ ckpt.status = "none" => NoRows
    /\ \A c, d \in Calls : pc[c] = "stage" /\ pc[d] = "stage" => c = d
    /\ \A c \in Calls : Founded(c)

(* The points that a step of a call leads to.                              *)
Enters(c) ==
    \/ pc'[c] \in {"corrupt", "corruptLog", "doubtLog", "start", "release", "done"}
    \/ pc'[c] \in {"validate", "reconcile"} /\ Op[c] = "execute"
    \/ pc'[c] = "stage" /\ ckpt.status = "none" /\ ckpt'.status # "none" /\ UNCHANGED snap
    \/ pc'[c] \in Rowed /\ pc[c] \in Rowed
    \/ pc'[c] \in Rowed /\ snap'[target[c]].status # "none"

LEMMA OpeningEnters ==
  ASSUME EngineInv, NEW c \in Calls, Op[c] # "recover", Founded(c), Opening(c)
  PROVE  Enters(c)
<1>1. pc \in [Calls -> Points] /\ target[c] \in Execs /\ snap \in [Execs -> Row]
  BY DEF EngineInv, EngineTypeOK, TypeOK
<1>2. /\ \A l, m : GoWith(c, l, m) => pc'[c] = l
      /\ \A r : End(c, r) => pc'[c] = "done"
  BY <1>1 DEF GoWith, Carry, End
<1>3. CASE ExecuteAcquire(c) \/ Corrupt(c) \/ CorruptLog(c) \/ Doubt(c) \/ DoubtLog(c)
           \/ Validate(c) \/ Reconcile(c)
  BY <1>2, <1>3 DEF ExecuteAcquire, Corrupt, CorruptLog, Doubt, DoubtLog, Validate, Reconcile,
                    DistrustHolder, Distrust, Go, At, Founded, Enters
<1>4. CASE Start(c)
  <2>1. CASE StartExecutionState /\ Go(c, "stage")
    BY <1>2, <2>1, MarkKeeps DEF StartExecutionState, NoCheckpoint, Go, Enters
  <2> QED  BY <1>2, <1>4, <2>1 DEF Start, Go, Enters
<1>5. CASE Stage(c)
  <2>1. CASE Persists(c, StagedRun, "created")
    <3>1. snap'[target[c]].status # "none"
      BY <1>1, <2>1 DEF Persists, Saves, PersistExecutionSnapshot, Overwritten, WriteOf, StatusOf
    <3> QED  BY <1>2, <2>1, <3>1 DEF Persists, Enters, Rowed
  <2> QED  BY <1>2, <1>5, <2>1 DEF Stage, PersistOrEnd, Enters
<1>6. CASE Resume(c)
  BY <1>2, <1>6 DEF Resume, MayResume, storeVars, Enters, Rowed
<1>7. CASE Created(c) \/ Launch(c) \/ Started(c) \/ Reuse(c)
           \/ Approve(c) \/ Reject(c) \/ RejectLog(c) \/ RejectFailed(c)
  <2>1. pc[c] \in Rowed
    BY <1>7 DEF Created, Launch, Started, Reuse, Approve, Reject, RejectLog, RejectFailed, At, Rowed
  <2>2. pc'[c] \in {"launch", "started", "stageRun", "decide", "rejectLog", "rejectFailed", "done"}
    BY <1>2, <1>7 DEF Created, Launch, Started, Reuse, Approve, Reject, RejectLog, RejectFailed,
                      PersistOrEnd, Persists, Emits, Go
  <2> QED  BY <2>1, <2>2 DEF Enters, Rowed, Driving
<1>8. CASE Preflight(c) \/ RecoverState(c) \/ Restage(c) \/ Rehydrate(c)
  BY <1>8 DEF Preflight, RecoverState, Restage, Rehydrate, At, Founded
<1> QED  BY <1>3, <1>4, <1>5, <1>6, <1>7, <1>8 DEF Opening

LEMMA WorkingEnters ==
  ASSUME EngineInv, NEW c \in Calls, Looping(c) \/ Closing(c) \/ Heartbeat(c)
  PROVE  Enters(c)
<1>1. pc \in [Calls -> Points]
  BY DEF EngineInv, EngineTypeOK
<1>2. /\ \A l, m : GoWith(c, l, m) => pc'[c] = l
      /\ \A l : Go(c, l) => pc'[c] = l
      /\ \A r : End(c, r) => pc'[c] = "done"
      /\ \A m, l : PersistOrEnd(c, m, l) => pc'[c] \in {l, "done"}
      /\ \A m, l, k : PersistOrCatch(c, m, l, k) => pc'[c] \in {l, k}
      /\ \A kind, l : Emits(c, kind, l) => pc'[c] = l
      /\ \A m : GiveUp(c, m) => pc'[c] \in {"release", "done"}
  BY <1>1 DEF Go, GoWith, Carry, End, PersistOrEnd, PersistOrCatch, Persists, Emits, GiveUp
<1>3. CASE StageRun(c) \/ StageLog(c) \/ StageDone(c) \/ PauseBefore(c) \/ BlockStep(c) \/ Begin(c)
           \/ RefusedBegin(c) \/ MarkRunning(c) \/ \E o \in Outcomes : ToolReturns(c, o)
  <2>1. pc[c] \in Driving
    BY <1>3 DEF StageRun, StageLog, StageDone, PauseBefore, BlockStep, Begin, RefusedBegin,
                MarkRunning, ToolReturns, At, Driving
  <2>2. pc'[c] \in Driving \cup {"done"}
    <3>1. StageRun(c) => pc'[c] \in {"stageLog", "done"}
      BY <1>2 DEF StageRun
    <3>2. StageDone(c) => pc'[c] \in {"stageDoneLog", "done"}
      BY <1>2 DEF StageDone
    <3>3. StageLog(c) => pc'[c] = "step"
      BY <1>2 DEF StageLog
    <3>4. PauseBefore(c) => pc'[c] = "done"
      BY <1>2 DEF PauseBefore
    <3>5. BlockStep(c) \/ RefusedBegin(c) => pc'[c] \in {"stageFailed", "done"}
      BY <1>2 DEF BlockStep, RefusedBegin
    <3>6. Begin(c) => pc'[c] \in {"markRunning", "refusedBegin"}
      BY <1>2 DEF Begin
    <3>7. MarkRunning(c) => pc'[c] \in {"tool", "done"}
      BY <1>2 DEF MarkRunning
    <3>8. ASSUME NEW o \in Outcomes, ToolReturns(c, o)
          PROVE  pc'[c] \in Driving
      BY <1>2, <3>8 DEF ToolReturns, Driving
    <3> QED  BY <1>3, <3>1, <3>2, <3>3, <3>4, <3>5, <3>6, <3>7, <3>8 DEF Driving
  <2> QED  BY <2>1, <2>2 DEF Enters, Rowed
<1>4. CASE Complete(c) \/ MarkCompleted(c) \/ FailReported(c) \/ FailThrown(c) \/ MarkFailed(c)
           \/ MarkThrown(c) \/ MarkPaused(c) \/ StagePaused(c) \/ Pause(c)
  <2>1. pc[c] \in Driving
    BY <1>4 DEF Complete, MarkCompleted, FailReported, FailThrown, Fail, MarkFailed, MarkThrown,
                MarkPaused, StagePaused, Pause, At, Driving
  <2>2. pc'[c] \in Driving \cup {"done", "release"}
    BY <1>2, <1>4 DEF Complete, MarkCompleted, FailReported, FailThrown, Fail, MarkFailed,
                      MarkThrown, MarkPaused, StagePaused, Pause, Driving
  <2> QED  BY <2>1, <2>2 DEF Enters, Rowed
<1>5. CASE StageFailed(c) \/ StageFailedLog(c) \/ StageDoneLog(c) \/ Finalize(c)
           \/ FinalizeFailed(c) \/ Heartbeat(c)
  <2>1. pc[c] \in Driving
    BY <1>5 DEF StageFailed, StageFailedLog, StageDoneLog, Finalize, FinalizeFailed, Finalized,
                Heartbeat, At, Driving
  <2>2. pc'[c] \in Driving \cup {"done", "release"}
    <3>1. StageFailed(c) => pc'[c] \in {"stageFailedLog", "done"}
      BY <1>2 DEF StageFailed
    <3>2. StageFailedLog(c) \/ StageDoneLog(c) => pc'[c] \in {"finalizeFailed", "finalize"}
      BY <1>2 DEF StageFailedLog, StageDoneLog
    <3>3. Finalize(c) \/ FinalizeFailed(c) => pc'[c] \in {"release", "done"}
      BY <1>2 DEF Finalize, FinalizeFailed, Finalized
    <3>4. Heartbeat(c) => pc'[c] = "tool"
      BY <1>2 DEF Heartbeat
    <3> QED  BY <1>5, <3>1, <3>2, <3>3, <3>4 DEF Driving
  <2> QED  BY <2>1, <2>2 DEF Enters, Rowed
<1>6. CASE Release(c)
  BY <1>2, <1>6 DEF Release, Enters
<1> QED  BY <1>3, <1>4, <1>5, <1>6 DEF Looping, Closing

LEMMA FounderStep ==
  ASSUME EngineInv, NoRecovery, OneFounder, [EngineNext]_vars
  PROVE  OneFounder'
<1>1. ASSUME NEW c \in Calls, CallStep(c) \/ Heartbeat(c)
      PROVE  OneFounder'
  <2>1. Footprint(c) /\ target'[c] = target[c] /\ target[c] \in Execs
        /\ \A d \in Calls \ {c} : pc'[d] = pc[d] /\ target'[d] = target[d]
    BY <1>1, CallFootprint, Targets DEF NoRecovery, EngineInv, EngineTypeOK
  <2>2. Enters(c)
    BY <1>1, OpeningEnters, WorkingEnters DEF OneFounder, NoRecovery, CallStep
  <2>3. \A e \in Execs : snap'[e].status # "none" =>
          snap[e].status # "none" \/ (e = target[c] /\ pc[c] = "stage")
    BY <2>1, RowsGrow DEF OneFounder, Founded, Writers
  <2>4. AtMostOneExecution'
    BY <2>3 DEF OneFounder, Founded, NoRows, AtMostOneExecution, HasRow
  <2>5. (ckpt.status = "none" => NoRows)'
    BY <2>1, <2>3 DEF OneFounder, Founded, NoRows, Footprint
  <2>6. ASSUME NEW d \in Calls \ {c} PROVE Founded(d)' /\ ~(pc'[c] = "stage" /\ pc'[d] = "stage")
    <3>1. Founded(d) /\ target[d] \in Execs /\ pc'[d] = pc[d] /\ target'[d] = target[d]
      BY <2>1 DEF OneFounder, EngineInv, EngineTypeOK
    <3>2. pc[d] = "stage" => ckpt'.status # "none" /\ NoRows'
      BY <2>1, <2>3, <3>1 DEF OneFounder, Founded, NoRows, Footprint
    <3>3. pc[d] = "stage" => pc'[c] # "stage"
      BY <2>2, <3>1 DEF Enters, Founded, Rowed, Driving
    <3>4. pc[d] \in Rowed => snap'[target[d]].status # "none"
      BY <2>1, <3>1, RowsGrow DEF Founded
    <3> QED  BY <3>1, <3>2, <3>3, <3>4 DEF Founded
  <2>7. Founded(c)'
    <3>1. pc[c] \in Rowed => snap'[target[c]].status # "none"
      BY <2>1, RowsGrow DEF OneFounder, Founded
    <3>2. CASE pc'[c] \in Rowed
      <4>1. snap'[target'[c]].status # "none"
        BY <2>1, <2>2, <3>1, <3>2 DEF Enters, Rowed, Driving
      <4> QED  BY <3>2, <4>1 DEF Founded, Rowed, Driving
    <3>3. CASE pc'[c] = "stage" /\ ckpt.status = "none" /\ ckpt'.status # "none" /\ UNCHANGED snap
      BY <3>3 DEF Founded, OneFounder, NoRows, Rowed, Driving
    <3>4. CASE pc'[c] \notin Rowed \cup {"stage"}
      BY <2>2, <3>4 DEF Enters, Founded
    <3> QED  BY <2>2, <3>2, <3>3, <3>4 DEF Enters, Rowed, Driving
  <2>8. \A d, f \in Calls : pc'[d] = "stage" /\ pc'[f] = "stage" => d = f
    BY <2>1, <2>6 DEF OneFounder
  <2> QED  BY <2>4, <2>5, <2>6, <2>7, <2>8 DEF OneFounder
<1>2. CASE (\E p \in Procs : Crash(p)) \/ LeaseLapse \/ ItemDue \/ UNCHANGED vars
  <2>1. /\ \A d \in Execs : snap'[d].status = snap[d].status
        /\ UNCHANGED <<ckpt, target>> /\ \A c \in Calls : pc'[c] \in {pc[c], "dead"}
    BY <1>2, TimeFootprint DEF KeepsRow
  <2>2. \A c \in Calls : Founded(c)'
    BY <2>1 DEF OneFounder, Founded, NoRows, Rowed, Driving, EngineInv, EngineTypeOK
  <2> QED  BY <2>1, <2>2 DEF OneFounder, AtMostOneExecution, HasRow, NoRows
<1> QED  BY <1>1, <1>2 DEF EngineNext

(* However many clients execute the plan under whatever execution ids, or  *)
(* recover it under one, whatever crashes and stalls: only one execution   *)
(* of it gets rows.                                                        *)
THEOREM OneExecutionHasRows == EngineSpec /\ (OneId \/ NoRecovery) => []AtMostOneExecution
<1>1. EngineInit => OnlyNamed
  BY DEF EngineInit, StoreInit, OnlyNamed, NamedByCalls, NoRow
<1>2. EngineInv /\ OnlyNamed /\ [EngineNext]_vars => OnlyNamed'
  BY NamedStep
<1>3. OneId /\ OnlyNamed => AtMostOneExecution
  BY DEF OneId, OnlyNamed, NamedByCalls, AtMostOneExecution, HasRow
<1>4. EngineInit => OneFounder
  BY DEF EngineInit, StoreInit, OneFounder, Founded, AtMostOneExecution, HasRow, NoRows, NoRow,
         Rowed, Driving
<1>5. EngineInv /\ NoRecovery /\ OneFounder /\ [EngineNext]_vars => OneFounder'
  BY FounderStep
<1>6. OneFounder => AtMostOneExecution
  BY DEF OneFounder
<1>7. ASSUME OneId PROVE EngineSpec => []AtMostOneExecution
  <2>1. OnlyNamed => AtMostOneExecution
    BY <1>3, <1>7
  <2> QED  BY <1>1, <1>2, <2>1, EngineInvariant, PTL DEF EngineSpec
<1>8. ASSUME NoRecovery PROVE EngineSpec => []AtMostOneExecution
  <2>1. EngineInv /\ OneFounder /\ [EngineNext]_vars => OneFounder'
    BY <1>5, <1>8
  <2> QED  BY <1>4, <1>6, <2>1, EngineInvariant, PTL DEF EngineSpec
<1> QED  BY <1>7, <1>8

-----------------------------------------------------------------------------
(* Who drives holds the lock: where nobody recovers, one operator decides  *)
(* and every client that executes the plan names an execution of its own.  *)

OneDecision == \A c, d \in Calls : Op[c] # "execute" /\ Op[d] # "execute" => c = d
OwnIds ==
    \A c, d \in Calls : Op[c] = "execute" /\ Op[d] = "execute" /\ ExecOf[c] = ExecOf[d] => c = d
Singles == NoRecovery /\ OneDecision /\ OwnIds

Awake(c) == pc[c] \notin {"idle", "done", "dead"}

(* Points at which a call holds the lock; an execute is not yet recorded;  *)
(* the run and its row are running; an operator's decision is carried out. *)
Holders  == {"validate", "reconcile", "stage", "created", "launch", "started", "decide"} \cup Driving
Fresh    == {"idle", "validate", "reconcile", "start", "stage"}
Underway == {"started"} \cup Driving
Deciding == {"reuse", "decide", "rejectLog", "rejectFailed"}

(* The rows ask for a decision.                                            *)
RowReviewed(e) ==
    /\ snap[e].status \in {"paused", "paused_for_review"}
    /\ \E s \in Steps : snap[e].steps[s] = "paused_for_review"

LockedFor(c) == HoldsLock(target[c], ProcOf[c])
RowRuns(c)   == run[c].gs = "running" /\ snap[target[c]].status = "running"

Custody(c) ==
    /\ target[c] = ExecOf[c]
    /\ pc[c] \in Holders => LockedFor(c)
    /\ pc[c] = "start" => LockedFor(c) \/ ckpt.status # "none"
    /\ pc[c] \in Underway => RowRuns(c)
    /\ pc[c] \in {"start", "stage"} => Op[c] = "execute"
    /\ pc[c] \in Deciding => Op[c] # "execute"
    /\ Op[c] = "execute" /\ pc[c] \in Fresh => ~HasRow(target[c])
    /\ Op[c] = "execute" /\ Awake(c) => ~RowReviewed(target[c])
    /\ Op[c] # "execute" /\ Awake(c) => HasRow(target[c])

(* No two calls are at work on one execution.                              *)
Alone == \A c, d \in Calls : Awake(c) /\ Awake(d) /\ target[c] = target[d] => c = d

CustodyInv == Alone /\ \A c \in Calls : Custody(c)

(* What a step may do to the lock, and which step wakes a call.            *)
LockUse(c) ==
    UNCHANGED lock \/ ~lock.held \/ (lock.exec = target[c] /\ Awake(c))
Wakes(c) ==
    Awake(c) \/ (pc[c] = "idle" /\ (Op[c] = "execute" \/ RowReviewed(target[c])))

(* A step that leaves the lock and the rows alone.                         *)
Passes(c, l) ==
    /\ pc'[c] = l
    /\ Awake(c)
    /\ l \in Holders => pc[c] \in Holders
    /\ l = "start" => pc[c] = "reconcile" /\ Op[c] = "execute"
    /\ l \in Underway => pc[c] \in Underway /\ run'[c].gs = run[c].gs
    /\ l \in Fresh => pc[c] \in Fresh
    /\ l = "stage" => Op[c] = "execute"
    /\ l \in Deciding => pc[c] \in Deciding

LEMMA PassesCustody ==
  ASSUME NEW c \in Calls, NEW l, Custody(c), Passes(c, l), target'[c] = target[c],
         UNCHANGED lock, KeepsRow(target[c])
  PROVE  Custody(c)' /\ LockUse(c) /\ Wakes(c)
<1>1. LockedFor(c)' <=> LockedFor(c)
  BY DEF LockedFor, HoldsLock
<1>2. /\ HasRow(target[c])' <=> HasRow(target[c])
      /\ RowReviewed(target[c])' <=> RowReviewed(target[c])
  BY DEF HasRow, RowReviewed, KeepsRow
<1>3. /\ target'[c] = ExecOf[c]
      /\ pc'[c] \in Holders => LockedFor(c)'
      /\ pc'[c] = "start" => LockedFor(c)'
  BY <1>1 DEF Custody, Passes, Holders
<1>4. pc'[c] \in Underway => RowRuns(c)'
  BY DEF Custody, Passes, RowRuns, KeepsRow
<1>5. /\ pc'[c] \in {"start", "stage"} => Op[c] = "execute"
      /\ pc'[c] \in Deciding => Op[c] # "execute"
  BY DEF Custody, Passes
<1>6. /\ Op[c] = "execute" /\ pc'[c] \in Fresh => ~HasRow(target[c])'
      /\ Op[c] = "execute" => ~RowReviewed(target[c])'
      /\ Op[c] # "execute" => HasRow(target[c])'
  BY <1>2 DEF Custody, Passes, HasRow, RowReviewed
<1> QED  BY <1>3, <1>4, <1>5, <1>6 DEF Custody, LockUse, Wakes, Passes, HasRow, RowReviewed

(* A step that works through the plan.                                     *)
LEMMA WorksCustody ==
  ASSUME NEW c \in Calls, Custody(c), pc[c] \in Holders, pc'[c] \in Underway, target'[c] = target[c],
         UNCHANGED lock, run'[c].gs = "running", snap'[target[c]].status = "running"
  PROVE  Custody(c)' /\ LockUse(c) /\ Wakes(c)
<1>1. pc'[c] \in Holders \ (Fresh \cup Deciding) /\ Awake(c)
  BY DEF Underway, Holders, Fresh, Deciding, Driving, Awake
<1>2. LockedFor(c)'
  BY DEF Custody, LockedFor, HoldsLock
<1>3. HasRow(target[c])' /\ ~RowReviewed(target[c])' /\ RowRuns(c)'
  BY DEF HasRow, RowReviewed, RowRuns
<1> QED  BY <1>1, <1>2, <1>3 DEF Custody, LockUse, Wakes, HasRow, RowReviewed, Fresh

(* A step that ends the call, having given back no other call's lock.      *)
LEMMA EndCustody ==
  ASSUME EngineInv, NEW c \in Calls, NEW r, Custody(c), Wakes(c), End(c, r),
         LockUse(c) \/ (Awake(c) /\ lock' = Released(target[c]))
  PROVE  Custody(c)' /\ LockUse(c) /\ Wakes(c)
<1>1. pc'[c] = "done" /\ target'[c] = target[c]
  BY DEF End, EngineInv, EngineTypeOK
<1>2. LockUse(c)
  BY DEF LockUse, Released, MayRelease
<1> QED  BY <1>1, <1>2 DEF Custody, Awake, Holders, Underway, Fresh, Deciding, Driving

(* A run that is running, written over its rows, or not.                   *)
LEMMA PersistCustody ==
  ASSUME EngineInv, NEW c \in Calls, NEW m, NEW l, Custody(c), pc[c] \in Holders,
         m.gs = "running", l \in Underway,
         \/ PersistOrEnd(c, m, l)
         \/ pc[c] \in Underway /\ \E k \in Underway : PersistOrCatch(c, m, l, k)
  PROVE  Custody(c)' /\ LockUse(c) /\ Wakes(c)
<1>1. TypeOK /\ target[c] \in Execs /\ pc \in [Calls -> Points] /\ run \in [Calls -> Run]
      /\ target \in [Calls -> Execs]
  BY DEF EngineInv, EngineTypeOK
<1>2. Awake(c)
  BY DEF Awake, Holders, Driving
<1>3. CASE Persists(c, m, l)
  <2>1. UNCHANGED lock /\ pc'[c] = l /\ run'[c] = m /\ target'[c] = target[c]
    BY <1>1, <1>3 DEF Persists, Saves, PersistExecutionSnapshot, GoWith, Carry
  <2>2. snap'[target[c]].status = "running"
    BY <1>1, <1>3 DEF Persists, Saves, PersistExecutionSnapshot, Overwritten, WriteOf, StatusOf,
                      TypeOK
  <2> QED  BY <2>1, <2>2, WorksCustody
<1>4. CASE Throws(c, m) /\ End(c, "thrown")
  BY <1>2, <1>4, EndCustody DEF Throws, LockUse, Wakes, storeVars
<1>5. ASSUME NEW k \in Underway, Throws(c, m), Go(c, k), pc[c] \in Underway
      PROVE  Custody(c)' /\ LockUse(c) /\ Wakes(c)
  <2>1. UNCHANGED <<lock, snap>> /\ pc'[c] = k /\ run'[c] = run[c] /\ target'[c] = target[c]
    BY <1>1, <1>5 DEF Throws, storeVars, Go, GoWith, Carry
  <2>2. run'[c].gs = "running" /\ snap'[target[c]].status = "running"
    BY <1>5, <2>1 DEF Custody, RowRuns
  <2> QED  BY <2>1, <2>2, WorksCustody
<1> QED  BY <1>3, <1>4, <1>5 DEF PersistOrEnd, PersistOrCatch

(* A step that only reads, logs or marks the checkpoint.                   *)
LEMMA GoCustody ==
  ASSUME EngineInv, NEW c \in Calls, NEW m, NEW l, Custody(c), Awake(c), GoWith(c, l, m),
         UNCHANGED <<lock, snap>>,
         l \in Holders => pc[c] \in Holders,
         l = "start" => pc[c] = "reconcile" /\ Op[c] = "execute",
         l \in Underway => pc[c] \in Underway /\ m.gs = run[c].gs,
         l \in Fresh => pc[c] \in Fresh /\ l # "stage",
         l \in Deciding => pc[c] \in Deciding
  PROVE  Custody(c)' /\ LockUse(c) /\ Wakes(c)
<1>1. pc'[c] = l /\ run'[c] = m /\ target'[c] = target[c]
  BY DEF GoWith, Carry, EngineInv, EngineTypeOK
<1>2. Passes(c, l)
  BY <1>1 DEF Passes, Fresh
<1> QED  BY <1>1, <1>2, PassesCustody DEF KeepsRow

LEMMA GiveUpCustody ==
  ASSUME EngineInv, NEW c \in Calls, NEW m, Custody(c), Awake(c), GiveUp(c, m)
  PROVE  Custody(c)' /\ LockUse(c) /\ Wakes(c)
<1>1. CASE End(c, "failed")
  BY <1>1, EndCustody DEF GiveUp, LockUse, Wakes, storeVars
<1>2. CASE Go(c, "release")
  <2>1. "release" \notin Holders \cup Underway \cup Fresh \cup Deciding \cup {"start"}
    BY DEF Holders, Underway, Fresh, Deciding, Driving
  <2>2. GoWith(c, "release", run[c]) /\ UNCHANGED <<lock, snap>>
    BY <1>2 DEF Go, GiveUp, storeVars
  <2> QED  BY <2>1, <2>2, GoCustody
<1> QED  BY <1>1, <1>2 DEF GiveUp

(* The calls that open an execution.                                       *)
LEMMA OpeningCustody ==
  ASSUME EngineInv, NEW c \in Calls, Op[c] # "recover", Founded(c), Custody(c), Opening(c)
  PROVE  Custody(c)' /\ LockUse(c) /\ Wakes(c)
<1>1. /\ TypeOK /\ target[c] \in Execs /\ run[c] \in Run
      /\ pc \in [Calls -> Points] /\ run \in [Calls -> Run] /\ target \in [Calls -> Execs]
  BY DEF EngineInv, EngineTypeOK
<1>2. \A l, m : GoWith(c, l, m) => pc'[c] = l /\ run'[c] = m /\ target'[c] = target[c]
  BY <1>1 DEF GoWith, Carry
<1>3. \A l : l \in {"corrupt", "corruptLog", "doubtLog", "release", "launch", "rejectFailed"}
        => l \notin Underway \cup Fresh \cup {"start"}
  BY DEF Underway, Fresh, Driving
<1>4. CASE ExecuteAcquire(c)
  <2>1. Op[c] = "execute" /\ pc[c] = "idle" /\ Wakes(c)
    BY <1>4 DEF ExecuteAcquire, At, Wakes
  <2>2. CASE AcquireExecutionLock(target[c], ProcOf[c]) /\ Go(c, "validate")
    <3>1. KeepsRow(target[c]) /\ ~lock.held /\ LockedFor(c)'
      BY <1>1, <1>2, <2>2, MirrorKeepsRows
         DEF AcquireExecutionLock, Go, LockedFor, HoldsLock
    <3>2. pc'[c] = "validate" /\ target'[c] = target[c]
      BY <1>2, <2>2 DEF Go
    <3>3. ~HasRow(target[c]) /\ ~HasRow(target[c])' /\ ~RowReviewed(target[c])'
      BY <2>1, <3>1, <3>2 DEF Custody, Fresh, HasRow, RowReviewed, KeepsRow
    <3> QED  BY <2>1, <3>1, <3>2, <3>3 DEF Custody, LockUse, Underway, Driving, Deciding
  <2>3. CASE AcquireConflict(target[c]) /\ End(c, "refused")
    BY <2>1, <2>3, EndCustody DEF AcquireConflict, LockUse
  <2> QED  BY <1>4, <2>2, <2>3 DEF ExecuteAcquire
<1>5. CASE Corrupt(c) \/ CorruptLog(c) \/ Doubt(c) \/ DoubtLog(c) \/ Created(c) \/ RejectLog(c)
  <2>1. Awake(c) /\ UNCHANGED <<lock, snap>>
    BY <1>5 DEF Corrupt, CorruptLog, Doubt, DoubtLog, Created, RejectLog, At, Awake, Emits,
                SetCheckpointStatus, AppendLedgerEvent
  <2>2. \/ End(c, "refused")
        \/ \E l \in {"corruptLog", "doubtLog", "release"} : GoWith(c, l, run[c])
        \/ pc[c] = "created" /\ GoWith(c, "launch", run[c])
        \/ pc[c] = "rejectLog" /\ GoWith(c, "rejectFailed", run[c])
    BY <1>5 DEF Corrupt, CorruptLog, Doubt, DoubtLog, Created, RejectLog, At, Emits, Go
  <2>3. ASSUME NEW l \in {"corruptLog", "doubtLog", "release"}, GoWith(c, l, run[c])
        PROVE  Custody(c)' /\ LockUse(c) /\ Wakes(c)
    <3>1. l \notin Holders \cup Deciding
      BY DEF Holders, Deciding, Driving
    <3> QED  BY <1>3, <2>1, <2>3, <3>1, GoCustody
  <2>4. CASE pc[c] = "created" /\ GoWith(c, "launch", run[c])
    <3>1. "created" \in Holders /\ "launch" \notin Deciding
      BY DEF Holders, Deciding
    <3> QED  BY <1>3, <2>1, <2>4, <3>1, GoCustody
  <2>5. CASE pc[c] = "rejectLog" /\ GoWith(c, "rejectFailed", run[c])
    <3>1. "rejectLog" \in Deciding /\ "rejectFailed" \notin Holders
      BY DEF Holders, Deciding, Driving
    <3> QED  BY <1>3, <2>1, <2>5, <3>1, GoCustody
  <2> QED  BY <2>1, <2>2, <2>3, <2>4, <2>5, EndCustody DEF LockUse, Wakes
<1>6. ASSUME pc[c] \in {"validate", "reconcile"}, DistrustHolder(c), UNCHANGED <<lock, snap>>
      PROVE  Custody(c)' /\ LockUse(c) /\ Wakes(c)
  <2>1. PICK l \in {"release", "corrupt"} : \E m : GoWith(c, l, m)
    BY <1>6 DEF DistrustHolder, Distrust
  <2>2. l \notin Holders \cup Deciding
    BY DEF Holders, Deciding, Driving
  <2> QED  BY <1>3, <1>6, <2>1, <2>2, GoCustody DEF Awake
<1>7. CASE Validate(c)
  <2>1. pc[c] = "validate" /\ UNCHANGED <<lock, snap>>
    BY <1>7 DEF Validate, At, IntegrityHolds, IntegrityFails
  <2>2. CASE Go(c, "reconcile")
    <3>1. "validate" \in Holders \cap Fresh /\ "reconcile" \notin Underway \cup Deciding
      BY DEF Holders, Fresh, Underway, Deciding, Driving
    <3> QED  BY <2>1, <2>2, <3>1, GoCustody DEF Go, Awake
  <2> QED  BY <1>6, <1>7, <2>1, <2>2 DEF Validate
<1>8. CASE Reconcile(c)
  <2>1. pc[c] = "reconcile" /\ Awake(c) /\ Op[c] = "execute" /\ LockedFor(c)
    BY <1>8 DEF Reconcile, At, Awake, Custody, Founded, Holders
  <2>2. CASE (ReconcileResume \/ ReconcileNoop) /\ Go(c, "start")
    <3>1. "reconcile" \in Fresh /\ "start" \notin Holders \cup Underway \cup Deciding
      BY DEF Holders, Fresh, Underway, Deciding, Driving
    <3> QED  BY <2>1, <2>2, <3>1, GoCustody DEF Go, ReconcileResume, ReconcileNoop, storeVars
  <2>3. CASE ReconcileUnlocked /\ Go(c, "release")
    <3>1. "release" \notin Holders \cup Deciding
      BY DEF Holders, Deciding, Driving
    <3> QED  BY <1>3, <2>1, <2>3, <3>1, GoCustody DEF Go, ReconcileUnlocked, storeVars
  <2>4. CASE (ReconcileToOperator \/ Abandon) /\ Go(c, "start")
    <3>1. lock.exec = target[c] /\ lock.exec \in Execs
      BY <1>1, <2>1 DEF LockedFor, HoldsLock
    <3>2. ckpt'.status # "none" /\ \A e \in Execs : KeepsRow(e)
      <4>1. {"pause_for_operator_recovery", "execution_abandoned"} \subseteq CheckpointStatuses
        BY DEF CheckpointStatuses
      <4>2. Calm
        BY <1>1, <2>4, <3>1, <4>1, TransitionCalm DEF ReconcileToOperator, QueueRecoveryReview, Abandon
      <4>3. ckpt.status # "none"
        BY <2>4 DEF ReconcileToOperator, QueueRecoveryReview, Abandon, FinalizeExecutionTransition
      <4>4. ckpt'.status # "none"
        BY <1>1, <2>4, MarkKeeps DEF ReconcileToOperator, QueueRecoveryReview, Abandon,
                                     FinalizeExecutionTransition
      <4> QED  BY <4>2, <4>4 DEF Calm
    <3>3. pc'[c] = "start" /\ target'[c] = target[c]
      BY <1>2, <2>4 DEF Go
    <3>4. KeepsRow(target[c]) /\ ~HasRow(target[c]) /\ ~RowReviewed(target[c])
      BY <1>1, <2>1, <3>2 DEF Custody, Fresh
    <3>5. ~HasRow(target[c])' /\ ~RowReviewed(target[c])'
      BY <3>3, <3>4 DEF KeepsRow, HasRow, RowReviewed
    <3> QED  BY <2>1, <3>1, <3>2, <3>3, <3>5
             DEF Custody, LockUse, Wakes, Holders, Underway, Driving, Deciding
  <2>5. CASE ReconcileFails /\ DistrustHolder(c)
    BY <1>6, <2>1, <2>5 DEF ReconcileFails, IntegrityFails
  <2> QED  BY <1>8, <2>1, <2>2, <2>3, <2>4, <2>5 DEF Reconcile
<1>9. CASE Start(c)
  <2>1. pc[c] = "start" /\ Awake(c)
    BY <1>9 DEF Start, At, Awake
  <2>2. CASE StartExecutionState /\ Go(c, "stage")
    <3>1. UNCHANGED <<lock, snap>> /\ pc'[c] = "stage" /\ target'[c] = target[c] /\ LockedFor(c)
      BY <1>2, <2>1, <2>2 DEF StartExecutionState, Go, Custody
    <3>2. LockedFor(c)' /\ ~HasRow(target[c])' /\ ~RowReviewed(target[c])' /\ Op[c] = "execute"
      BY <2>1, <3>1 DEF LockedFor, HoldsLock, Custody, Fresh, HasRow, RowReviewed
    <3> QED  BY <2>1, <3>1, <3>2 DEF Custody, LockUse, Wakes, Underway, Driving, Deciding
  <2>3. CASE UNCHANGED storeVars /\ Go(c, "release")
    <3>1. "release" \notin Holders \cup Deciding
      BY DEF Holders, Deciding, Driving
    <3> QED  BY <1>3, <2>1, <2>3, <3>1, GoCustody DEF Go, storeVars
  <2> QED  BY <1>9, <2>2, <2>3 DEF Start
<1>10. CASE Stage(c)
  <2>1. pc[c] = "stage" /\ Awake(c) /\ Op[c] = "execute" /\ LockedFor(c)
    BY <1>10 DEF Stage, At, Awake, Custody, Holders
  <2>2. CASE Persists(c, StagedRun, "created")
    <3>1. UNCHANGED lock /\ pc'[c] = "created" /\ target'[c] = target[c]
      BY <1>2, <2>2 DEF Persists, Saves, PersistExecutionSnapshot
    <3>2. snap'[target[c]].steps = StagedRun.steps
      BY <1>1, <2>2 DEF Persists, Saves, PersistExecutionSnapshot, Overwritten, WriteOf, TypeOK
    <3>3. ~RowReviewed(target[c])' /\ LockedFor(c)'
      BY <2>1, <3>1, <3>2 DEF RowReviewed, StagedRun, LockedFor, HoldsLock
    <3> QED  BY <2>1, <3>1, <3>3 DEF Custody, LockUse, Wakes, Fresh, Underway, Driving, Deciding
  <2>3. CASE Throws(c, StagedRun) /\ End(c, "thrown")
    BY <2>1, <2>3, EndCustody DEF Throws, LockUse, Wakes, storeVars
  <2> QED  BY <1>10, <2>2, <2>3 DEF Stage, PersistOrEnd
<1>11. CASE Launch(c)
  <2>1. pc[c] = "launch" /\ pc[c] \in Holders /\ Awake(c) /\ "started" \in Underway
    BY <1>11 DEF Launch, At, Awake, Holders, Underway
  <2>2. CASE PersistOrEnd(c, [run[c] EXCEPT !.gs = "running"], "started")
    <3>1. [run[c] EXCEPT !.gs = "running"].gs = "running"
      BY <1>1 DEF Run
    <3> QED  BY <2>1, <2>2, <3>1, PersistCustody
  <2>3. CASE PauseExecutionForReview(target[c], WriteOf(Held(run[c]))) /\ End(c, "paused")
    BY <2>1, <2>3, EndCustody DEF PauseExecutionForReview, Wakes
  <2>4. CASE (UNCHANGED storeVars \/ Saves(c, Barred(run[c]))) /\ End(c, "refused")
    BY <2>1, <2>4, EndCustody DEF Saves, PersistExecutionSnapshot, LockUse, Wakes, storeVars
  <2> QED  BY <1>11, <2>2, <2>3, <2>4 DEF Launch
<1>12. CASE Started(c)
  <2>1. {"started", "stageRun"} \subseteq Holders \cap Underway /\ "stageRun" \notin Fresh \cup Deciding
    BY DEF Holders, Underway, Fresh, Deciding, Driving
  <2> QED  BY <1>12, <2>1, GoCustody DEF Started, At, Awake, Emits, AppendLedgerEvent, Go
<1>13. CASE Reuse(c)
  <2>1. pc[c] = "reuse" /\ Awake(c) /\ Op[c] # "execute"
    BY <1>13 DEF Reuse, At, Awake, Custody, Deciding
  <2>2. CASE AcquireOrReuseExecutionLock(target[c], ProcOf[c]) /\ Go(c, "decide")
    <3>1. KeepsRow(target[c]) /\ LockUse(c) /\ pc'[c] = "decide" /\ target'[c] = target[c]
      BY <1>1, <1>2, <2>1, <2>2, MirrorKeepsRows DEF AcquireOrReuseExecutionLock, Go, LockUse
    <3>2. LockedFor(c)'
      BY <2>2, <3>1 DEF AcquireOrReuseExecutionLock, LockedFor, HoldsLock
    <3>3. HasRow(target[c])'
      BY <2>1, <3>1 DEF Custody, HasRow, KeepsRow
    <3> QED  BY <2>1, <3>1, <3>2, <3>3 DEF Custody, Wakes, Underway, Driving
  <2>3. CASE AcquireOrReuseConflict(target[c]) /\ End(c, "refused")
    BY <2>1, <2>3, EndCustody DEF AcquireOrReuseConflict, AcquireConflict, LockUse, Wakes
  <2> QED  BY <1>13, <2>2, <2>3 DEF Reuse
<1>14. CASE Resume(c)
  <2>1. /\ pc[c] = "idle" /\ Op[c] # "execute" /\ UNCHANGED <<lock, snap>>
        /\ pc'[c] = "reuse" /\ target'[c] = target[c]
    BY <1>2, <1>14 DEF Resume, At, storeVars
  <2>2. RowReviewed(target[c]) /\ HasRow(target[c])
    BY <1>14 DEF Resume, MayResume, PausedSteps, RowReviewed, HasRow
  <2>3. HasRow(target[c])'
    BY <2>1, <2>2 DEF HasRow
  <2> QED  BY <2>1, <2>2, <2>3 DEF Custody, LockUse, Wakes, Holders, Underway, Driving
<1>15. CASE Approve(c)
  <2>1. pc[c] \in Holders /\ "stageRun" \in Underway
    BY <1>15 DEF Approve, At, Holders, Underway, Driving
  <2>2. PICK s \in Steps :
          PersistOrEnd(c, [Marked(run[c], s, "pending") EXCEPT !.gs = "running", !.rv = "approved",
                                 !.stage = "running", !.acked = s], "stageRun")
    BY <1>15 DEF Approve
  <2> DEFINE m == [Marked(run[c], s, "pending") EXCEPT !.gs = "running", !.rv = "approved",
                                 !.stage = "running", !.acked = s]
  <2>3. m.gs = "running"
    BY <1>1 DEF Marked, Run
  <2> HIDE DEF m
  <2> QED  BY <2>1, <2>2, <2>3, PersistCustody DEF m
<1>16. CASE Reject(c)
  <2>1. pc[c] = "decide" /\ Awake(c) /\ Op[c] # "execute"
    BY <1>16 DEF Reject, At, Awake
  <2>2. PICK m : PersistOrEnd(c, m, "rejectLog")
    BY <1>16 DEF Reject
  <2>3. CASE Persists(c, m, "rejectLog")
    <3>1. UNCHANGED lock /\ pc'[c] = "rejectLog" /\ target'[c] = target[c]
      BY <1>2, <2>3 DEF Persists, Saves, PersistExecutionSnapshot
    <3>2. snap'[target[c]].status = StatusOf(m)
      BY <1>1, <2>3 DEF Persists, Saves, PersistExecutionSnapshot, Overwritten, WriteOf, TypeOK
    <3>3. HasRow(target[c])'
      BY <3>1, <3>2 DEF HasRow, StatusOf
    <3> QED  BY <2>1, <3>1, <3>3 DEF Custody, LockUse, Wakes, Holders, Underway, Driving
  <2>4. CASE Throws(c, m) /\ End(c, "thrown")
    BY <2>1, <2>4, EndCustody DEF Throws, LockUse, Wakes, storeVars
  <2> QED  BY <2>2, <2>3, <2>4 DEF PersistOrEnd
<1>17. CASE RejectFailed(c)
  BY <1>17, EndCustody DEF RejectFailed, At, Awake, AppendLedgerEvent, LockUse, Wakes
<1>18. CASE Preflight(c) \/ RecoverState(c) \/ Restage(c) \/ Rehydrate(c)
  BY <1>18 DEF Preflight, RecoverState, Restage, Rehydrate, At, Founded
<1> QED  BY <1>4, <1>5, <1>7, <1>8, <1>9, <1>10, <1>11, <1>12, <1>13, <1>14, <1>15, <1>16, <1>17, <1>18
         DEF Opening

(* The calls at work.                                                      *)
LEMMA LoopingCustody ==
  ASSUME EngineInv, NEW c \in Calls, Custody(c), Looping(c) \/ Heartbeat(c)
  PROVE  Custody(c)' /\ LockUse(c) /\ Wakes(c)
<1>1. /\ TypeOK /\ target[c] \in Execs /\ run[c] \in Run /\ ProcOf[c] \in Procs
      /\ pc \in [Calls -> Points] /\ run \in [Calls -> Run] /\ target \in [Calls -> Execs]
  BY CallsAssumption DEF EngineInv, EngineTypeOK
<1>2. \A l, m : GoWith(c, l, m) => pc'[c] = l /\ run'[c] = m /\ target'[c] = target[c]
  BY <1>1 DEF GoWith, Carry
<1>3. pc[c] \in Driving
  BY DEF Looping, StageRun, StageLog, StageDone, PauseBefore, BlockStep, Begin, RefusedBegin,
         MarkRunning, ToolReturns, Complete, MarkCompleted, FailReported, FailThrown, Fail,
         MarkFailed, MarkThrown, MarkPaused, StagePaused, Pause, Heartbeat, At, Driving
<1>4. /\ pc[c] \in Holders /\ pc[c] \in Underway /\ Awake(c)
      /\ run[c].gs = "running" /\ snap[target[c]].status = "running"
  BY <1>3 DEF Holders, Underway, Awake, Driving, Custody, RowRuns
<1>5. Driving \subseteq Underway
  BY DEF Underway
<1>6. ASSUME NEW l \in Driving, NEW m, m.gs = "running",
             PersistOrEnd(c, m, l) \/ PersistOrCatch(c, m, l, "failThrown")
      PROVE  Custody(c)' /\ LockUse(c) /\ Wakes(c)
  <2>1. "failThrown" \in Underway
    BY DEF Underway, Driving
  <2> QED  BY <1>4, <1>5, <1>6, <2>1, PersistCustody
<1>7. ASSUME NEW l \in Driving, NEW m, m.gs = "running", GoWith(c, l, m), UNCHANGED lock,
             snap'[target[c]].status = "running"
      PROVE  Custody(c)' /\ LockUse(c) /\ Wakes(c)
  BY <1>2, <1>4, <1>5, <1>7, WorksCustody
<1>8. \A s, st : /\ Marked(run[c], s, st).gs = "running"
                 /\ [run[c] EXCEPT !.stage = st].gs = "running"
                 /\ [Marked(run[c], s, st) EXCEPT !.stage = st].gs = "running"
  BY <1>1, <1>4 DEF Marked, Run
<1>9. CASE \/ StageRun(c) \/ StageDone(c) \/ BlockStep(c) \/ RefusedBegin(c) \/ MarkRunning(c)
           \/ MarkCompleted(c) \/ MarkFailed(c) \/ MarkThrown(c) \/ MarkPaused(c) \/ StagePaused(c)
  <2>1. \E l \in Driving : \E s, st : \E m \in {Marked(run[c], s, st), [run[c] EXCEPT !.stage = st]} :
          PersistOrEnd(c, m, l) \/ PersistOrCatch(c, m, l, "failThrown")
    <3>1. {"stageLog", "stageDoneLog", "stageFailed", "tool", "step", "stagePaused", "pause"}
            \subseteq Driving
      BY DEF Driving
    <3> QED  BY <1>9, <3>1 DEF StageRun, StageDone, BlockStep, RefusedBegin, MarkRunning, MarkCompleted,
                 MarkFailed, MarkThrown, MarkPaused, StagePaused, MarkedInHand
  <2> QED  BY <1>6, <1>8, <2>1
<1>10. CASE StageLog(c) \/ \E o \in Outcomes : ToolReturns(c, o)
  <2>1. UNCHANGED <<lock, snap>>
    BY <1>10 DEF StageLog, Emits, AppendLedgerEvent, ToolReturns, storeVars
  <2>2. \E l \in Driving : GoWith(c, l, run[c])
    BY <1>10 DEF StageLog, Emits, ToolReturns, Go, Driving
  <2> QED  BY <1>4, <1>7, <2>1, <2>2
<1>11. CASE PauseBefore(c)
  <2>1. (\E s, w : PausedForReview(target[c], s, w) /\ End(c, "paused"))
        \/ (UNCHANGED storeVars /\ End(c, "failed"))
    BY <1>11 DEF PauseBefore, PauseBeforeExecutionForReview
  <2> QED  BY <1>4, <2>1, EndCustody DEF PausedForReview, LockUse, Wakes, storeVars
<1>12. CASE Pause(c)
  <2>1. (\E s, w : PausedForReview(target[c], s, w) /\ End(c, "paused"))
        \/ \E m : GiveUp(c, m)
    BY <1>12 DEF Pause, PauseExecutionAttemptForReview
  <2> QED  BY <1>4, <2>1, EndCustody, GiveUpCustody DEF PausedForReview, LockUse, Wakes
<1>13. ASSUME NEW s, NEW st, \/ snap' = Merged(target[c], RunningSnapshot(target[c], s))
                             \/ snap' = Merged(target[c], TerminalSnapshot(target[c], s, st))
       PROVE  snap'[target[c]].status = "running"
  BY <1>1, <1>13 DEF Merged, Overwritten, RunningSnapshot, TerminalSnapshot, TypeOK
<1>14. CASE Begin(c)
  <2>1. {"markRunning", "refusedBegin"} \subseteq Driving
    BY DEF Driving
  <2>2. PICK s \in Steps :
          \/ /\ BeginExecutionAttempt(target[c], ProcOf[c], s)
             /\ GoWith(c, "markRunning", [run[c] EXCEPT !.step = s,
                            !.n = Len(attempts[target[c]][s]) + 1, !.lost = FALSE])
          \/ UNCHANGED storeVars /\ GoWith(c, "refusedBegin", [run[c] EXCEPT !.step = s])
    BY <1>14 DEF Begin
  <2>3. /\ [run[c] EXCEPT !.step = s, !.n = Len(attempts[target[c]][s]) + 1, !.lost = FALSE].gs = "running"
        /\ [run[c] EXCEPT !.step = s].gs = "running"
    BY <1>1, <1>4 DEF Run
  <2>4. UNCHANGED lock /\ snap'[target[c]].status = "running"
    BY <1>4, <1>13, <2>2 DEF BeginExecutionAttempt, storeVars
  <2>5. \E l \in Driving : \E m : m.gs = "running" /\ GoWith(c, l, m)
    BY <2>1, <2>2, <2>3
  <2> QED  BY <1>7, <2>4, <2>5
<1>15. CASE Complete(c) \/ FailReported(c) \/ FailThrown(c)
  <2>1. {"markCompleted", "markFailed", "markThrown"} \subseteq Driving
    BY DEF Driving
  <2>2. \/ GiveUp(c, run[c])
        \/ \E l \in Driving : /\ GoWith(c, l, run[c])
                              /\ \/ CompleteExecutionAttempt(target[c], InHand(c), run[c].n)
                                 \/ FailExecutionAttempt(target[c], InHand(c), run[c].n)
    BY <1>15, <2>1 DEF Complete, FailReported, FailThrown, Fail, Go
  <2>3. ASSUME CompleteExecutionAttempt(target[c], InHand(c), run[c].n)
               \/ FailExecutionAttempt(target[c], InHand(c), run[c].n)
        PROVE  UNCHANGED lock /\ snap'[target[c]].status = "running"
    BY <1>13, <2>3 DEF CompleteExecutionAttempt, FailExecutionAttempt
  <2> QED  BY <1>4, <1>7, <2>2, <2>3, GiveUpCustody
<1>16. CASE Heartbeat(c)
  <2>1. UNCHANGED lock /\ KeepsRow(target[c])
    BY <1>1, <1>16, MirrorKeepsRows DEF Heartbeat, HeartbeatAttempt, KeepsRow, storeVars
  <2>2. PICK b : GoWith(c, "tool", [run[c] EXCEPT !.lost = b])
    BY <1>16 DEF Heartbeat
  <2>3. [run[c] EXCEPT !.lost = b].gs = "running"
    BY <1>1, <1>4 DEF Run
  <2>4. "tool" \in Driving /\ snap'[target[c]].status = "running"
    BY <1>4, <2>1 DEF KeepsRow, Driving
  <2> QED  BY <1>7, <2>1, <2>2, <2>3, <2>4
<1> QED  BY <1>9, <1>10, <1>11, <1>12, <1>14, <1>15, <1>16 DEF Looping

(* The calls that end.                                                     *)
LEMMA ClosingCustody ==
  ASSUME EngineInv, NEW c \in Calls, Custody(c), Closing(c)
  PROVE  Custody(c)' /\ LockUse(c) /\ Wakes(c)
<1>1. TypeOK /\ target[c] \in Execs /\ run[c] \in Run
  BY DEF EngineInv, EngineTypeOK
<1>2. Awake(c) /\ (pc[c] # "release" => pc[c] \in Holders \cap Underway /\ RowRuns(c))
  BY DEF Closing, StageFailed, StageFailedLog, StageDoneLog, Finalize, FinalizeFailed, Finalized,
         Release, At, Awake, Holders, Underway, Driving, Custody
<1>3. CASE StageFailed(c)
  <2>1. [run[c] EXCEPT !.stage = "failed"].gs = "running" /\ pc[c] \in Holders
    BY <1>1, <1>2, <1>3 DEF StageFailed, At, RowRuns, Run
  <2>2. "stageFailedLog" \in Underway
    BY DEF Underway, Driving
  <2> QED  BY <1>3, <2>1, <2>2, PersistCustody DEF StageFailed
<1>4. CASE StageFailedLog(c) \/ StageDoneLog(c)
  <2>1. pc[c] \in Holders \cap Underway /\ UNCHANGED <<lock, snap>>
    BY <1>2, <1>4 DEF StageFailedLog, StageDoneLog, At, Emits, AppendLedgerEvent
  <2>2. PICK l \in {"finalizeFailed", "finalize"} : GoWith(c, l, run[c])
    BY <1>4 DEF StageFailedLog, StageDoneLog, Emits, Go
  <2>3. l \notin Fresh \cup Deciding /\ l # "start"
    BY DEF Fresh, Deciding
  <2> QED  BY <1>2, <2>1, <2>2, <2>3, GoCustody
<1>5. CASE Finalize(c) \/ FinalizeFailed(c)
  <2>1. \E m, st : (FinalizeExecution(target[c], WriteOf(m), st) /\ End(c, st)) \/ GiveUp(c, m)
    BY <1>5 DEF Finalize, FinalizeFailed, Finalized
  <2> QED  BY <1>2, <2>1, EndCustody, GiveUpCustody DEF FinalizeExecution, Wakes
<1>6. CASE Release(c)
  BY <1>2, <1>6, EndCustody DEF Release, ReleaseExecutionLock, LockUse, Wakes, storeVars
<1> QED  BY <1>3, <1>4, <1>5, <1>6 DEF Closing

LEMMA CustodyInit == EngineInit => CustodyInv
BY CallsAssumption
   DEF EngineInit, StoreInit, CustodyInv, Alone, Custody, Awake, Holders, Underway, Deciding, Driving,
       HasRow, NoRow

LEMMA CallKeepsCustody ==
  ASSUME EngineInv, Singles, OneFounder, CustodyInv, NEW c \in Calls, CallStep(c) \/ Heartbeat(c)
  PROVE  CustodyInv'
<1>1. /\ target[c] \in Execs /\ Op[c] # "recover" /\ Custody(c) /\ Founded(c)
      /\ \A d \in Calls \ {c} : pc'[d] = pc[d] /\ target'[d] = target[d] /\ run'[d] = run[d]
      /\ target'[c] = target[c]
  BY Targets DEF Singles, NoRecovery, EngineInv, EngineTypeOK, CustodyInv, OneFounder
<1>2. Custody(c)' /\ LockUse(c) /\ Wakes(c)
  BY <1>1, OpeningCustody, LoopingCustody, ClosingCustody DEF CallStep
<1>3. Footprint(c)
  BY CallFootprint
<1>4. ASSUME NEW d \in Calls \ {c}, Awake(d), Awake(c)'
      PROVE  target[d] # target[c]
  <2>1. Custody(d) /\ (Awake(c) => target[d] # target[c])
    BY <1>4 DEF CustodyInv, Alone
  <2>2. ASSUME pc[c] = "idle", target[d] = target[c] PROVE FALSE
    <3>1. ExecOf[c] = ExecOf[d] /\ Awake(d) /\ (Op[c] = "execute" \/ RowReviewed(target[c]))
      BY <1>1, <1>2, <1>4, <2>1, <2>2 DEF Custody, Wakes, Awake
    <3>2. (Op[c] = "execute") # (Op[d] = "execute")
      BY <3>1 DEF Singles, OneDecision, OwnIds
    <3>3. CASE Op[c] = "execute"
      BY <1>1, <2>1, <2>2, <3>1, <3>2, <3>3 DEF Custody, Fresh
    <3>4. CASE Op[d] = "execute"
      BY <2>1, <2>2, <3>1, <3>2, <3>4 DEF Custody
    <3> QED  BY <3>2, <3>3, <3>4
  <2> QED  BY <1>2, <2>1, <2>2 DEF Wakes
<1>5. ASSUME NEW d \in Calls \ {c}
      PROVE  Custody(d)'
  <2>1. Custody(d) /\ target[d] \in Execs /\ pc'[d] = pc[d] /\ target'[d] = target[d] /\ run'[d] = run[d]
        /\ (Awake(d)' <=> Awake(d))
    BY <1>1 DEF CustodyInv, EngineInv, EngineTypeOK, Awake
  <2>2. Awake(d) /\ Awake(c) => target[d] # target[c]
    BY DEF CustodyInv, Alone
  <2>3. Awake(d) => KeepsRow(target[d])
    <3>1. pc[c] \in Writers => Awake(c)
      BY DEF Writers, Rowed, Driving, Awake
    <3> QED  BY <2>1, <2>2, <1>3, <3>1 DEF Footprint
  <2>4. Op[d] = "execute" /\ pc[d] \in Fresh => ~HasRow(target[d])'
    <3> SUFFICES ASSUME Op[d] = "execute", pc[d] \in Fresh, HasRow(target[d])'
                 PROVE  FALSE
      OBVIOUS
    <3>1. ~HasRow(target[d])
      BY <2>1 DEF Custody
    <3>2. target[d] = target[c] /\ pc[c] \in Writers
      BY <1>3, <2>1, <3>1, RowsGrow DEF HasRow
    <3>3. Op[c] # "execute" /\ Awake(c)
      BY <1>1, <2>1, <3>2 DEF Singles, OwnIds, Custody, Writers, Rowed, Driving, Awake
    <3> QED  BY <1>1, <3>1, <3>2, <3>3 DEF Custody
  <2>5. (pc[d] \in Holders \/ pc[d] = "start") /\ LockedFor(d) => LockedFor(d)'
    <3> SUFFICES ASSUME pc[d] \in Holders \/ pc[d] = "start", LockedFor(d)
                 PROVE  LockedFor(d)'
      OBVIOUS
    <3>1. Awake(d)
      BY DEF Awake, Holders, Driving
    <3>2. UNCHANGED lock
      BY <1>2, <2>2, <3>1 DEF LockUse, LockedFor, HoldsLock
    <3> QED  BY <2>1, <3>2 DEF LockedFor, HoldsLock
  <2>6. pc[d] \in Underway => Awake(d)
    BY DEF Awake, Underway, Driving
  <2>7. ckpt.status # "none" => ckpt'.status # "none"
    BY <1>3 DEF Footprint
  <2>8. /\ pc'[d] \in Holders => LockedFor(d)'
        /\ pc'[d] = "start" => LockedFor(d)' \/ ckpt'.status # "none"
    BY <2>1, <2>5, <2>7 DEF Custody
  <2>9. pc'[d] \in Underway => RowRuns(d)'
    BY <2>1, <2>3, <2>6 DEF Custody, RowRuns, KeepsRow
  <2>10. /\ Op[d] = "execute" /\ Awake(d) => ~RowReviewed(target[d])'
         /\ Op[d] # "execute" /\ Awake(d) => HasRow(target[d])'
    BY <2>1, <2>3 DEF Custody, RowReviewed, HasRow, KeepsRow
  <2> QED  BY <2>1, <2>4, <2>8, <2>9, <2>10 DEF Custody
<1>6. Alone'
  <2> SUFFICES ASSUME NEW d \in Calls, NEW f \in Calls, Awake(d)', Awake(f)', target'[d] = target'[f]
               PROVE  d = f
    BY DEF Alone
  <2>1. \A g \in Calls \ {c} : Awake(g)' <=> Awake(g)
    BY <1>1 DEF Awake
  <2> QED  BY <1>1, <1>4, <2>1 DEF CustodyInv, Alone
<1> QED  BY <1>2, <1>5, <1>6 DEF CustodyInv

LEMMA TimeKeepsCustody ==
  ASSUME EngineInv, CustodyInv,
         (\E p \in Procs : Crash(p)) \/ LeaseLapse \/ ItemDue \/ UNCHANGED vars
  PROVE  CustodyInv'
<1>1. /\ \A d \in Execs : KeepsRow(d)
      /\ UNCHANGED <<lock, ckpt, target>>
      /\ \A c \in Calls : pc'[c] = "dead" \/ (pc'[c] = pc[c] /\ run'[c].gs = run[c].gs)
  BY TimeFootprint DEF EngineInv, EngineTypeOK, Run
<1>2. ASSUME NEW c \in Calls PROVE Custody(c)'
  <2>1. Custody(c) /\ target[c] \in Execs
    BY DEF CustodyInv, EngineInv, EngineTypeOK
  <2>2. CASE pc'[c] = "dead"
    BY <1>1, <2>1, <2>2 DEF Custody, Awake, Holders, Underway, Deciding, Fresh, Driving
  <2>3. CASE pc'[c] = pc[c] /\ run'[c].gs = run[c].gs
    <3>1. (Awake(c)' <=> Awake(c)) /\ (LockedFor(c)' <=> LockedFor(c))
          /\ (RowRuns(c)' <=> RowRuns(c)) /\ (HasRow(target[c])' <=> HasRow(target[c]))
          /\ (RowReviewed(target[c])' <=> RowReviewed(target[c]))
      BY <1>1, <2>1, <2>3 DEF Awake, LockedFor, HoldsLock, RowRuns, HasRow, RowReviewed, KeepsRow
    <3> QED  BY <1>1, <2>1, <2>3, <3>1 DEF Custody
  <2> QED  BY <1>1, <2>2, <2>3
<1>3. Alone'
  BY <1>1 DEF CustodyInv, Alone, Awake
<1> QED  BY <1>2, <1>3 DEF CustodyInv

LEMMA CustodyInvariant == EngineSpec /\ Singles => []CustodyInv
<1>1. EngineInv /\ Singles /\ OneFounder /\ CustodyInv /\ [EngineNext]_vars => CustodyInv'
  BY CallKeepsCustody, TimeKeepsCustody DEF EngineNext
<1>2. EngineInit => OneFounder
  BY DEF EngineInit, StoreInit, OneFounder, Founded, AtMostOneExecution, HasRow, NoRows, NoRow,
         Rowed, Driving
<1>3. EngineInv /\ Singles /\ OneFounder /\ [EngineNext]_vars => OneFounder'
  BY FounderStep DEF Singles
<1>4. ASSUME Singles PROVE EngineSpec => []CustodyInv
  <2>1. EngineInv /\ OneFounder /\ CustodyInv /\ [EngineNext]_vars => CustodyInv' /\ OneFounder'
    BY <1>1, <1>3, <1>4
  <2> QED  BY <1>2, <2>1, CustodyInit, EngineInvariant, PTL DEF EngineSpec
<1> QED  BY <1>4

(* Whoever drives the plan, a client or the operator who approved a step,  *)
(* holds its lock from the first stage event to the transaction that       *)
(* releases it, whatever crashes, stalls or is set aside.                  *)
THEOREM DriverKeepsLock == EngineSpec /\ Singles => []DriverHoldsLock
<1>1. CustodyInv => DriverHoldsLock
  BY DEF CustodyInv, Custody, Holders, LockedFor, DriverHoldsLock
<1> QED  BY <1>1, CustodyInvariant, PTL

(* So one call at most drives the plan's steps.                            *)
THEOREM OneCallDrives == EngineSpec /\ Singles => []OneDriver
<1>1. CustodyInv => OneDriver
  <2> SUFFICES ASSUME CustodyInv PROVE OneDriver
    OBVIOUS
  <2> DEFINE D == {c \in Calls : pc[c] \in Driving}
  <2>1. \A c, d \in D : c = d
    BY DEF CustodyInv, Custody, Alone, LockedFor, HoldsLock, Holders, Awake, Driving
  <2>2. Cardinality(D) <= 1
    <3>1. CASE D = {}
      BY <3>1, FS_EmptySet
    <3>2. CASE D # {}
      <4>1. PICK c \in D : TRUE
        BY <3>2
      <4>2. D = {c}
        BY <2>1, <4>1
      <4> QED  BY <4>2, FS_Singleton
    <3> QED  BY <3>1, <3>2
  <2> QED  BY <2>2 DEF OneDriver
<1> QED  BY <1>1, CustodyInvariant, PTL

-----------------------------------------------------------------------------
(* No lock is left behind where, besides, nothing crashes, no run is set   *)
(* aside or barred with its lock, and the operator approves.               *)

Orderly ==
    /\ Singles
    /\ CanCrash = {} /\ Admission \subseteq {"runs", "held"}
    /\ \A c \in Calls : Op[c] # "reject"

(* Points at which a call has the plan's lock to give back.                *)
Keepers  == Holders \cup {"start", "corrupt", "corruptLog", "release"}
LockKept == lock.held => \E c \in Calls : pc[c] \in Keepers /\ LockedFor(c)

(* What the rows say of the steps of a run at point l: they are ahead of   *)
(* it by the step in hand where an attempt has just begun or ended.        *)
Open   == {"pending", "running", "paused", "paused_for_review"}
Ahead  == {"markRunning", "markCompleted", "markFailed", "markThrown"}
InRows(l, m) ==
    IF l = "markRunning" THEN [m.steps EXCEPT ![m.step] = "running"]
    ELSE IF l = "markCompleted" THEN [m.steps EXCEPT ![m.step] = "completed"]
    ELSE IF l \in {"markFailed", "markThrown"} THEN [m.steps EXCEPT ![m.step] = "failed"]
    ELSE m.steps

InStage == Driving \ {"stageRun", "pause", "stageFailedLog", "finalizeFailed", "stageDoneLog", "finalize"}
AtWork  == {"tool", "complete", "fail", "failThrown", "markPaused"}
Pausing == {"stagePaused", "pause"}

StageFits(l, m) ==
    /\ l \in {"created", "launch", "started"} => m.stage = "pending"
    /\ l = "stageRun" => m.stage \in {"pending", "running"}
    /\ l \in InStage => m.stage = "running"
HandFits(l, m, tried) ==
    /\ l \in {"refusedBegin", "markRunning"} => m.steps[m.step] \in Open
    /\ l \in AtWork => m.steps[m.step] = "running"
    /\ l \in Pausing => m.steps[m.step] = "paused_for_review"
    /\ l \in {"markRunning"} \cup AtWork \cup Pausing => m.n \in DOMAIN tried[m.step]

(* The rows that a call has written, or was hydrated from, are its run's.  *)
Mirrored == {"created", "launch", "started", "reuse", "decide"} \cup Driving
MirrorsAs(l, m, row, tried) ==
    l \in Mirrored =>
        /\ row.stage = m.stage /\ row.steps = InRows(l, m)
        /\ \A s \in Steps : m.steps[s] # "cancelled"
        /\ StageFits(l, m) /\ HandFits(l, m, tried)
        /\ l \in {"created", "launch"} => row.status = "paused"
        /\ l \in {"reuse", "decide"} =>
              /\ row.status \in {"paused", "paused_for_review"}
              /\ m.stage \in {"running", "paused_for_review", "pending"}
        /\ l \notin {"reuse", "decide"} => m.rv = "approved"
Mirrors(c) == MirrorsAs(pc[c], run[c], snap[target[c]], attempts[target[c]])

NoneCancelled == \A e \in Execs, s \in Steps : snap[e].steps[s] # "cancelled"

OrderlyInv == LockKept /\ NoneCancelled /\ \A c \in Calls : Mirrors(c)

(* What a step of a call may rely on, and what it does for the invariant:  *)
(* it takes no lock, and keeps none, at a point that will not give it back.*)
Footing(c) ==
    /\ EngineInv /\ Founded(c) /\ Custody(c) /\ Mirrors(c) /\ NoneCancelled
    /\ ckpt.status = "none" => NoRows
    /\ FitPoint(c, pc[c], run[c])
Gives(c) ==
    /\ lock' # lock /\ lock'.held => pc'[c] \in Keepers /\ LockedFor(c)'
    /\ lock' = lock /\ LockedFor(c) /\ pc[c] \in Keepers => pc'[c] \in Keepers
NoneCancels(c) ==
    KeepsRow(target[c]) \/ \A s \in Steps : snap'[target[c]].steps[s] # "cancelled"
Tidy(c) == Mirrors(c)' /\ Gives(c) /\ NoneCancels(c)

LEMMA FootingTypes ==
  ASSUME NEW c \in Calls, Footing(c)
  PROVE  /\ TypeOK /\ target[c] \in Execs /\ run[c] \in Run /\ ProcOf[c] \in Procs
         /\ pc \in [Calls -> Points] /\ run \in [Calls -> Run] /\ target \in [Calls -> Execs]
         /\ snap[target[c]] \in Row /\ attempts[target[c]] \in [Steps -> Seq(Attempt)]
BY CallsAssumption DEF Footing, EngineInv, EngineTypeOK, TypeOK

LEMMA GoneWith ==
  ASSUME NEW c \in Calls, Footing(c), NEW l, NEW m, GoWith(c, l, m)
  PROVE  pc'[c] = l /\ run'[c] = m /\ target'[c] = target[c]
BY FootingTypes DEF GoWith, Carry

LEMMA TidyEnd ==
  ASSUME NEW c \in Calls, NEW r, Footing(c), End(c, r), NoneCancels(c),
         lock' = lock \/ ~lock'.held,
         lock' = lock => pc[c] \notin Keepers \/ ~LockedFor(c)
  PROVE  Tidy(c)
<1>1. pc'[c] = "done"
  BY FootingTypes DEF End
<1>2. "done" \notin Mirrored
  BY DEF Mirrored, Driving
<1> QED  BY <1>1, <1>2 DEF Tidy, Mirrors, MirrorsAs, Gives

(* A step that takes the call on, with the lock as it was.                 *)
LEMMA TidyGo ==
  ASSUME NEW c \in Calls, NEW l, NEW m, Footing(c), GoWith(c, l, m), NoneCancels(c), UNCHANGED lock,
         pc[c] \in Keepers => l \in Keepers,
         MirrorsAs(l, m, snap'[target[c]], attempts'[target[c]])
  PROVE  Tidy(c)
<1>1. pc'[c] = l /\ run'[c] = m /\ target'[c] = target[c]
  BY GoneWith
<1> QED  BY <1>1 DEF Tidy, Mirrors, Gives

(* One that leads to a point where the rows need not be the run's.         *)
LEMMA TidyAway ==
  ASSUME NEW c \in Calls, NEW l, NEW m, Footing(c), GoWith(c, l, m), UNCHANGED <<lock, snap>>,
         pc[c] \in Keepers => l \in Keepers, l \notin Mirrored
  PROVE  Tidy(c)
<1>1. MirrorsAs(l, m, snap'[target[c]], attempts'[target[c]])
  BY DEF MirrorsAs
<1>2. NoneCancels(c)
  BY DEF NoneCancels, KeepsRow
<1> QED  BY <1>1, <1>2, TidyGo

LEMMA TidyGiveUp ==
  ASSUME NEW c \in Calls, NEW m, Footing(c), GiveUp(c, m), m.rv # "pending"
  PROVE  Tidy(c)
<1>1. GoWith(c, "release", run[c]) /\ UNCHANGED <<lock, snap>>
  BY DEF GiveUp, Go, storeVars
<1>2. "release" \in Keepers /\ "release" \notin Mirrored
  BY DEF Keepers, Mirrored, Driving
<1> QED  BY <1>1, <1>2, TidyAway

(* A run that is written over the rows: nothing refuses it.                *)
LEMMA TidyWrite ==
  ASSUME NEW c \in Calls, NEW l, NEW m, NEW k, Footing(c),
         PersistOrEnd(c, m, l) \/ PersistOrCatch(c, m, l, k),
         MayPersist(target[c], WriteOf(m)),
         l \in Keepers \cap Mirrored, MirrorsAs(l, m, WriteOf(m), attempts[target[c]])
  PROVE  Tidy(c)
<1>1. Saves(c, m) /\ GoWith(c, l, m)
  BY DEF PersistOrEnd, PersistOrCatch, Persists, Throws
<1>2. /\ UNCHANGED <<lock, attempts>>
      /\ snap' = Overwritten(target[c], WriteOf(m), m.owner, m.live)
  BY <1>1 DEF Saves, PersistExecutionSnapshot
<1>3. LET row == snap'[target[c]]
      IN  row.status = WriteOf(m).status /\ row.stage = WriteOf(m).stage /\ row.steps = WriteOf(m).steps
  BY <1>2, FootingTypes DEF Overwritten, TypeOK
<1>4. MirrorsAs(l, m, snap'[target[c]], attempts'[target[c]])
  BY <1>2, <1>3 DEF MirrorsAs
<1>5. NoneCancels(c)
  BY <1>3 DEF NoneCancels, MirrorsAs, WriteOf
<1> QED  BY <1>1, <1>2, <1>4, <1>5, TidyGo

(* What holds while a call works through the plan.                         *)
LEMMA AtLoop ==
  ASSUME NEW c \in Calls, Footing(c), pc[c] \in Driving
  PROVE  /\ pc[c] \in Keepers \cap Mirrored /\ pc[c] \notin {"reuse", "decide"}
         /\ HasRow(target[c]) /\ snap[target[c]].status = "running" /\ ckpt.status # "none"
         /\ lock.held /\ lock.exec = target[c] /\ LockedFor(c)
         /\ run[c].gs = "running" /\ run[c].rv = "approved"
         /\ snap[target[c]].stage = run[c].stage /\ snap[target[c]].steps = InRows(pc[c], run[c])
         /\ pc[c] \notin Ahead => snap[target[c]].steps = run[c].steps
         /\ \A s \in Steps : run[c].steps[s] # "cancelled"
         /\ StageFits(pc[c], run[c]) /\ HandFits(pc[c], run[c], attempts[target[c]])
         /\ run[c].stage = "running" \/ pc[c] \notin InStage
<1>1. pc[c] \in Keepers \cap Mirrored /\ pc[c] \notin {"reuse", "decide"} /\ pc[c] \in Rowed
      /\ pc[c] \in Holders \cap Underway
  BY DEF Keepers, Mirrored, Holders, Underway, Rowed, Driving
<1>2. LockedFor(c) /\ lock.held /\ lock.exec = target[c] /\ RowRuns(c)
  BY <1>1 DEF Footing, Custody, LockedFor, HoldsLock
<1>3. HasRow(target[c]) /\ ckpt.status # "none"
  BY <1>1, FootingTypes DEF Footing, Founded, HasRow, NoRows
<1>4. pc[c] \notin Ahead => InRows(pc[c], run[c]) = run[c].steps
  BY DEF InRows, Ahead
<1> QED  BY <1>1, <1>2, <1>3, <1>4 DEF Footing, Mirrors, MirrorsAs, RowRuns, StageFits

(* Which changes of an open step's status the transition table allows.     *)
LEMMA StepMayChange ==
  ASSUME TypeOK, NEW e \in Execs, NEW s \in Steps, NEW st,
         (snap[e].steps[s] \in Open /\ st # "pending") \/ snap[e].steps[s] = "paused_for_review"
  PROVE  \A t \in Steps : LegalChange(snap[e].steps[t], [snap[e].steps EXCEPT ![s] = st][t])
<1>1. snap[e].steps \in [Steps -> StepStatuses]
  BY DEF TypeOK, Row
<1>2. LegalChange(snap[e].steps[s], st)
  BY DEF LegalChange, Open
<1> QED  BY <1>1, <1>2 DEF LegalChange

(* A write in the loop, of the run as it is or with one step's new status. *)
LEMMA LoopWrite ==
  ASSUME NEW c \in Calls, Footing(c), pc[c] \in Driving, NEW l \in Driving, NEW m, NEW k,
         PersistOrEnd(c, m, l) \/ PersistOrCatch(c, m, l, k),
         m.gs = "running", m.rv = "approved", LegalChange(run[c].stage, m.stage),
         \/ m.steps = snap[target[c]].steps
         \/ \E s \in Steps, st \in StepStatuses \ {"pending", "cancelled"} :
              snap[target[c]].steps[s] \in Open /\ m.steps = [snap[target[c]].steps EXCEPT ![s] = st],
         l \notin Ahead, StageFits(l, m), HandFits(l, m, attempts[target[c]])
  PROVE  Tidy(c)
<1>1. /\ HasRow(target[c]) /\ snap[target[c]].status = "running"
      /\ snap[target[c]].stage = run[c].stage
  BY AtLoop
<1>2. TypeOK /\ target[c] \in Execs /\ snap[target[c]].steps \in [Steps -> StepStatuses]
  BY FootingTypes DEF Row
<1>3. \A s \in Steps : snap[target[c]].steps[s] # "cancelled"
  BY <1>2 DEF Footing, NoneCancelled
<1>4. \A s \in Steps : LegalChange(snap[target[c]].steps[s], m.steps[s]) /\ m.steps[s] # "cancelled"
  <2>1. CASE m.steps = snap[target[c]].steps
    BY <1>3, <2>1 DEF LegalChange
  <2>2. ASSUME NEW s \in Steps, NEW st \in StepStatuses \ {"pending", "cancelled"},
               snap[target[c]].steps[s] \in Open, m.steps = [snap[target[c]].steps EXCEPT ![s] = st]
        PROVE  \A t \in Steps : LegalChange(snap[target[c]].steps[t], m.steps[t])
                                /\ m.steps[t] # "cancelled"
    BY <1>2, <1>3, <2>2, StepMayChange
  <2> QED  BY <2>1, <2>2
<1>5. StatusOf(m) = "running" /\ InRows(l, m) = m.steps
  BY DEF StatusOf, InRows, Ahead
<1>6. MayPersist(target[c], WriteOf(m))
  BY <1>1, <1>4, <1>5 DEF MayPersist, WriteOf, LegalChange
<1>7. l \in Keepers \cap Mirrored /\ l \notin {"created", "launch", "reuse", "decide"}
  BY DEF Keepers, Mirrored, Holders, Driving
<1>8. MirrorsAs(l, m, WriteOf(m), attempts[target[c]])
  BY <1>4, <1>5, <1>7 DEF MirrorsAs, WriteOf
<1> QED  BY <1>6, <1>7, <1>8, TidyWrite

LEMMA StageTidy ==
  ASSUME NEW c \in Calls, Footing(c), StageRun(c) \/ StageDone(c) \/ StagePaused(c) \/ StageFailed(c)
  PROVE  Tidy(c)
<1>1. PICK l \in {"stageLog", "stageDoneLog", "pause", "stageFailedLog"},
           st \in {"running", "completed", "paused_for_review", "failed"} :
        /\ PersistOrEnd(c, [run[c] EXCEPT !.stage = st], l)
        /\ l = "stageLog" => pc[c] = "stageRun" /\ st = "running"
        /\ l = "stageDoneLog" => pc[c] = "step"
        /\ l = "pause" => pc[c] = "stagePaused"
        /\ l = "stageFailedLog" => pc[c] = "stageFailed"
  BY DEF StageRun, StageDone, StagePaused, StageFailed, At
<1>2. pc[c] \in Driving \ Ahead /\ l \in Driving \ Ahead
  BY <1>1 DEF Driving, Ahead
<1> DEFINE m == [run[c] EXCEPT !.stage = st]
<1>3. /\ m.gs = run[c].gs /\ m.rv = run[c].rv /\ m.stage = st /\ m.steps = run[c].steps
      /\ m.step = run[c].step /\ m.n = run[c].n
  BY FootingTypes DEF Run
<1>4. LegalChange(run[c].stage, st)
  BY <1>1, <1>2, AtLoop DEF StageFits, InStage, Driving, LegalChange
<1>5. StageFits(l, m)
  BY <1>1, <1>3 DEF StageFits, InStage, Driving
<1>6. HandFits(l, m, attempts[target[c]])
  BY <1>1, <1>2, <1>3, AtLoop DEF HandFits, Pausing, AtWork
<1>7. PersistOrEnd(c, m, l)
  BY <1>1
<1> HIDE DEF m
<1>8. m.gs = "running" /\ m.rv = "approved" /\ m.steps = snap[target[c]].steps
  BY <1>2, <1>3, AtLoop
<1>9. LegalChange(run[c].stage, m.stage)
  BY <1>3, <1>4
<1> QED  BY <1>2, <1>5, <1>6, <1>7, <1>8, <1>9, LoopWrite

(* A step's new status written into the run: where the rows have it        *)
(* already, and where they still say that the step is open.                *)
LEMMA MarkedWrite ==
  ASSUME NEW c \in Calls, Footing(c), pc[c] \in Driving, NEW l \in Driving, NEW k, NEW s \in Steps,
         NEW st \in StepStatuses \ {"pending", "cancelled"},
         PersistOrEnd(c, Marked(run[c], s, st), l) \/ PersistOrCatch(c, Marked(run[c], s, st), l, k),
         \/ snap[target[c]].steps = [run[c].steps EXCEPT ![s] = st]
         \/ snap[target[c]].steps = run[c].steps /\ run[c].steps[s] \in Open,
         l \notin Ahead, StageFits(l, run[c]),
         l \in AtWork \cup Pausing \cup {"refusedBegin"} =>
            /\ s = run[c].step /\ run[c].n \in DOMAIN attempts[target[c]][s]
            /\ (l = "tool" /\ st = "running") \/ (l = "stagePaused" /\ st = "paused_for_review")
  PROVE  Tidy(c)
<1> DEFINE m == Marked(run[c], s, st)
<1>1. /\ m.gs = run[c].gs /\ m.rv = run[c].rv /\ m.stage = run[c].stage
      /\ m.steps = [run[c].steps EXCEPT ![s] = st] /\ m.step = run[c].step /\ m.n = run[c].n
      /\ m.steps[s] = st
  BY FootingTypes DEF Run, Marked
<1>2. PersistOrEnd(c, m, l) \/ PersistOrCatch(c, m, l, k)
  OBVIOUS
<1> HIDE DEF m
<1>3. StageFits(l, m)
  BY <1>1 DEF StageFits
<1>4. HandFits(l, m, attempts[target[c]])
  BY <1>1 DEF HandFits, AtWork, Pausing, Ahead
<1>5. LegalChange(run[c].stage, m.stage)
  BY <1>1 DEF LegalChange
<1>6. \/ m.steps = snap[target[c]].steps
      \/ \E t \in Steps, x \in StepStatuses \ {"pending", "cancelled"} :
           snap[target[c]].steps[t] \in Open /\ m.steps = [snap[target[c]].steps EXCEPT ![t] = x]
  BY <1>1
<1>7. m.gs = "running" /\ m.rv = "approved"
  BY <1>1, AtLoop
<1> QED  BY <1>2, <1>3, <1>4, <1>5, <1>6, <1>7, LoopWrite

LEMMA HandTidy ==
  ASSUME NEW c \in Calls, Footing(c),
         \/ RefusedBegin(c) \/ MarkRunning(c) \/ MarkCompleted(c) \/ MarkFailed(c)
         \/ MarkThrown(c) \/ MarkPaused(c)
  PROVE  Tidy(c)
<1>1. PICK l \in {"stageFailed", "tool", "step", "stagePaused"},
           st \in {"failed", "running", "completed", "paused_for_review"} :
        /\ \/ PersistOrEnd(c, Marked(run[c], InHand(c), st), l)
           \/ PersistOrCatch(c, Marked(run[c], InHand(c), st), l, "failThrown")
        /\ \/ pc[c] = "refusedBegin" /\ l = "stageFailed"
           \/ pc[c] = "markRunning" /\ l = "tool" /\ st = "running"
           \/ pc[c] = "markCompleted" /\ l = "step" /\ st = "completed"
           \/ pc[c] \in {"markFailed", "markThrown"} /\ l = "stageFailed" /\ st = "failed"
           \/ pc[c] = "markPaused" /\ l = "stagePaused" /\ st = "paused_for_review"
        /\ l = "stageFailed" => st = "failed"
  BY DEF RefusedBegin, MarkRunning, MarkCompleted, MarkFailed, MarkThrown, MarkPaused, MarkedInHand, At
<1>2. pc[c] \in Driving \cap InStage \cap InHandPoints /\ l \in Driving \ Ahead
  BY <1>1 DEF Driving, InStage, InHandPoints, Ahead
<1>3. InHand(c) = run[c].step /\ InHand(c) \in Steps
  BY <1>2, FootingTypes, HandSound DEF Footing, EngineInv, InHand
<1>4. StageFits(l, run[c])
  BY <1>1, <1>2, AtLoop DEF StageFits, Driving
<1>5. CASE pc[c] \in {"refusedBegin", "markPaused"}
  <2>1. snap[target[c]].steps = run[c].steps /\ run[c].steps[InHand(c)] \in Open
    BY <1>2, <1>3, <1>5, AtLoop DEF Ahead, HandFits, AtWork, Open
  <2>2. l \in AtWork \cup Pausing \cup {"refusedBegin"} =>
          run[c].n \in DOMAIN attempts[target[c]][InHand(c)] /\ l = "stagePaused" /\ st = "paused_for_review"
    BY <1>1, <1>2, <1>3, <1>5, AtLoop DEF HandFits, AtWork, Pausing
  <2> QED  BY <1>1, <1>2, <1>3, <1>4, <2>1, <2>2, MarkedWrite DEF StepStatuses
<1>6. CASE pc[c] \in {"markRunning", "markCompleted", "markFailed", "markThrown"}
  <2>1. snap[target[c]].steps = [run[c].steps EXCEPT ![InHand(c)] = st]
    <3>1. snap[target[c]].steps = InRows(pc[c], run[c])
      BY <1>2, AtLoop
    <3>2. InRows(pc[c], run[c]) = [run[c].steps EXCEPT ![run[c].step] = st]
      BY <1>1, <1>6 DEF InRows
    <3> QED  BY <1>3, <3>1, <3>2
  <2>2. l \in AtWork \cup Pausing \cup {"refusedBegin"} =>
          run[c].n \in DOMAIN attempts[target[c]][InHand(c)] /\ l = "tool" /\ st = "running"
    <3>1. pc[c] = "markRunning" => run[c].n \in DOMAIN attempts[target[c]][InHand(c)]
      BY <1>2, <1>3, AtLoop DEF HandFits
    <3>2. pc[c] # "markRunning" => l \in {"step", "stageFailed"}
      BY <1>1, <1>6
    <3> QED  BY <1>1, <1>6, <3>1, <3>2 DEF AtWork, Pausing
  <2> QED  BY <1>1, <1>2, <1>3, <1>4, <2>1, <2>2, MarkedWrite DEF StepStatuses
<1> QED  BY <1>1, <1>5, <1>6

(* A step that may be next is open.                                        *)
LEMMA NextIsOpen ==
  ASSUME NEW c \in Calls, Footing(c), pc[c] = "step", NEW s \in Steps, IsNext(run[c], s)
  PROVE  run[c].steps[s] \in Open
<1>1. run[c].steps \in [Steps -> StepStatuses] /\ run[c].steps[s] # "cancelled"
  BY FootingTypes, AtLoop DEF Run, Driving
<1> QED  BY <1>1 DEF IsNext, Pending, Open, StepStatuses

LEMMA BlockTidy ==
  ASSUME NEW c \in Calls, Footing(c), BlockStep(c)
  PROVE  Tidy(c)
<1>1. PICK s \in Steps :
        pc[c] = "step" /\ IsNext(run[c], s) /\ PersistOrEnd(c, Marked(run[c], s, "failed"), "stageFailed")
  BY DEF BlockStep, At
<1>2. pc[c] \in Driving \ Ahead /\ pc[c] \in InStage /\ "stageFailed" \in Driving \ Ahead
      /\ "stageFailed" \notin AtWork \cup Pausing \cup {"refusedBegin"}
  BY <1>1 DEF Driving, Ahead, InStage, AtWork, Pausing
<1>3. StageFits("stageFailed", run[c])
  BY <1>2, AtLoop DEF StageFits
<1>4. snap[target[c]].steps = run[c].steps /\ run[c].steps[s] \in Open
  BY <1>1, <1>2, AtLoop, NextIsOpen
<1> QED  BY <1>1, <1>2, <1>3, <1>4, MarkedWrite DEF StepStatuses

(* Steps in the loop that leave the rows as they are.                      *)
LEMMA LogTidy ==
  ASSUME NEW c \in Calls, Footing(c),
         StageLog(c) \/ StageFailedLog(c) \/ StageDoneLog(c) \/ \E o \in Outcomes : ToolReturns(c, o)
  PROVE  Tidy(c)
<1>1. PICK l : GoWith(c, l, run[c]) /\
        \/ pc[c] = "stageLog" /\ l = "step"
        \/ pc[c] = "stageFailedLog" /\ l = "finalizeFailed"
        \/ pc[c] = "stageDoneLog" /\ l = "finalize"
        \/ pc[c] = "tool" /\ l \in {"failThrown", "markPaused", "complete", "fail"}
  BY DEF StageLog, StageFailedLog, StageDoneLog, ToolReturns, Emits, Go, At
<1>2. UNCHANGED <<lock, snap, attempts>>
  BY DEF StageLog, StageFailedLog, StageDoneLog, ToolReturns, Emits, AppendLedgerEvent, storeVars
<1>3. pc[c] \in Driving \ Ahead /\ l \in Driving \ Ahead
  BY <1>1 DEF Driving, Ahead
<1>4. /\ l \in Keepers /\ l \notin {"created", "launch", "reuse", "decide"}
      /\ InRows(l, run[c]) = run[c].steps
  BY <1>3 DEF Keepers, Holders, Driving, InRows, Ahead
<1>5. StageFits(l, run[c])
  BY <1>1, <1>3, AtLoop DEF StageFits, InStage, Driving
<1>6. HandFits(l, run[c], attempts[target[c]])
  <2>1. CASE pc[c] = "tool"
    BY <1>1, <1>3, <2>1, AtLoop DEF HandFits, AtWork, Pausing
  <2>2. CASE pc[c] # "tool"
    BY <1>1, <2>2 DEF HandFits, AtWork, Pausing
  <2> QED  BY <2>1, <2>2
<1>7. MirrorsAs(l, run[c], snap[target[c]], attempts[target[c]])
  BY <1>3, <1>4, <1>5, <1>6, AtLoop DEF MirrorsAs
<1>8. NoneCancels(c)
  BY <1>2 DEF NoneCancels, KeepsRow
<1> QED  BY <1>1, <1>2, <1>4, <1>7, <1>8, TidyGo

LEMMA HeartbeatTidy ==
  ASSUME NEW c \in Calls, Footing(c), Heartbeat(c)
  PROVE  Tidy(c)
<1>1. PICK b : GoWith(c, "tool", [run[c] EXCEPT !.lost = b])
  BY DEF Heartbeat
<1> DEFINE m == [run[c] EXCEPT !.lost = b]
<1>2. /\ m.rv = run[c].rv /\ m.stage = run[c].stage /\ m.steps = run[c].steps
      /\ m.step = run[c].step /\ m.n = run[c].n
  BY FootingTypes DEF Run
<1>3. GoWith(c, "tool", m)
  BY <1>1
<1> HIDE DEF m
<1>4. pc[c] = "tool" /\ pc[c] \in Driving \ Ahead /\ "tool" \in Keepers
      /\ "tool" \notin {"created", "launch", "started", "stageRun", "reuse", "decide", "refusedBegin"}
  BY DEF Heartbeat, At, Driving, Ahead, Keepers, Holders
<1>5. UNCHANGED lock /\ KeepsRow(target[c])
  BY FootingTypes, MirrorKeepsRows DEF Heartbeat, HeartbeatAttempt, KeepsRow, storeVars
<1>6. \A s \in Steps : DOMAIN attempts'[target[c]][s] = DOMAIN attempts[target[c]][s]
  <2>1. UNCHANGED attempts \/ \E s, n : attempts' = [attempts EXCEPT ![target[c]][s][n].live = TRUE]
    BY DEF Heartbeat, HeartbeatAttempt, storeVars
  <2>2. ASSUME NEW s, NEW n, attempts' = [attempts EXCEPT ![target[c]][s][n].live = TRUE]
        PROVE  \A t \in Steps : DOMAIN attempts'[target[c]][t] = DOMAIN attempts[target[c]][t]
    BY <2>2, FootingTypes DEF TypeOK
  <2> QED  BY <2>1, <2>2
<1>7. run[c].step \in Steps
  BY <1>4, FootingTypes, HandSound DEF Footing, EngineInv, InHandPoints
<1>8. HandFits("tool", m, attempts'[target[c]])
  BY <1>2, <1>4, <1>6, <1>7, AtLoop DEF HandFits, AtWork, Pausing
<1>9. StageFits("tool", m) /\ InRows("tool", m) = m.steps
  BY <1>2, <1>4, AtLoop DEF StageFits, InRows
<1>10. MirrorsAs("tool", m, snap'[target[c]], attempts'[target[c]])
  BY <1>2, <1>4, <1>5, <1>8, <1>9, AtLoop DEF MirrorsAs, KeepsRow
<1>11. NoneCancels(c)
  BY <1>5 DEF NoneCancels
<1> QED  BY <1>3, <1>4, <1>5, <1>10, <1>11, TidyGo

(* A transaction that ends the call and gives the lock back.               *)
LEMMA TidyRelease ==
  ASSUME NEW c \in Calls, NEW r, Footing(c), End(c, r), lock.exec = target[c], lock.held,
         lock' = Released(target[c]), NoneCancels(c)
  PROVE  Tidy(c)
<1>1. ~lock'.held /\ lock' # lock
  BY FootingTypes DEF Released, MayRelease, TypeOK, LockRow
<1> QED  BY <1>1, TidyEnd

LEMMA CancelsNone ==
  ASSUME NEW c \in Calls, Footing(c), NEW w, \A s \in Steps : w.steps[s] # "cancelled",
         snap' = Merged(target[c], w) \/ snap' = Unleased(target[c], w)
  PROVE  NoneCancels(c)
<1>1. snap'[target[c]].steps = w.steps
  BY FootingTypes DEF Merged, Unleased, Overwritten, TypeOK
<1> QED  BY <1>1 DEF NoneCancels

LEMMA FinalizeTidy ==
  ASSUME NEW c \in Calls, Footing(c), Finalize(c) \/ FinalizeFailed(c)
  PROVE  Tidy(c)
<1>1. pc[c] \in Driving
  BY DEF Finalize, FinalizeFailed, Finalized, At, Driving
<1>2. PICK m \in {[run[c] EXCEPT !.gs = "idle", !.rv = "approved"], [run[c] EXCEPT !.gs = "error"]} :
        (\E st : FinalizeExecution(target[c], WriteOf(m), st) /\ End(c, st)) \/ GiveUp(c, m)
  BY DEF Finalize, FinalizeFailed, Finalized
<1>3. m.rv = "approved" /\ m.steps = run[c].steps
  <2>1. run[c] \in Run /\ run[c].rv = "approved"
    BY <1>1, AtLoop, FootingTypes
  <2>2. CASE m = [run[c] EXCEPT !.gs = "idle", !.rv = "approved"]
    BY <2>1, <2>2 DEF Run
  <2>3. CASE m = [run[c] EXCEPT !.gs = "error"]
    BY <2>1, <2>3 DEF Run
  <2> QED  BY <1>2, <2>2, <2>3
<1>4. ASSUME NEW st, FinalizeExecution(target[c], WriteOf(m), st), End(c, st)
      PROVE  Tidy(c)
  <2>1. NoneCancels(c)
    BY <1>1, <1>3, <1>4, AtLoop, CancelsNone DEF FinalizeExecution, WriteOf
  <2> QED  BY <1>1, <1>4, <2>1, AtLoop, TidyRelease DEF FinalizeExecution
<1> QED  BY <1>2, <1>3, <1>4, TidyGiveUp

LEMMA ReleaseTidy ==
  ASSUME NEW c \in Calls, Footing(c), Release(c)
  PROVE  Tidy(c)
<1>1. NoneCancels(c)
  <2>1. UNCHANGED snap \/ snap' = LeaseMirrored(snap, target[c], NoProc)
    BY DEF Release, ReleaseExecutionLock, storeVars
  <2> QED  BY <2>1, FootingTypes, MirrorKeepsRows DEF NoneCancels, KeepsRow
<1>2. End(c, "refused")
  BY DEF Release
<1>3. CASE ~lock.held \/ lock.exec # target[c]
  <2>1. ~LockedFor(c) /\ (lock' = lock \/ ~lock'.held)
    BY <1>3, FootingTypes DEF Release, ReleaseExecutionLock, Released, MayRelease, LockedFor, HoldsLock,
                              storeVars, TypeOK, LockRow
  <2> QED  BY <1>1, <1>2, <2>1, TidyEnd
<1>4. CASE lock.held /\ lock.exec = target[c]
  BY <1>1, <1>2, <1>4, TidyRelease DEF Release, ReleaseExecutionLock, MayRelease
<1> QED  BY <1>3, <1>4

(* A step that begins is running in the rows before it is in the run; no   *)
(* step has failed then, so the stage still is.                            *)
LEMMA BeginTidy ==
  ASSUME NEW c \in Calls, Footing(c), Begin(c)
  PROVE  Tidy(c)
<1>1. pc[c] = "step" /\ pc[c] \in (Driving \cap InStage) \ Ahead
  BY DEF Begin, At, Driving, InStage, Ahead
<1>2. run[c] \in Run /\ Clean(run[c]) /\ run[c].stage = "running" /\ snap[target[c]].steps = run[c].steps
  BY <1>1, AtLoop, FootingTypes DEF Footing, FitPoint, CleanAt
<1>3. PICK s \in Steps :
        /\ IsNext(run[c], s)
        /\ \/ /\ BeginExecutionAttempt(target[c], ProcOf[c], s)
              /\ GoWith(c, "markRunning",
                        [run[c] EXCEPT !.step = s, !.n = Len(attempts[target[c]][s]) + 1, !.lost = FALSE])
           \/ /\ UNCHANGED storeVars
              /\ GoWith(c, "refusedBegin", [run[c] EXCEPT !.step = s])
  BY DEF Begin
<1>4. run[c].steps[s] \in Open /\ run[c].steps \in [Steps -> StepStatuses]
  BY <1>1, <1>2, <1>3, NextIsOpen DEF Run
<1>5. {"markRunning", "refusedBegin"} \subseteq Keepers \cap Driving \cap InStage \cap Mirrored
      /\ {"markRunning", "refusedBegin"} \cap (AtWork \cup Pausing) = {}
  BY DEF Keepers, Holders, Driving, InStage, Mirrored, AtWork, Pausing
<1>6. CASE /\ BeginExecutionAttempt(target[c], ProcOf[c], s)
           /\ GoWith(c, "markRunning",
                     [run[c] EXCEPT !.step = s, !.n = Len(attempts[target[c]][s]) + 1, !.lost = FALSE])
  <2> DEFINE n == Len(attempts[target[c]][s]) + 1
             m == [run[c] EXCEPT !.step = s, !.n = n, !.lost = FALSE]
             w == RunningSnapshot(target[c], s)
  <2>1. /\ m.rv = run[c].rv /\ m.stage = run[c].stage /\ m.steps = run[c].steps
        /\ m.step = s /\ m.n = n
    BY <1>2 DEF Run
  <2>2. GoWith(c, "markRunning", m)
    BY <1>6
  <2>3. w.steps = [run[c].steps EXCEPT ![s] = "running"]
    BY <1>2 DEF RunningSnapshot
  <2>4. w.stage = "running"
    <3>1. w.stage = StageAfter([run[c].steps EXCEPT ![s] = "running"])
      BY <1>2 DEF RunningSnapshot
    <3>2. [run[c].steps EXCEPT ![s] = "running"][s] = "running"
          /\ \A t \in Steps : [run[c].steps EXCEPT ![s] = "running"][t] # "failed"
      BY <1>2, <1>4 DEF Clean
    <3> QED  BY <3>1, <3>2 DEF StageAfter
  <2>5. UNCHANGED lock /\ snap' = Merged(target[c], w)
    BY <1>6 DEF BeginExecutionAttempt
  <2>6. n \in DOMAIN attempts'[target[c]][s]
    <3>1. attempts[target[c]] \in [Steps -> Seq(Attempt)] /\ attempts[target[c]][s] \in Seq(Attempt)
      BY FootingTypes
    <3>2. PICK a : attempts' = [attempts EXCEPT ![target[c]][s] = Append(@, a)]
      BY <1>6 DEF BeginExecutionAttempt
    <3>3. attempts'[target[c]][s] = Append(attempts[target[c]][s], a)
      BY <3>1, <3>2, FootingTypes DEF TypeOK
    <3> QED  BY <3>1, <3>3
  <2> HIDE DEF n, m, w
  <2>7. snap'[target[c]].stage = w.stage /\ snap'[target[c]].steps = w.steps
    BY <2>5, FootingTypes DEF Merged, Overwritten, TypeOK
  <2>8. StageFits("markRunning", m) /\ InRows("markRunning", m) = [m.steps EXCEPT ![m.step] = "running"]
    BY <1>2, <2>1 DEF StageFits, InRows
  <2>9. HandFits("markRunning", m, attempts'[target[c]])
    BY <1>4, <1>5, <2>1, <2>6 DEF HandFits
  <2>10. MirrorsAs("markRunning", m, snap'[target[c]], attempts'[target[c]])
    BY <1>1, <1>2, <2>1, <2>3, <2>4, <2>7, <2>8, <2>9, AtLoop DEF MirrorsAs
  <2>11. NoneCancels(c)
    BY <1>1, <1>4, <2>3, <2>7, AtLoop DEF NoneCancels
  <2> QED  BY <1>5, <2>2, <2>5, <2>10, <2>11, TidyGo
<1>7. CASE UNCHANGED storeVars /\ GoWith(c, "refusedBegin", [run[c] EXCEPT !.step = s])
  <2> DEFINE m == [run[c] EXCEPT !.step = s]
  <2>1. m.rv = run[c].rv /\ m.stage = run[c].stage /\ m.steps = run[c].steps /\ m.step = s
    BY <1>2 DEF Run
  <2>2. GoWith(c, "refusedBegin", m) /\ UNCHANGED <<lock, snap, attempts>>
    BY <1>7 DEF storeVars
  <2> HIDE DEF m
  <2>3. StageFits("refusedBegin", m) /\ InRows("refusedBegin", m) = m.steps
    BY <1>2, <2>1 DEF StageFits, InRows
  <2>4. HandFits("refusedBegin", m, attempts'[target[c]])
    BY <1>4, <1>5, <2>1 DEF HandFits
  <2>5. MirrorsAs("refusedBegin", m, snap'[target[c]], attempts'[target[c]])
    BY <1>1, <1>2, <2>1, <2>2, <2>3, <2>4, AtLoop DEF MirrorsAs
  <2>6. NoneCancels(c)
    BY <2>2 DEF NoneCancels, KeepsRow
  <2> QED  BY <1>5, <2>2, <2>5, <2>6, TidyGo
<1> QED  BY <1>3, <1>6, <1>7

(* The end of an attempt is in the rows before it is in the run.           *)
LEMMA EndAttemptTidy ==
  ASSUME NEW c \in Calls, Footing(c), Complete(c) \/ FailReported(c) \/ FailThrown(c)
  PROVE  Tidy(c)
<1>1. pc[c] \in (Driving \cap AtWork \cap InStage \cap InHandPoints) \ Ahead
  BY DEF Complete, FailReported, FailThrown, Fail, At, Driving, AtWork, InStage, InHandPoints, Ahead
<1>2. run[c] \in Run /\ run[c].step \in Steps /\ run[c].stage = "running" /\ run[c].rv = "approved"
      /\ snap[target[c]].steps = run[c].steps
  BY <1>1, AtLoop, FootingTypes, HandSound DEF Footing, EngineInv
<1>3. ASSUME NEW l \in {"markCompleted", "markFailed", "markThrown"}, NEW st \in {"completed", "failed"},
             st = "completed" <=> l = "markCompleted", Go(c, l), UNCHANGED lock,
             snap' = Merged(target[c], TerminalSnapshot(target[c], InHand(c), st))
      PROVE  Tidy(c)
  <2>1. /\ snap'[target[c]].stage = snap[target[c]].stage
        /\ snap'[target[c]].steps = [run[c].steps EXCEPT ![run[c].step] = st]
    BY <1>2, <1>3, FootingTypes DEF Merged, Overwritten, TerminalSnapshot, InHand, TypeOK
  <2>2. InRows(l, run[c]) = [run[c].steps EXCEPT ![run[c].step] = st]
    BY <1>3 DEF InRows
  <2>3. /\ l \in Keepers \cap Mirrored
        /\ l \notin {"created", "launch", "started", "reuse", "decide", "refusedBegin", "stageRun"}
        /\ l \notin AtWork \cup Pausing
    BY DEF Keepers, Mirrored, Holders, Driving, AtWork, Pausing
  <2>4. StageFits(l, run[c]) /\ HandFits(l, run[c], attempts'[target[c]])
    BY <1>2, <2>3 DEF StageFits, HandFits
  <2>5. MirrorsAs(l, run[c], snap'[target[c]], attempts'[target[c]])
    BY <1>1, <1>2, <2>1, <2>2, <2>3, <2>4, AtLoop DEF MirrorsAs
  <2>6. NoneCancels(c)
    <3>1. run[c].steps \in [Steps -> StepStatuses]
      BY <1>2 DEF Run
    <3> QED  BY <1>1, <1>3, <2>1, <3>1, AtLoop DEF NoneCancels
  <2> QED  BY <1>3, <2>3, <2>5, <2>6, TidyGo DEF Go
<1>4. CASE GiveUp(c, run[c])
  BY <1>2, <1>4, TidyGiveUp
<1>5. CASE CompleteExecutionAttempt(target[c], InHand(c), run[c].n) /\ Go(c, "markCompleted")
  BY <1>3, <1>5 DEF CompleteExecutionAttempt
<1>6. ASSUME NEW l \in {"markFailed", "markThrown"}, Go(c, l),
             FailExecutionAttempt(target[c], InHand(c), run[c].n)
      PROVE  Tidy(c)
  BY <1>3, <1>6 DEF FailExecutionAttempt
<1> QED  BY <1>4, <1>5, <1>6 DEF Complete, FailReported, FailThrown, Fail

(* A pause is never refused: the rows allow what it writes.                *)
LEMMA MayHold ==
  ASSUME NEW c \in Calls, Footing(c), pc[c] \in Driving, NEW m, m.gs = "paused", m.rv = "pending",
         LegalChange(run[c].stage, m.stage),
         \A s \in Steps : LegalChange(snap[target[c]].steps[s], m.steps[s])
  PROVE  MayPauseBefore(target[c], WriteOf(m))
<1>1. StatusOf(m) # "pending"
  BY DEF StatusOf
<1>2. LegalChange(snap[target[c]].status, StatusOf(m))
  BY <1>1, AtLoop DEF LegalChange
<1> QED  BY <1>2, AtLoop DEF MayPauseBefore, MayPersist, WriteOf

LEMMA PauseBeforeTidy ==
  ASSUME NEW c \in Calls, Footing(c), PauseBefore(c)
  PROVE  Tidy(c)
<1>1. pc[c] = "step" /\ pc[c] \in (Driving \cap InStage) \ Ahead
  BY DEF PauseBefore, At, Driving, InStage, Ahead
<1>2. /\ run[c] \in Run /\ run[c].stage = "running" /\ snap[target[c]].steps = run[c].steps
      /\ run[c].steps \in [Steps -> StepStatuses]
  BY <1>1, AtLoop, FootingTypes DEF Run
<1>3. PICK s \in Steps :
        LET w == WriteOf([Held(Marked(run[c], s, "paused_for_review")) EXCEPT !.stage = "paused_for_review"])
        IN  /\ IsNext(run[c], s)
            /\ \/ PauseBeforeExecutionForReview(target[c], s, w) /\ End(c, "paused")
               \/ ~MayPauseBefore(target[c], w)
  BY DEF PauseBefore
<1> DEFINE m == [Held(Marked(run[c], s, "paused_for_review")) EXCEPT !.stage = "paused_for_review"]
<1>4. /\ m.gs = "paused" /\ m.rv = "pending" /\ m.stage = "paused_for_review"
      /\ m.steps = [run[c].steps EXCEPT ![s] = "paused_for_review"]
  BY <1>2 DEF Held, Marked, Run
<1>5. \/ PauseBeforeExecutionForReview(target[c], s, WriteOf(m)) /\ End(c, "paused")
      \/ ~MayPauseBefore(target[c], WriteOf(m))
  BY <1>3
<1> HIDE DEF m
<1>6. run[c].steps[s] \in Open
  BY <1>1, <1>3, NextIsOpen
<1>7. \A t \in Steps : LegalChange(snap[target[c]].steps[t], m.steps[t]) /\ m.steps[t] # "cancelled"
  <2>1. \A t \in Steps :
          LegalChange(snap[target[c]].steps[t],
                      [snap[target[c]].steps EXCEPT ![s] = "paused_for_review"][t])
    BY <1>2, <1>6, FootingTypes, StepMayChange
  <2>2. \A t \in Steps : [run[c].steps EXCEPT ![s] = "paused_for_review"][t] # "cancelled"
    BY <1>1, <1>2, AtLoop
  <2> QED  BY <1>2, <1>4, <2>1, <2>2
<1>8. MayPauseBefore(target[c], WriteOf(m))
  BY <1>1, <1>2, <1>4, <1>7, MayHold DEF LegalChange
<1>9. PausedForReview(target[c], s, WriteOf(m)) /\ End(c, "paused")
  BY <1>5, <1>8 DEF PauseBeforeExecutionForReview
<1>10. NoneCancels(c)
  BY <1>7, <1>9, CancelsNone DEF PausedForReview, WriteOf
<1> QED  BY <1>1, <1>9, <1>10, AtLoop, TidyRelease DEF PausedForReview

LEMMA PauseTidy ==
  ASSUME NEW c \in Calls, Footing(c), Pause(c)
  PROVE  Tidy(c)
<1>1. pc[c] = "pause" /\ pc[c] \in (Driving \cap Pausing \cap InHandPoints) \ Ahead
  BY DEF Pause, At, Driving, Pausing, InHandPoints, Ahead
<1>2. /\ run[c] \in Run /\ run[c].step \in Steps /\ snap[target[c]].steps = run[c].steps
      /\ run[c].steps[run[c].step] = "paused_for_review"
      /\ run[c].n \in DOMAIN attempts[target[c]][run[c].step]
  BY <1>1, AtLoop, FootingTypes, HandSound DEF Footing, EngineInv, HandFits
<1> DEFINE m == Held(run[c])
<1>3. m.gs = "paused" /\ m.rv = "pending" /\ m.stage = run[c].stage /\ m.steps = run[c].steps
  BY <1>2 DEF Held, Run
<1>4. \/ /\ PauseExecutionAttemptForReview(target[c], InHand(c), run[c].n, WriteOf(m))
         /\ End(c, "paused")
      \/ ~MayPauseAttempt(target[c], InHand(c), run[c].n, WriteOf(m))
  BY DEF Pause
<1> HIDE DEF m
<1>5. MayPauseBefore(target[c], WriteOf(m))
  BY <1>1, <1>2, <1>3, MayHold DEF LegalChange
<1>6. MayPauseAttempt(target[c], InHand(c), run[c].n, WriteOf(m))
  <2>1. StepIsOpen(target[c], InHand(c)) /\ InHand(c) = run[c].step
    BY <1>1, <1>2, AtLoop DEF StepIsOpen, InHand, TerminalExecution, TerminalStep
  <2> QED  BY <1>2, <1>5, <2>1 DEF MayPauseAttempt, MayPauseBefore
<1>7. PausedForReview(target[c], InHand(c), WriteOf(m)) /\ End(c, "paused")
  BY <1>4, <1>6 DEF PauseExecutionAttemptForReview
<1>8. NoneCancels(c)
  BY <1>1, <1>3, <1>7, AtLoop, CancelsNone DEF PausedForReview, WriteOf
<1> QED  BY <1>1, <1>7, <1>8, AtLoop, TidyRelease DEF PausedForReview

(* A step that takes the call on and may take the lock, or give it back.   *)
LEMMA TidyMove ==
  ASSUME NEW c \in Calls, NEW l, NEW m, Footing(c), GoWith(c, l, m), KeepsRow(target[c]), l \in Keepers,
         ~lock'.held \/ LockedFor(c)', MirrorsAs(l, m, snap[target[c]], attempts'[target[c]])
  PROVE  Tidy(c)
<1>1. pc'[c] = l /\ run'[c] = m /\ target'[c] = target[c]
  BY GoneWith
<1>2. MirrorsAs(l, m, snap'[target[c]], attempts'[target[c]])
  BY DEF MirrorsAs, KeepsRow
<1> QED  BY <1>1, <1>2 DEF Tidy, Mirrors, Gives, NoneCancels

LEMMA TakeTidy ==
  ASSUME NEW c \in Calls, Footing(c), Op[c] # "recover", ExecuteAcquire(c) \/ Reuse(c)
  PROVE  Tidy(c)
<1>1. pc[c] \in {"idle", "reuse"} /\ pc[c] \notin Keepers /\ (pc[c] = "reuse" <=> Op[c] # "execute")
  BY DEF ExecuteAcquire, Reuse, At, Keepers, Holders, Driving, Footing, Custody, Deciding
<1>2. PICK l \in {"validate", "decide"} :
        \/ /\ AcquireExecutionLock(target[c], ProcOf[c]) \/ AcquireOrReuseExecutionLock(target[c], ProcOf[c])
           /\ Go(c, l) /\ (l = "decide" => pc[c] = "reuse")
        \/ AcquireConflict(target[c]) /\ End(c, "refused")
  BY DEF ExecuteAcquire, Reuse, AcquireOrReuseConflict, At
<1>3. CASE AcquireConflict(target[c]) /\ End(c, "refused")
  BY <1>1, <1>3, TidyEnd DEF AcquireConflict, NoneCancels, KeepsRow
<1>4. CASE /\ AcquireExecutionLock(target[c], ProcOf[c]) \/ AcquireOrReuseExecutionLock(target[c], ProcOf[c])
           /\ Go(c, l) /\ (l = "decide" => pc[c] = "reuse")
  <2>1. GoWith(c, l, run[c]) /\ KeepsRow(target[c]) /\ UNCHANGED attempts
    BY <1>4, FootingTypes, MirrorKeepsRows DEF AcquireExecutionLock, AcquireOrReuseExecutionLock, Go
  <2>2. LockedFor(c)'
    BY <1>4, <2>1, GoneWith DEF AcquireExecutionLock, AcquireOrReuseExecutionLock, LockedFor, HoldsLock
  <2>3. MirrorsAs(l, run[c], snap[target[c]], attempts[target[c]])
    <3>1. CASE l = "validate"
      BY <3>1 DEF MirrorsAs, Mirrored, Driving
    <3>2. CASE l = "decide"
      <4>1. InRows("decide", run[c]) = InRows("reuse", run[c]) /\ {"decide", "reuse"} \subseteq Mirrored
        BY DEF InRows, Mirrored
      <4>2. StageFits("decide", run[c]) /\ HandFits("decide", run[c], attempts[target[c]])
        BY DEF StageFits, HandFits, InStage, Driving, AtWork, Pausing
      <4> QED  BY <1>4, <3>2, <4>1, <4>2 DEF Footing, Mirrors, MirrorsAs
    <3> QED  BY <3>1, <3>2
  <2>4. l \in Keepers
    BY DEF Keepers, Holders
  <2> QED  BY <2>1, <2>2, <2>3, <2>4, TidyMove
<1> QED  BY <1>2, <1>3, <1>4

(* Distrust of the store keeps the lock until it is released.              *)
LEMMA DistrustTidy ==
  ASSUME NEW c \in Calls, Footing(c), UNCHANGED <<lock, snap>>, DistrustHolder(c)
  PROVE  Tidy(c)
<1>1. PICK l \in {"release", "corrupt"} : \E m : GoWith(c, l, m)
  BY DEF DistrustHolder, Distrust
<1>2. l \in Keepers /\ l \notin Mirrored
  BY DEF Keepers, Mirrored, Driving
<1> QED  BY <1>1, <1>2, TidyAway

LEMMA ReconcileTidy ==
  ASSUME NEW c \in Calls, Footing(c), Reconcile(c)
  PROVE  Tidy(c)
<1>1. pc[c] = "reconcile" /\ Op[c] = "execute" /\ LockedFor(c)
  BY DEF Reconcile, At, Footing, Founded, Custody, Holders
<1>2. {"start", "release"} \subseteq Keepers /\ {"start", "release"} \cap Mirrored = {}
  BY DEF Keepers, Mirrored, Driving
<1>3. CASE (ReconcileResume \/ ReconcileNoop) /\ Go(c, "start")
  BY <1>2, <1>3, TidyAway DEF ReconcileResume, ReconcileNoop, storeVars, Go
<1>4. CASE ReconcileUnlocked /\ Go(c, "release")
  BY <1>2, <1>4, TidyAway DEF ReconcileUnlocked, storeVars, Go
<1>5. CASE ReconcileFails /\ DistrustHolder(c)
  BY <1>5, DistrustTidy DEF ReconcileFails, IntegrityFails
<1>6. CASE (ReconcileToOperator \/ Abandon) /\ Go(c, "start")
  <2>1. lock.exec = target[c] /\ lock' = Released(target[c]) /\ UNCHANGED attempts
        /\ snap' = LeaseMirrored(snap, target[c], NoProc)
    BY <1>1, <1>6 DEF LockedFor, HoldsLock, ReconcileToOperator, QueueRecoveryReview, Abandon,
                      FinalizeExecutionTransition
  <2>2. ~lock'.held /\ KeepsRow(target[c])
    BY <2>1, FootingTypes, MirrorKeepsRows DEF Released, MayRelease, TypeOK, LockRow
  <2>3. MirrorsAs("start", run[c], snap[target[c]], attempts'[target[c]])
    BY <1>2 DEF MirrorsAs
  <2> QED  BY <1>2, <1>6, <2>2, <2>3, TidyMove DEF Go
<1> QED  BY <1>1, <1>3, <1>4, <1>5, <1>6 DEF Reconcile

LEMMA OpeningTidy ==
  ASSUME NEW c \in Calls, Footing(c),
         \/ Corrupt(c) \/ CorruptLog(c) \/ Doubt(c) \/ DoubtLog(c) \/ Validate(c) \/ Start(c)
         \/ RejectLog(c) \/ RejectFailed(c)
  PROVE  Tidy(c)
<1>1. /\ {"corruptLog", "release", "reconcile", "stage"} \subseteq Keepers \ Mirrored
      /\ {"doubtLog", "rejectFailed"} \cap Mirrored = {}
      /\ {"doubt", "doubtLog", "rejectLog", "rejectFailed"} \cap Keepers = {}
  BY DEF Keepers, Holders, Mirrored, Driving
<1>2. NoneCancels(c) \/ snap' # snap
  BY DEF NoneCancels, KeepsRow
<1>3. CASE Corrupt(c) \/ CorruptLog(c)
  <2>1. UNCHANGED <<lock, snap>> /\ \E l \in {"corruptLog", "release"} : GoWith(c, l, run[c])
    BY <1>3 DEF Corrupt, CorruptLog, SetCheckpointStatus, AppendLedgerEvent, Go
  <2> QED  BY <1>1, <2>1, TidyAway
<1>4. CASE Doubt(c) \/ DoubtLog(c) \/ RejectLog(c) \/ RejectFailed(c)
  <2>1. /\ UNCHANGED <<lock, snap>> /\ pc[c] \in {"doubt", "doubtLog", "rejectLog", "rejectFailed"}
        /\ (\E r : End(c, r)) \/ \E l \in {"doubtLog", "rejectFailed"} : GoWith(c, l, run[c])
    BY <1>4 DEF Doubt, DoubtLog, RejectLog, RejectFailed, At, Emits, SetCheckpointStatus,
                AppendLedgerEvent, Go
  <2> QED  BY <1>1, <1>2, <2>1, TidyAway, TidyEnd
<1>5. CASE Validate(c)
  <2>1. UNCHANGED <<lock, snap>> /\ (GoWith(c, "reconcile", run[c]) \/ DistrustHolder(c))
    BY <1>5 DEF Validate, IntegrityHolds, IntegrityFails, Go
  <2> QED  BY <1>1, <2>1, TidyAway, DistrustTidy
<1>6. CASE Start(c)
  <2>1. UNCHANGED <<lock, snap>> /\ \E l \in {"stage", "release"} : GoWith(c, l, run[c])
    BY <1>6 DEF Start, StartExecutionState, storeVars, Go
  <2> QED  BY <1>1, <2>1, TidyAway
<1> QED  BY <1>3, <1>4, <1>5, <1>6

(* The staged run is the execution's first row.                            *)
LEMMA StageIsTidy ==
  ASSUME NEW c \in Calls, Footing(c), Stage(c)
  PROVE  Tidy(c)
<1>1. ~HasRow(target[c])
  BY FootingTypes DEF Stage, At, Footing, Founded, NoRows, HasRow
<1>2. StatusOf(StagedRun) = "paused" /\ StagedRun.stage = "pending" /\ StagedRun.rv = "approved"
      /\ \A s \in Steps : StagedRun.steps[s] = "pending"
  BY StepsAssumption DEF StatusOf, StagedRun, Steps
<1>3. MayPersist(target[c], WriteOf(StagedRun))
  BY <1>1 DEF MayPersist, HasRow, LegalChange
<1>4. "created" \in Keepers \cap Mirrored /\ "created" \notin {"reuse", "decide", "stageRun", "refusedBegin"}
      /\ "created" \notin InStage \cup AtWork \cup Pausing
  BY DEF Keepers, Holders, Mirrored, InStage, Driving, AtWork, Pausing
<1>5. StageFits("created", StagedRun) /\ HandFits("created", StagedRun, attempts[target[c]])
      /\ InRows("created", StagedRun) = StagedRun.steps
  BY <1>2, <1>4 DEF StageFits, HandFits, InRows
<1>6. MirrorsAs("created", StagedRun, WriteOf(StagedRun), attempts[target[c]])
  BY <1>2, <1>4, <1>5 DEF MirrorsAs, WriteOf
<1> QED  BY <1>3, <1>4, <1>6, TidyWrite DEF Stage

(* From there to the loop.                                                 *)
LEMMA LaunchTidy ==
  ASSUME NEW c \in Calls, Footing(c), Admission \subseteq {"runs", "held"},
         Created(c) \/ Launch(c) \/ Started(c)
  PROVE  Tidy(c)
<1>1. pc[c] \in {"created", "launch", "started"} /\ pc[c] \in Keepers \cap Mirrored
  BY DEF Created, Launch, Started, At, Keepers, Holders, Mirrored
<1>2. /\ run[c] \in Run /\ run[c].rv = "approved" /\ run[c].stage = "pending"
      /\ \A s \in Steps : run[c].steps[s] # "cancelled"
      /\ snap[target[c]].stage = run[c].stage /\ snap[target[c]].steps = run[c].steps
      /\ pc[c] \in {"created", "launch"} => snap[target[c]].status = "paused"
  BY <1>1, FootingTypes DEF Footing, Mirrors, MirrorsAs, StageFits, InRows
<1>3. lock.held /\ lock.exec = target[c] /\ LockedFor(c)
  BY <1>1 DEF Footing, Custody, Holders, LockedFor, HoldsLock
<1>4. \A l \in {"launch", "started", "stageRun"} :
        /\ l \in Keepers \cap Mirrored /\ l \notin {"reuse", "decide"}
        /\ \A m : InRows(l, m) = m.steps /\ HandFits(l, m, attempts[target[c]])
                  /\ (m.stage = "pending" => StageFits(l, m))
  BY DEF Keepers, Holders, Mirrored, Driving, InRows, HandFits, StageFits, InStage, AtWork, Pausing
<1>5. CASE Created(c) \/ Started(c)
  <2>1. UNCHANGED <<lock, snap, attempts>>
    BY <1>5 DEF Created, Started, Emits, AppendLedgerEvent
  <2>2. PICK l \in {"launch", "stageRun"} : GoWith(c, l, run[c]) /\ (l = "launch" => pc[c] = "created")
    BY <1>5 DEF Created, Started, Emits, Go, At
  <2>3. MirrorsAs(l, run[c], snap[target[c]], attempts[target[c]])
    BY <1>2, <1>4, <2>2 DEF MirrorsAs
  <2>4. KeepsRow(target[c]) /\ LockedFor(c)'
    BY <1>3, <2>1, <2>2, GoneWith DEF KeepsRow, LockedFor, HoldsLock
  <2> QED  BY <1>4, <2>1, <2>2, <2>3, <2>4, TidyMove
<1>6. CASE Launch(c)
  <2>1. CASE PersistOrEnd(c, [run[c] EXCEPT !.gs = "running"], "started")
    <3> DEFINE m == [run[c] EXCEPT !.gs = "running"]
    <3>1. m.gs = "running" /\ m.rv = run[c].rv /\ m.stage = run[c].stage /\ m.steps = run[c].steps
      BY <1>2 DEF Run
    <3>2. PersistOrEnd(c, m, "started")
      BY <2>1
    <3> HIDE DEF m
    <3>3. MayPersist(target[c], WriteOf(m))
      BY <1>2, <1>6, <3>1 DEF MayPersist, WriteOf, LegalChange, Launch, At
    <3>4. MirrorsAs("started", m, WriteOf(m), attempts[target[c]])
      BY <1>2, <1>4, <3>1 DEF MirrorsAs, WriteOf
    <3> QED  BY <1>4, <3>2, <3>3, <3>4, TidyWrite
  <2>2. CASE PauseExecutionForReview(target[c], WriteOf(Held(run[c]))) /\ End(c, "paused")
    <3>1. Held(run[c]).steps = run[c].steps
      BY <1>2 DEF Held, Run
    <3>2. NoneCancels(c)
      BY <1>2, <2>2, <3>1, CancelsNone DEF PauseExecutionForReview, WriteOf
    <3> QED  BY <1>3, <2>2, <3>2, TidyRelease DEF PauseExecutionForReview
  <2> QED  BY <1>6, <2>1, <2>2 DEF Launch
<1> QED  BY <1>5, <1>6

(* An operator's decision goes on from the rows it was shown.              *)
LEMMA ResumeTidy ==
  ASSUME NEW c \in Calls, Footing(c), Resume(c)
  PROVE  Tidy(c)
<1> DEFINE m == HydratedRun(target[c])
           row == snap[target[c]]
<1>1. m.stage = row.stage /\ m.steps = row.steps
  BY DEF HydratedRun, StagedRun
<1>2. /\ pc[c] = "idle" /\ UNCHANGED <<lock, snap, attempts>> /\ GoWith(c, "reuse", m)
      /\ row.status \in {"paused", "paused_for_review"}
      /\ row.stage \in {"running", "paused_for_review", "pending"}
  BY DEF Resume, At, MayResume, storeVars
<1>3. \A s \in Steps : m.steps[s] # "cancelled"
  BY <1>1, FootingTypes DEF Footing, NoneCancelled
<1> HIDE DEF m, row
<1>4. "reuse" \notin {"created", "launch", "started", "stageRun", "refusedBegin", "markRunning"}
      /\ "reuse" \notin InStage \cup AtWork \cup Pausing /\ InRows("reuse", m) = m.steps
  BY DEF InStage, Driving, AtWork, Pausing, InRows
<1>5. StageFits("reuse", m) /\ HandFits("reuse", m, attempts[target[c]])
  BY <1>4 DEF StageFits, HandFits
<1>6. MirrorsAs("reuse", m, row, attempts[target[c]])
  BY <1>1, <1>2, <1>3, <1>4, <1>5 DEF MirrorsAs
<1>7. pc[c] \notin Keepers /\ NoneCancels(c)
  BY <1>2 DEF Keepers, Holders, Driving, NoneCancels, KeepsRow
<1> QED  BY <1>2, <1>6, <1>7, TidyGo DEF row

LEMMA ApproveTidy ==
  ASSUME NEW c \in Calls, Footing(c), Approve(c)
  PROVE  Tidy(c)
<1>1. pc[c] = "decide" /\ "decide" \in Mirrored
  BY DEF Approve, At, Mirrored
<1>2. /\ run[c] \in Run /\ run[c].steps \in [Steps -> StepStatuses]
      /\ \A s \in Steps : run[c].steps[s] # "cancelled"
      /\ snap[target[c]].stage = run[c].stage /\ snap[target[c]].steps = run[c].steps
      /\ snap[target[c]].status \in {"paused", "paused_for_review"}
      /\ run[c].stage \in {"running", "paused_for_review", "pending"}
  BY <1>1, FootingTypes DEF Footing, Mirrors, MirrorsAs, InRows, Run
<1>3. PICK s \in Steps :
        /\ run[c].steps[s] = "paused_for_review"
        /\ PersistOrEnd(c, [Marked(run[c], s, "pending") EXCEPT !.gs = "running", !.rv = "approved",
                                  !.stage = "running", !.acked = s], "stageRun")
  BY DEF Approve, UnderReview, PausedSteps
<1> DEFINE m == [Marked(run[c], s, "pending") EXCEPT !.gs = "running", !.rv = "approved",
                       !.stage = "running", !.acked = s]
<1>4. /\ m.gs = "running" /\ m.rv = "approved" /\ m.stage = "running"
      /\ m.steps = [run[c].steps EXCEPT ![s] = "pending"]
  BY <1>2 DEF Marked, Run
<1>5. PersistOrEnd(c, m, "stageRun")
  BY <1>3
<1> HIDE DEF m
<1>6. \A t \in Steps : LegalChange(snap[target[c]].steps[t], m.steps[t]) /\ m.steps[t] # "cancelled"
  <2>1. \A t \in Steps : LegalChange(snap[target[c]].steps[t],
                                     [snap[target[c]].steps EXCEPT ![s] = "pending"][t])
    BY <1>2, <1>3, FootingTypes, StepMayChange
  <2>2. \A t \in Steps : [run[c].steps EXCEPT ![s] = "pending"][t] # "cancelled"
    BY <1>2
  <2> QED  BY <1>2, <1>4, <2>1, <2>2
<1>7. MayPersist(target[c], WriteOf(m))
  BY <1>2, <1>4, <1>6 DEF MayPersist, WriteOf, StatusOf, LegalChange
<1>8. /\ "stageRun" \in Keepers \cap Mirrored /\ "stageRun" \notin {"reuse", "decide"}
      /\ StageFits("stageRun", m) /\ HandFits("stageRun", m, attempts[target[c]])
      /\ InRows("stageRun", m) = m.steps
  BY <1>4 DEF Keepers, Holders, Mirrored, Driving, StageFits, HandFits, InRows, InStage, AtWork, Pausing
<1>9. MirrorsAs("stageRun", m, WriteOf(m), attempts[target[c]])
  BY <1>4, <1>6, <1>8 DEF MirrorsAs, WriteOf
<1> QED  BY <1>5, <1>7, <1>8, <1>9, TidyWrite

LEMMA CallTidy ==
  ASSUME NEW c \in Calls, Footing(c), Op[c] \notin {"recover", "reject"}, Admission \subseteq {"runs", "held"},
         CallStep(c) \/ Heartbeat(c)
  PROVE  Tidy(c)
<1>1. CASE Opening(c)
  <2>1. ~(Preflight(c) \/ RecoverState(c) \/ Restage(c) \/ Rehydrate(c) \/ Reject(c))
    BY DEF Preflight, RecoverState, Restage, Rehydrate, Reject, At, Footing, Founded
  <2> QED  BY <1>1, <2>1, TakeTidy, ReconcileTidy, OpeningTidy, StageIsTidy, LaunchTidy, ResumeTidy,
              ApproveTidy DEF Opening
<1>2. CASE Looping(c)
  BY <1>2, StageTidy, HandTidy, BlockTidy, LogTidy, BeginTidy, EndAttemptTidy, PauseBeforeTidy, PauseTidy
     DEF Looping
<1>3. CASE Closing(c)
  BY <1>3, StageTidy, LogTidy, FinalizeTidy, ReleaseTidy DEF Closing
<1> QED  BY <1>1, <1>2, <1>3, HeartbeatTidy DEF CallStep

(* No attempt is ever forgotten.                                           *)
AttemptsGrow ==
    \A e \in Execs, s \in Steps : DOMAIN attempts[e][s] \subseteq DOMAIN attempts'[e][s]

LEMMA StoreGrows ==
  ASSUME TypeOK, [StoreNext]_storeVars
  PROVE  AttemptsGrow
<1>1. \A e \in Execs, s \in Steps : attempts[e][s] \in Seq(Attempt)
  BY DEF TypeOK
<1>2. CASE UNCHANGED attempts
  BY <1>2 DEF AttemptsGrow
<1>3. ASSUME NEW e \in Execs, NEW p \in Procs, NEW s \in Steps, BeginExecutionAttempt(e, p, s)
      PROVE  AttemptsGrow
  <2>1. PICK a : attempts' = [attempts EXCEPT ![e][s] = Append(@, a)]
    BY <1>3 DEF BeginExecutionAttempt
  <2>2. \A f \in Execs, t \in Steps :
          attempts'[f][t] = IF f = e /\ t = s THEN Append(attempts[e][s], a) ELSE attempts[f][t]
    BY <2>1 DEF TypeOK
  <2>3. DOMAIN attempts[e][s] \subseteq DOMAIN Append(attempts[e][s], a)
    BY <1>1
  <2> QED  BY <2>2, <2>3 DEF AttemptsGrow
<1>4. ASSUME NEW e \in Execs, NEW s \in Steps, NEW n, NEW b, attempts' = [attempts EXCEPT ![e][s][n].live = b]
      PROVE  AttemptsGrow
  BY <1>4 DEF AttemptsGrow, TypeOK
<1>5. ASSUME NEW e \in Execs, NEW s \in Steps, NEW n, NEW st, attempts' = AttemptEnded(e, s, n, st)
      PROVE  AttemptsGrow
  BY <1>5 DEF AttemptsGrow, TypeOK, AttemptEnded
<1>6. ASSUME NEW e \in Execs, NEW p \in Procs, NEW s \in Steps, NEW W, AttemptStep(e, p, s, W)
      PROVE  AttemptsGrow
  <2>1. CASE BeginExecutionAttempt(e, p, s)
    BY <1>3, <2>1
  <2>2. ASSUME NEW n, NEW w,
               \/ HeartbeatAttempt(e, p, s, n) \/ AttemptLeaseLapses(e, s, n)
               \/ CompleteExecutionAttempt(e, s, n) \/ FailExecutionAttempt(e, s, n)
               \/ PauseExecutionAttemptForReview(e, s, n, w)
        PROVE  AttemptsGrow
    <3>1. \/ \E b : attempts' = [attempts EXCEPT ![e][s][n].live = b]
          \/ \E st : attempts' = AttemptEnded(e, s, n, st)
      BY <2>2 DEF HeartbeatAttempt, AttemptLeaseLapses, CompleteExecutionAttempt, FailExecutionAttempt,
                  PauseExecutionAttemptForReview
    <3>2. ASSUME NEW b, attempts' = [attempts EXCEPT ![e][s][n].live = b]
          PROVE  AttemptsGrow
      BY <1>4, <3>2
    <3>3. ASSUME NEW st, attempts' = AttemptEnded(e, s, n, st)
          PROVE  AttemptsGrow
      BY <1>5, <3>3
    <3> QED  BY <3>1, <3>2, <3>3
  <2> QED  BY <1>6, <2>1, <2>2 DEF AttemptStep
<1>7. ASSUME NEW e \in Execs, NEW p \in Procs, LockStep(e, p)
      PROVE  AttemptsGrow
  BY <1>2, <1>7 DEF LockStep, AcquireExecutionLock, AcquireConflict, AcquireOrReuseExecutionLock,
                    ReleaseExecutionLock
<1>8. CASE QueueStep
  BY <1>2, <1>8 DEF QueueStep, ExpireRecoveryItems, RecoveryItemDue
<1>9. ASSUME NEW e \in Execs, NEW M, NEW V, NEW W, NEW F, CheckpointStep(e, M, V) \/ RunStep(e, W, F)
      PROVE  AttemptsGrow
  BY <1>2, <1>9
     DEF CheckpointStep, StartExecutionState, SetCheckpointStatus, CompleteCheckpoint,
         AppendLedgerEvent, FinalizeExecutionTransition, ExecutionLeaseLapses, RunStep,
         PersistExecutionSnapshot, PauseBeforeExecutionForReview, FinalizeExecution,
         PauseExecutionForReview
<1> QED  BY <1>2, <1>6, <1>7, <1>8, <1>9 DEF StoreNext, StoreStep, storeVars

(* A call that stays where it is, while another one or time moves.         *)
LEMMA MirrorsStay ==
  ASSUME EngineInv, AttemptsGrow, NEW d \in Calls, Mirrors(d), pc'[d] = pc[d], target'[d] = target[d],
         pc[d] \in Mirrored => KeepsRow(target[d]),
         run'[d] \in {run[d], [run[d] EXCEPT !.live = FALSE]}
  PROVE  Mirrors(d)'
<1> SUFFICES ASSUME pc[d] \in Mirrored
             PROVE  Mirrors(d)'
  BY DEF Mirrors, MirrorsAs
<1>1. run[d] \in Run /\ target[d] \in Execs
  BY DEF EngineInv, EngineTypeOK
<1>2. /\ run'[d].stage = run[d].stage /\ run'[d].steps = run[d].steps /\ run'[d].step = run[d].step
      /\ run'[d].n = run[d].n /\ run'[d].rv = run[d].rv
  BY <1>1 DEF Run
<1>3. MirrorsAs(pc[d], run[d], snap[target[d]], attempts[target[d]]) /\ KeepsRow(target[d])
  BY DEF Mirrors
<1>4. HandFits(pc[d], run'[d], attempts'[target[d]])
  <2>1. HandFits(pc[d], run[d], attempts[target[d]])
    BY <1>3 DEF MirrorsAs
  <2>2. pc[d] \in {"markRunning"} \cup AtWork \cup Pausing => run[d].step \in Steps
    BY HandSound DEF InHandPoints, AtWork, Pausing
  <2> QED  BY <1>1, <1>2, <2>1, <2>2 DEF HandFits, AttemptsGrow
<1>5. StageFits(pc[d], run'[d]) /\ InRows(pc[d], run'[d]) = InRows(pc[d], run[d])
  BY <1>2, <1>3 DEF MirrorsAs, StageFits, InRows
<1>6. MirrorsAs(pc[d], run'[d], snap'[target[d]], attempts'[target[d]])
  BY <1>2, <1>3, <1>4, <1>5 DEF MirrorsAs, KeepsRow
<1> QED  BY <1>6 DEF Mirrors

LEMMA CallKeepsOrderly ==
  ASSUME EngineInv, Orderly, OneFounder, CustodyInv, OrderInv, OrderlyInv, AttemptsGrow,
         NEW c \in Calls, CallStep(c) \/ Heartbeat(c)
  PROVE  OrderlyInv'
<1>1. Footing(c)
  BY DEF Footing, OneFounder, CustodyInv, OrderInv, Fits, OrderlyInv
<1>2. Tidy(c)
  BY <1>1, CallTidy DEF Orderly, Singles, NoRecovery
<1>3. /\ \A d \in Calls \ {c} : pc'[d] = pc[d] /\ target'[d] = target[d] /\ run'[d] = run[d]
      /\ target'[c] = target[c] /\ Footprint(c)
  BY Targets, CallFootprint DEF Orderly, Singles, NoRecovery
<1>4. ASSUME NEW d \in Calls \ {c}
      PROVE  Mirrors(d)'
  <2>1. pc[d] \in Mirrored => Awake(d)
    BY DEF Mirrored, Driving, Awake
  <2>2. pc[c] \in Writers => Awake(c)
    BY DEF Writers, Rowed, Driving, Awake
  <2>3. Awake(d) => KeepsRow(target[d])
    BY <1>3, <2>2 DEF CustodyInv, Alone, Footprint, EngineInv, EngineTypeOK
  <2>4. Mirrors(d)
    BY DEF OrderlyInv
  <2> QED  BY <1>3, <2>1, <2>3, <2>4, MirrorsStay
<1>5. NoneCancelled'
  BY <1>2, <1>3 DEF Tidy, NoneCancels, NoneCancelled, OrderlyInv, Footprint, KeepsRow
<1>6. LockKept'
  <2>1. CASE lock' = lock
    <3> SUFFICES ASSUME lock.held
                 PROVE  \E d \in Calls : pc'[d] \in Keepers /\ LockedFor(d)'
      BY <2>1 DEF LockKept
    <3>1. PICK d \in Calls : pc[d] \in Keepers /\ LockedFor(d)
      BY DEF OrderlyInv, LockKept
    <3>2. LockedFor(d)'
      BY <1>3, <2>1, <3>1 DEF LockedFor, HoldsLock
    <3>3. pc'[d] \in Keepers
      BY <1>2, <1>3, <2>1, <3>1 DEF Tidy, Gives
    <3> QED  BY <3>2, <3>3
  <2>2. CASE lock' # lock
    BY <1>2, <2>2 DEF Tidy, Gives, LockKept
  <2> QED  BY <2>1, <2>2
<1> QED  BY <1>2, <1>4, <1>5, <1>6 DEF OrderlyInv, Tidy

LEMMA TimeKeepsOrderly ==
  ASSUME EngineInv, OrderlyInv, AttemptsGrow, LeaseLapse \/ ItemDue \/ UNCHANGED vars
  PROVE  OrderlyInv'
<1>1. /\ \A d \in Execs : KeepsRow(d)
      /\ UNCHANGED <<lock, target>>
      /\ \A c \in Calls : pc'[c] = "dead"
                          \/ (pc'[c] = pc[c] /\ run'[c] \in {run[c], [run[c] EXCEPT !.live = FALSE]})
  BY TimeFootprint
<1>2. UNCHANGED pc
  BY DEF LeaseLapse, AttemptLapse, RowLapse, CarriedLapse, ItemDue, vars, callVars
<1>3. ASSUME NEW c \in Calls
      PROVE  Mirrors(c)'
  <2>1. CASE pc'[c] = "dead"
    BY <2>1 DEF Mirrors, MirrorsAs, Mirrored, Driving
  <2>2. CASE pc'[c] # "dead"
    BY <1>1, <2>2, MirrorsStay DEF OrderlyInv, EngineInv, EngineTypeOK
  <2> QED  BY <2>1, <2>2
<1>4. LockKept'
  BY <1>1, <1>2 DEF OrderlyInv, LockKept, LockedFor, HoldsLock
<1>5. NoneCancelled'
  BY <1>1 DEF OrderlyInv, NoneCancelled, KeepsRow
<1> QED  BY <1>3, <1>4, <1>5 DEF OrderlyInv

LEMMA OrderlyInit == EngineInit => OrderlyInv
BY DEF EngineInit, StoreInit, NoRow, OrderlyInv, LockKept, NoneCancelled, Mirrors, MirrorsAs,
       Mirrored, Driving

LEMMA OrderlyStep ==
  ASSUME EngineInv, Orderly, OneFounder, CustodyInv, OrderInv, OrderlyInv, [EngineNext]_vars
  PROVE  OrderlyInv'
<1>1. AttemptsGrow
  BY EngineStep, StoreGrows DEF EngineInv
<1>2. ~\E p \in Procs : Crash(p)
  BY DEF Orderly, Crash
<1> QED  BY <1>1, <1>2, CallKeepsOrderly, TimeKeepsOrderly DEF EngineNext

(* What else holds of these calls, from the sections above.                *)
LEMMA OrderlyBase ==
  ASSUME Orderly
  PROVE  EngineSpec => []OneFounder /\ []CustodyInv /\ []OrderInv
<1>1. EngineInit => OneFounder
  BY DEF EngineInit, StoreInit, OneFounder, Founded, AtMostOneExecution, HasRow, NoRows, NoRow,
         Rowed, Driving
<1>2. EngineInv /\ OneFounder /\ [EngineNext]_vars => OneFounder'
  BY FounderStep DEF Orderly, Singles
<1>3. OneFounder => AtMostOneExecution
  BY DEF OneFounder
<1>4. EngineSpec => []CustodyInv
  BY CustodyInvariant DEF Orderly
<1>5. EngineSpec => []OneFounder
  BY <1>1, <1>2, EngineInvariant, PTL DEF EngineSpec
<1>6. EngineSpec => []OrderInv
  BY <1>3, <1>5, OrderInvariant, PTL
<1> QED  BY <1>4, <1>5, <1>6

LEMMA OrderlyInvariant == EngineSpec /\ Orderly => []OrderlyInv
<1>1. ASSUME Orderly PROVE EngineSpec => []OrderlyInv
  <2>1. EngineInv /\ OneFounder /\ CustodyInv /\ OrderInv /\ OrderlyInv /\ [EngineNext]_vars => OrderlyInv'
    BY <1>1, OrderlyStep
  <2>2. EngineSpec => []OneFounder /\ []CustodyInv /\ []OrderInv
    BY <1>1, OrderlyBase
  <2> QED  BY <2>1, <2>2, OrderlyInit, EngineInvariant, PTL DEF EngineSpec
<1> QED  BY <1>1

(* When no call is left at work, whatever failed, was refused, lost its    *)
(* lease or was paused on the way, none has left the plan's lock behind.   *)
THEOREM NoLockLeft == EngineSpec /\ Orderly => []EndsUnlocked
<1>1. OrderlyInv => EndsUnlocked
  BY DEF OrderlyInv, LockKept, Keepers, Holders, Driving, EndsUnlocked, Quiet, Over
<1> QED  BY <1>1, OrderlyInvariant, PTL

-----------------------------------------------------------------------------
(* A step is begun at most once.  A recovery that waits for the workers is *)
(* alone with the plan: it goes on from a checkpoint that every attempt of *)
(* a step is behind, or it gives the plan to the operator.  An approval    *)
(* repeats the step that asked for the review, and two execution ids could *)
(* each begin it, so the theorem is about calls without either. *)

Careful == OneId /\ CarefulRecovery /\ \A c \in Calls : Op[c] # "approve"

(* Points at which an execute has recorded the plan, and calls that may    *)
(* begin a step sooner or later.                                           *)
Staging == {"stage", "created", "launch", "started"}
Laps    == Staging \cup Driving
Working(c) == IF Op[c] = "recover" THEN Awake(c) ELSE pc[c] \in Laps

PointsOf(c) ==
    IF Op[c] = "execute" THEN
        {"idle", "validate", "reconcile", "start", "corrupt", "corruptLog", "release", "done", "dead"} \cup Laps
    ELSE IF Op[c] = "recover" THEN
        Points \ (Staging \cup {"start", "decide", "rejectLog", "rejectFailed"})
    ELSE {"idle", "reuse", "decide", "rejectLog", "rejectFailed", "done", "dead"}

(* The steps that a call at l may yet begin, and those that no execution   *)
(* has attempted.                                                          *)
Taking  == {"reuse", "validate", "reconcile"}
Looking == {"stageRun", "stageLog", "step"}
Trying  == {"markRunning", "tool", "complete", "markCompleted"}
ToBegin(l, m, last) ==
    {s \in Steps :
       \/ l \in Staging
       \/ l \in Looking /\ s \in Pending(m)
       \/ l \in Trying /\ s \in Pending(m) \ {m.step}
       \/ l = "recoverState" /\ s > last
       \/ l \in {"restage", "rehydrate"} /\ s > m.from.last}
Untried(at, e, S) == \A s \in S : at[e][s] = << >>

(* A call at work has untried steps before it, and a recovery does not     *)
(* find the plan under review once it has been allowed.                    *)
WorksOn(c) ==
    /\ pc[c] \in PointsOf(c)
    /\ Untried(attempts, target[c], ToBegin(pc[c], run[c], ckpt.last))
    /\ Op[c] = "recover" /\ pc[c] \in Taking => ckpt.status # "awaiting_review"
    /\ Working(c) => ckpt.status # "none"

(* The checkpoint stands behind every step that has completed, and right   *)
(* behind the one it is running.                                           *)
Standing ==
    /\ ckpt.status # "paused"
    /\ ckpt.status \in {"none", "pending"} => \A e \in Execs : Untried(attempts, e, Steps)
    /\ ckpt.status = "running" => ckpt.cur = ckpt.last + 1
    /\ \A e \in Execs, s \in Steps : Done(attempts, e, s) => s <= ckpt.last

OneWorks == \A c, d \in Calls : Working(c) /\ Working(d) => c = d

AttemptInv == AttemptedOnce /\ Standing /\ OneWorks /\ \A c \in Calls : WorksOn(c)

(* What every step may rely on, and what a step of a call does.            *)
Grounds ==
    /\ Careful /\ EngineInv /\ EngineInv' /\ OnlyNamed /\ OnlyNamed'
    /\ CompletionInv /\ OrderInv /\ OrderInv' /\ AttemptInv

SameLengths == \A e \in Execs, s \in Steps : Len(attempts'[e][s]) = Len(attempts[e][s])
BeginsOwn(c) ==
    /\ pc[c] = "step"
    /\ \E s \in Pending(run[c]) : BeginExecutionAttempt(target[c], ProcOf[c], s)
(* A call that is not at work leaves the others be, and comes to work      *)
(* where it finds nobody.                                                  *)
LetsBe(c) ==
    ~Working(c) =>
      /\ ckpt.status # "none" => ckpt'.last = ckpt.last
      /\ ckpt'.status = "awaiting_review" => ckpt.status = "awaiting_review"
      /\ Working(c)' => ckpt.status = "none" \/ WorkersGone(c)
CarriesOn(c) ==
    /\ pc'[c] \in PointsOf(c)
    /\ Untried(attempts', target'[c], ToBegin(pc'[c], run'[c], ckpt'.last))
    /\ Op[c] = "recover" /\ pc'[c] \in Taking => ckpt'.status # "awaiting_review"
    /\ Working(c)' => Working(c) \/ ckpt'.status # "none"
    /\ SameLengths \/ BeginsOwn(c)
    /\ LetsBe(c)

LEMMA GroundTypes ==
  ASSUME Grounds, NEW c \in Calls
  PROVE  /\ TypeOK /\ TypeOK' /\ run[c] \in Run /\ target[c] \in Execs /\ pc[c] \in PointsOf(c)
         /\ run \in [Calls -> Run] /\ target \in [Calls -> Execs] /\ pc \in [Calls -> Points]
         /\ ckpt \in Checkpoint /\ ckpt' \in Checkpoint
         /\ Op[c] \in {"execute", "recover", "reject"} /\ ProcOf[c] \in Procs
<1>1. TypeOK /\ TypeOK' /\ ckpt \in Checkpoint /\ ckpt' \in Checkpoint
      /\ run \in [Calls -> Run] /\ target \in [Calls -> Execs] /\ pc \in [Calls -> Points]
  BY DEF Grounds, EngineInv, EngineTypeOK, TypeOK
<1>2. pc[c] \in PointsOf(c)
  BY DEF Grounds, AttemptInv, WorksOn
<1>3. Op[c] \in {"execute", "recover", "reject"} /\ ProcOf[c] \in Procs
  BY CallsAssumption DEF Grounds, Careful
<1> QED  BY <1>1, <1>2, <1>3

LEMMA ToBeginIsSteps == \A l, m, last : ToBegin(l, m, last) \subseteq Steps
BY DEF ToBegin

(* Attempts of the same length are of the same steps.                      *)
LEMMA UntriedStays ==
  ASSUME TypeOK, TypeOK', SameLengths, NEW e \in Execs, NEW S \in SUBSET Steps,
         Untried(attempts, e, S)
  PROVE  Untried(attempts', e, S)
<1> SUFFICES ASSUME NEW s \in S PROVE attempts'[e][s] = << >>
  BY DEF Untried
<1>1. attempts[e][s] = << >> /\ attempts'[e][s] \in Seq(Attempt)
  BY DEF Untried, TypeOK
<1>2. Len(attempts'[e][s]) = 0
  BY <1>1 DEF SameLengths
<1> QED  BY <1>1, <1>2

LEMMA SameAttemptLengths ==
  ASSUME UNCHANGED attempts
  PROVE  SameLengths
BY DEF SameLengths

(* A call that goes on with no more before it than it had.                 *)
LEMMA GoesOn ==
  ASSUME Grounds, NEW c \in Calls, SameLengths, target'[c] = target[c], pc'[c] \in PointsOf(c),
         ToBegin(pc'[c], run'[c], ckpt'.last) \subseteq ToBegin(pc[c], run[c], ckpt.last),
         Op[c] = "recover" /\ pc'[c] \in Taking => ckpt'.status # "awaiting_review",
         Working(c)' => Working(c), LetsBe(c)
  PROVE  CarriesOn(c)
<1>1. Untried(attempts, target[c], ToBegin(pc[c], run[c], ckpt.last))
  BY DEF Grounds, AttemptInv, WorksOn
<1>2. Untried(attempts, target[c], ToBegin(pc'[c], run'[c], ckpt'.last))
  BY <1>1 DEF Untried
<1>3. Untried(attempts', target[c], ToBegin(pc'[c], run'[c], ckpt'.last))
  BY <1>2, UntriedStays, ToBeginIsSteps, GroundTypes
<1> QED  BY <1>3 DEF CarriesOn

(* What is known of a call by where it is.                                 *)
LEMMA LapsWork ==
  ASSUME Grounds, NEW c \in Calls, pc[c] \in Laps
  PROVE  Working(c) /\ Op[c] # "reject" /\ (Op[c] = "recover" => pc[c] \in Driving)
         /\ (pc[c] \in Staging => Op[c] = "execute")
BY GroundTypes DEF PointsOf, Laps, Staging, Driving, Working, Awake

(* A call at work goes on, or gives the plan up.                           *)
LEMMA LapGoesOn ==
  ASSUME Grounds, NEW c \in Calls, pc[c] \in Laps, SameLengths, target'[c] = target[c],
         \/ pc'[c] \in {"release", "done"}
         \/ pc'[c] \in Driving
         \/ pc'[c] \in Staging /\ pc[c] \in Staging,
         ToBegin(pc'[c], run'[c], ckpt'.last) \subseteq ToBegin(pc[c], run[c], ckpt.last)
  PROVE  CarriesOn(c)
<1>1. Working(c) /\ Op[c] # "reject" /\ (Op[c] = "recover" => pc[c] \in Driving)
      /\ (pc[c] \in Staging => Op[c] = "execute")
  BY LapsWork
<1>2. pc'[c] \in PointsOf(c)
  BY <1>1, GroundTypes DEF PointsOf, Laps, Staging, Driving, Points
<1>3. pc'[c] \notin Taking
  BY DEF Taking, Staging, Driving
<1> QED  BY <1>1, <1>2, <1>3, GoesOn DEF LetsBe

(* A call stops, or goes on to where it begins no step.                    *)
Resting == {"start", "corrupt", "corruptLog", "doubt", "doubtLog", "release", "decide", "rejectLog",
            "rejectFailed", "reuse", "validate", "reconcile", "done"}
LEMMA Rests ==
  ASSUME Grounds, NEW c \in Calls, SameLengths, target'[c] = target[c],
         pc'[c] \in PointsOf(c) \cap Resting,
         Op[c] = "recover" /\ pc'[c] # "done" => Working(c),
         Op[c] = "recover" /\ pc'[c] \in Taking => ckpt'.status # "awaiting_review",
         LetsBe(c)
  PROVE  CarriesOn(c)
<1>1. ToBegin(pc'[c], run'[c], ckpt'.last) = {}
  BY DEF ToBegin, Resting, Staging, Looking, Trying
<1>2. Working(c)' => Working(c)
  BY DEF Working, Awake, Resting, Laps, Staging, Driving
<1> QED  BY <1>1, <1>2, GoesOn

(* What the writes of a run leave alone, and where they lead.              *)
LEMMA WriteLeads ==
  ASSUME Grounds, NEW c \in Calls, NEW m, NEW l, NEW k,
         PersistOrEnd(c, m, l) \/ PersistOrCatch(c, m, l, k)
  PROVE  /\ SameLengths /\ UNCHANGED <<ckpt, attempts>> /\ target'[c] = target[c]
         /\ \/ pc'[c] = l /\ run'[c] = m
            \/ pc'[c] = k /\ run'[c] = run[c] /\ PersistOrCatch(c, m, l, k)
            \/ pc'[c] = "done"
<1>1. UNCHANGED <<ckpt, attempts>>
  BY DEF PersistOrEnd, PersistOrCatch, Persists, Saves, Throws, PersistExecutionSnapshot, storeVars
<1> QED  BY <1>1, SameAttemptLengths, GroundTypes
         DEF PersistOrEnd, PersistOrCatch, Persists, Throws, GoWith, Go, Carry, End

LEMMA EmitLeads ==
  ASSUME Grounds, NEW c \in Calls, NEW kind, NEW l, Emits(c, kind, l)
  PROVE  /\ SameLengths /\ UNCHANGED <<ckpt, attempts>> /\ target'[c] = target[c]
         /\ pc'[c] = l /\ run'[c] = run[c]
BY SameAttemptLengths, GroundTypes DEF Emits, AppendLedgerEvent, Go, GoWith, Carry

LEMMA GiveUpLeads ==
  ASSUME Grounds, NEW c \in Calls, NEW m, GiveUp(c, m)
  PROVE  /\ SameLengths /\ UNCHANGED <<ckpt, attempts>> /\ target'[c] = target[c]
         /\ pc'[c] \in {"release", "done"}
BY SameAttemptLengths, GroundTypes DEF GiveUp, Go, GoWith, Carry, End, storeVars

LEMMA NothingToBegin ==
  ASSUME NEW l, l \in {"release", "done"} \cup (Driving \ (Looking \cup Trying))
  PROVE  \A m, last : ToBegin(l, m, last) = {}
BY DEF ToBegin, Driving, Staging, Looking, Trying

(* The points of the loop that have a run's steps before them.             *)
LEMMA AtStaging ==
  \A l \in Staging : \A m, last : ToBegin(l, m, last) = Steps
BY DEF ToBegin

LEMMA AtLooking ==
  \A l \in Looking : \A m, last : ToBegin(l, m, last) = Pending(m)
BY DEF ToBegin, Staging, Looking, Trying, Pending

LEMMA AtTrying ==
  \A l \in Trying : \A m, last : ToBegin(l, m, last) = Pending(m) \ {m.step}
BY DEF ToBegin, Staging, Looking, Trying, Pending

LEMMA SamePending ==
  ASSUME NEW m, NEW k, k.steps = m.steps
  PROVE  Pending(k) = Pending(m)
BY DEF Pending

(* To end an attempt, or its lease, adds none.                             *)
LEMMA EndedLengths ==
  ASSUME TypeOK, NEW e \in Execs, NEW s \in Steps, NEW n,
         \/ \E b : attempts' = [attempts EXCEPT ![e][s][n].live = b]
         \/ \E st : attempts' = AttemptEnded(e, s, n, st)
  PROVE  \A d \in Execs, t \in Steps : Len(attempts'[d][t]) = Len(attempts[d][t])
<1>1. \A d \in Execs, t \in Steps : attempts[d][t] \in Seq(Attempt)
  BY DEF TypeOK
<1>2. \A d \in Execs, t \in Steps : d # e \/ t # s => attempts'[d][t] = attempts[d][t]
  <2>1. ASSUME NEW b, attempts' = [attempts EXCEPT ![e][s][n].live = b]
        PROVE  \A d \in Execs, t \in Steps : d # e \/ t # s => attempts'[d][t] = attempts[d][t]
    BY <2>1 DEF TypeOK
  <2>2. ASSUME NEW st, attempts' = AttemptEnded(e, s, n, st)
        PROVE  \A d \in Execs, t \in Steps : d # e \/ t # s => attempts'[d][t] = attempts[d][t]
    BY <2>2 DEF TypeOK, AttemptEnded
  <2> QED  BY <2>1, <2>2
<1>3. Len(attempts'[e][s]) = Len(attempts[e][s])
  <2>1. ASSUME NEW b, attempts' = [attempts EXCEPT ![e][s][n].live = b]
        PROVE  Len(attempts'[e][s]) = Len(attempts[e][s])
    BY <1>1, <2>1 DEF TypeOK
  <2>2. ASSUME NEW st, attempts' = AttemptEnded(e, s, n, st)
        PROVE  Len(attempts'[e][s]) = Len(attempts[e][s])
    <3>1. attempts'[e][s] = [attempts[e][s] EXCEPT ![n].status = st, ![n].live = FALSE]
      BY <2>2 DEF TypeOK, AttemptEnded
    <3> QED  BY <1>1, <3>1
  <2> QED  BY <2>1, <2>2
<1> QED  BY <1>2, <1>3

LEMMA MarkedPending ==
  ASSUME NEW m \in Run, NEW s \in Steps, NEW st \in StepStatuses
  PROVE  /\ Pending(Marked(m, s, st)) \ {s} = Pending(m) \ {s}
         /\ st \in {"completed", "failed"} => Pending(Marked(m, s, st)) = Pending(m) \ {s}
         /\ Marked(m, s, st).step = m.step
<1>1. /\ \A t \in Steps \ {s} : Marked(m, s, st).steps[t] = m.steps[t]
      /\ Marked(m, s, st).steps[s] = st
  BY MarkedFields
<1>2. Marked(m, s, st).step = m.step
  BY DEF Marked, Run
<1> QED  BY <1>1, <1>2 DEF Pending

(* The loop: a stage and its steps, from one write of the run to the next. *)
LEMMA LoopCarriesOn ==
  ASSUME Grounds, NEW c \in Calls,
         \/ StageRun(c) \/ StageLog(c) \/ StageDone(c) \/ BlockStep(c) \/ RefusedBegin(c)
         \/ MarkRunning(c) \/ MarkCompleted(c) \/ MarkFailed(c) \/ MarkThrown(c) \/ MarkPaused(c)
         \/ StagePaused(c) \/ StageFailed(c) \/ StageFailedLog(c) \/ StageDoneLog(c)
  PROVE  CarriesOn(c)
<1>1. run[c] \in Run
  BY GroundTypes
<1>2. pc[c] \in Driving
  BY DEF StageRun, StageLog, StageDone, BlockStep, RefusedBegin, MarkRunning, MarkCompleted,
         MarkFailed, MarkThrown, MarkPaused, StagePaused, StageFailed, StageFailedLog,
         StageDoneLog, At, Driving
<1>3. pc[c] \in Laps
  BY <1>2 DEF Laps
<1>4. ASSUME NEW m, NEW l \in Driving \ (Looking \cup Trying), NEW k \in {"failThrown"},
             PersistOrEnd(c, m, l) \/ PersistOrCatch(c, m, l, k)
      PROVE  CarriesOn(c)
  <2>0. "failThrown" \in Driving \ (Looking \cup Trying)
    BY DEF Driving, Looking, Trying
  <2>1. SameLengths /\ target'[c] = target[c] /\ pc'[c] \in {l, "failThrown", "done"}
    BY <1>4, WriteLeads
  <2>2. ToBegin(pc'[c], run'[c], ckpt'.last) = {}
    BY <2>0, <2>1, NothingToBegin
  <2> QED  BY <1>3, <2>0, <2>1, <2>2, LapGoesOn
<1>5. ASSUME NEW m, NEW l \in Driving, NEW k \in {"failThrown"},
             PersistOrEnd(c, m, l) \/ PersistOrCatch(c, m, l, k),
             \A last : ToBegin(l, m, last) \subseteq ToBegin(pc[c], run[c], ckpt.last)
      PROVE  CarriesOn(c)
  <2>1. /\ SameLengths /\ target'[c] = target[c]
        /\ (pc'[c] = l /\ run'[c] = m) \/ pc'[c] \in {"done", "failThrown"}
    BY <1>5, WriteLeads
  <2>2. "failThrown" \in Driving \ (Looking \cup Trying)
    BY DEF Driving, Looking, Trying
  <2>3. ToBegin(pc'[c], run'[c], ckpt'.last) \subseteq ToBegin(pc[c], run[c], ckpt.last)
    BY <1>5, <2>1, <2>2, NothingToBegin
  <2> QED  BY <1>3, <2>1, <2>2, <2>3, LapGoesOn
<1>6. {"stageDoneLog", "stageFailed", "stagePaused", "pause", "stageFailedLog"}
        \subseteq Driving \ (Looking \cup Trying)
  BY DEF Driving, Looking, Trying
<1>7. CASE StageDone(c) \/ BlockStep(c) \/ RefusedBegin(c) \/ MarkFailed(c) \/ MarkThrown(c)
           \/ MarkPaused(c) \/ StagePaused(c) \/ StageFailed(c)
  <2>1. \E m, l : /\ l \in {"stageDoneLog", "stageFailed", "stagePaused", "pause", "stageFailedLog"}
                  /\ PersistOrEnd(c, m, l) \/ PersistOrCatch(c, m, l, "failThrown")
    BY <1>7 DEF StageDone, BlockStep, RefusedBegin, MarkFailed, MarkThrown, MarkPaused, StagePaused,
                StageFailed
  <2> QED  BY <1>4, <1>6, <2>1
<1>8. CASE StageRun(c)
  <2> DEFINE m == [run[c] EXCEPT !.stage = "running"]
  <2>1. m.steps = run[c].steps
    BY <1>1, OtherFields
  <2>2. PersistOrEnd(c, m, "stageLog") /\ pc[c] = "stageRun"
    BY <1>8 DEF StageRun, At
  <2> HIDE DEF m
  <2>3. "stageLog" \in Driving \cap Looking /\ "stageRun" \in Looking
    BY DEF Driving, Looking
  <2>4. \A last : ToBegin("stageLog", m, last) = ToBegin(pc[c], run[c], ckpt.last)
    BY <2>1, <2>2, <2>3, AtLooking, SamePending
  <2> QED  BY <1>5, <2>2, <2>3, <2>4
<1>9. CASE MarkRunning(c)
  <2> DEFINE m == MarkedInHand(c, "running")
  <2>1. PersistOrEnd(c, m, "tool") /\ pc[c] = "markRunning"
    BY <1>9 DEF MarkRunning, At
  <2>2. InHand(c) \in Steps /\ InHand(c) = run[c].step
    BY <2>1, HandSound DEF InHandPoints, InHand, Grounds
  <2>3. Pending(m) \ {m.step} = Pending(run[c]) \ {run[c].step}
    BY <1>1, <2>2, MarkedPending DEF MarkedInHand, StepStatuses
  <2> HIDE DEF m
  <2>4. "tool" \in Driving \cap Trying /\ "markRunning" \in Trying
    BY DEF Driving, Trying
  <2>5. \A last : ToBegin("tool", m, last) = ToBegin(pc[c], run[c], ckpt.last)
    <3>1. \A last : ToBegin("tool", m, last) = Pending(m) \ {m.step}
      BY <2>4, AtTrying
    <3>2. ToBegin(pc[c], run[c], ckpt.last) = Pending(run[c]) \ {run[c].step}
      BY <2>1, <2>4, AtTrying
    <3> QED  BY <2>3, <3>1, <3>2
  <2> QED  BY <1>5, <2>1, <2>4, <2>5
<1>10. CASE MarkCompleted(c)
  <2> DEFINE m == MarkedInHand(c, "completed")
  <2>1. PersistOrCatch(c, m, "step", "failThrown") /\ pc[c] = "markCompleted"
    BY <1>10 DEF MarkCompleted, At
  <2>2. InHand(c) \in Steps /\ InHand(c) = run[c].step
    BY <2>1, HandSound DEF InHandPoints, InHand, Grounds
  <2>3. Pending(m) = Pending(run[c]) \ {run[c].step}
    BY <1>1, <2>2, MarkedPending DEF MarkedInHand, StepStatuses
  <2> HIDE DEF m
  <2>4. "step" \in Driving \cap Looking /\ "markCompleted" \in Trying
    BY DEF Driving, Looking, Trying
  <2>5. /\ \A last : ToBegin("step", m, last) = Pending(m)
        /\ ToBegin(pc[c], run[c], ckpt.last) = Pending(run[c]) \ {run[c].step}
    <3>1. \A last : ToBegin("step", m, last) = Pending(m)
      BY <2>4, AtLooking
    <3>2. ToBegin(pc[c], run[c], ckpt.last) = Pending(run[c]) \ {run[c].step}
      BY <2>1, <2>4, AtTrying
    <3> QED  BY <3>1, <3>2
  <2> QED  BY <1>5, <2>1, <2>3, <2>4, <2>5
<1>11. CASE StageLog(c) \/ StageFailedLog(c) \/ StageDoneLog(c)
  <2>1. PICK kind, l : /\ Emits(c, kind, l)
                       /\ \/ pc[c] = "stageLog" /\ l = "step"
                          \/ l \in {"finalizeFailed", "finalize"}
    BY <1>11 DEF StageLog, StageFailedLog, StageDoneLog, At
  <2>2. SameLengths /\ target'[c] = target[c] /\ pc'[c] = l /\ run'[c] = run[c]
    BY <2>1, EmitLeads
  <2>3. /\ {"finalizeFailed", "finalize"} \subseteq Driving \ (Looking \cup Trying)
        /\ {"step", "stageLog"} \subseteq Looking \cap Driving
    BY DEF Driving, Looking, Trying
  <2>4. ToBegin(l, run[c], ckpt'.last) \subseteq ToBegin(pc[c], run[c], ckpt.last)
    BY <2>1, <2>3, NothingToBegin, AtLooking
  <2> QED  BY <1>3, <2>1, <2>2, <2>3, <2>4, LapGoesOn
<1> QED  BY <1>7, <1>8, <1>9, <1>10, <1>11

(* The attempt of a step: begun where none was, then ended.                *)
LEMMA BeginCarriesOn ==
  ASSUME Grounds, NEW c \in Calls, Begin(c)
  PROVE  CarriesOn(c)
<1>1. TypeOK /\ run[c] \in Run /\ target[c] \in Execs /\ pc[c] = "step"
  BY GroundTypes DEF Begin, At
<1>2. "step" \in Looking /\ "markRunning" \in Trying /\ pc[c] \in Laps
      /\ "markRunning" \in Driving /\ "refusedBegin" \in Driving \ (Looking \cup Trying)
  BY <1>1 DEF Laps, Driving, Looking, Trying
<1>3. PICK s \in Steps :
        /\ IsNext(run[c], s)
        /\ \/ /\ BeginExecutionAttempt(target[c], ProcOf[c], s)
              /\ GoWith(c, "markRunning",
                        [run[c] EXCEPT !.step = s, !.n = Len(attempts[target[c]][s]) + 1,
                                       !.lost = FALSE])
           \/ /\ UNCHANGED storeVars
              /\ GoWith(c, "refusedBegin", [run[c] EXCEPT !.step = s])
  BY DEF Begin
<1>4. s \in Pending(run[c])
  BY <1>3 DEF IsNext
<1>5. CASE /\ BeginExecutionAttempt(target[c], ProcOf[c], s)
           /\ GoWith(c, "markRunning",
                     [run[c] EXCEPT !.step = s, !.n = Len(attempts[target[c]][s]) + 1,
                                    !.lost = FALSE])
  <2> DEFINE m == [run[c] EXCEPT !.step = s, !.n = Len(attempts[target[c]][s]) + 1, !.lost = FALSE]
  <2>1. m.steps = run[c].steps /\ m.step = s
    BY <1>1 DEF Run
  <2>2. GoWith(c, "markRunning", m)
    BY <1>5
  <2> HIDE DEF m
  <2>3. pc'[c] = "markRunning" /\ run'[c] = m /\ target'[c] = target[c]
    BY <2>2, GroundTypes DEF GoWith, Carry
  <2>4. ToBegin(pc'[c], run'[c], ckpt'.last) = Pending(run[c]) \ {s}
    BY <1>2, <2>1, <2>3, AtTrying, SamePending
  <2>5. Untried(attempts, target[c], Pending(run[c]))
    <3>1. ToBegin(pc[c], run[c], ckpt.last) = Pending(run[c])
      BY <1>1, <1>2, AtLooking
    <3> QED  BY <3>1 DEF Grounds, AttemptInv, WorksOn
  <2>6. \A t \in Steps \ {s} : attempts'[target[c]][t] = attempts[target[c]][t]
    BY <1>1, <1>5 DEF BeginExecutionAttempt, TypeOK
  <2>7. Untried(attempts', target[c], Pending(run[c]) \ {s})
    BY <2>5, <2>6 DEF Untried, Pending
  <2>8. pc'[c] \in PointsOf(c)
    BY <1>2, <2>3, LapsWork, GroundTypes DEF PointsOf, Laps, Driving, Points, Staging
  <2>9. Working(c) /\ pc'[c] \notin Taking
    BY <1>2, <2>3, LapsWork DEF Taking
  <2>10. BeginsOwn(c)
    BY <1>1, <1>4, <1>5 DEF BeginsOwn
  <2> QED  BY <2>3, <2>4, <2>7, <2>8, <2>9, <2>10 DEF CarriesOn, LetsBe
<1>6. CASE UNCHANGED storeVars /\ GoWith(c, "refusedBegin", [run[c] EXCEPT !.step = s])
  <2>1. pc'[c] = "refusedBegin" /\ target'[c] = target[c] /\ UNCHANGED attempts
    BY <1>6, GroundTypes DEF GoWith, Carry, storeVars
  <2>2. ToBegin(pc'[c], run'[c], ckpt'.last) = {}
    BY <1>2, <2>1, NothingToBegin
  <2> QED  BY <1>2, <2>1, <2>2, SameAttemptLengths, LapGoesOn
<1> QED  BY <1>3, <1>5, <1>6

LEMMA TryCarriesOn ==
  ASSUME Grounds, NEW c \in Calls,
         \/ Heartbeat(c) \/ (\E o \in Outcomes : ToolReturns(c, o)) \/ Complete(c)
         \/ FailReported(c) \/ FailThrown(c) \/ Pause(c)
  PROVE  CarriesOn(c)
<1>1. pc[c] \in {"tool", "complete", "fail", "failThrown", "pause"}
  BY DEF Heartbeat, ToolReturns, Complete, FailReported, FailThrown, Fail, Pause, At
<1>2. pc[c] \in InHandPoints /\ pc[c] \in Laps
  BY <1>1 DEF InHandPoints, Laps, Driving
<1>3. TypeOK /\ run[c] \in Run /\ target[c] \in Execs /\ InHand(c) \in Steps
  BY <1>2, GroundTypes, HandSound DEF Grounds
<1>4. /\ {"failThrown", "markPaused", "fail", "markFailed", "markThrown"} \subseteq Driving \ (Looking \cup Trying)
      /\ {"tool", "complete", "markCompleted"} \subseteq Trying \cap Driving
  BY DEF Driving, Looking, Trying
<1>5. ASSUME SameLengths, target'[c] = target[c],
             pc'[c] \in {"failThrown", "markPaused", "fail", "markFailed", "markThrown", "release", "done"}
      PROVE  CarriesOn(c)
  <2>1. ToBegin(pc'[c], run'[c], ckpt'.last) = {}
    BY <1>4, <1>5, NothingToBegin
  <2> QED  BY <1>2, <1>4, <1>5, <2>1, LapGoesOn
<1>6. ASSUME SameLengths, target'[c] = target[c], pc[c] \in {"tool", "complete"},
             pc'[c] \in {"tool", "complete", "markCompleted"},
             run'[c].steps = run[c].steps, run'[c].step = run[c].step
      PROVE  CarriesOn(c)
  <2>1. ToBegin(pc[c], run[c], ckpt.last) = Pending(run[c]) \ {run[c].step}
    BY <1>4, <1>6, AtTrying
  <2>2. ToBegin(pc'[c], run'[c], ckpt'.last) = Pending(run'[c]) \ {run'[c].step}
    BY <1>4, <1>6, AtTrying
  <2>3. Pending(run'[c]) = Pending(run[c])
    BY <1>6, SamePending
  <2> QED  BY <1>2, <1>4, <1>6, <2>1, <2>2, <2>3, LapGoesOn
<1>7. ASSUME NEW st, attempts' = AttemptEnded(target[c], InHand(c), run[c].n, st)
      PROVE  SameLengths
  BY <1>3, <1>7, EndedLengths DEF SameLengths
<1>8. ASSUME NEW m, GiveUp(c, m)
      PROVE  CarriesOn(c)
  BY <1>5, <1>8, GiveUpLeads
<1>9. CASE Heartbeat(c)
  <2>1. PICK b : GoWith(c, "tool", [run[c] EXCEPT !.lost = b])
    BY <1>9 DEF Heartbeat
  <2>2. pc'[c] = "tool" /\ run'[c] = [run[c] EXCEPT !.lost = b] /\ target'[c] = target[c]
    BY <2>1, GroundTypes DEF GoWith, Carry
  <2>3. run'[c].steps = run[c].steps /\ run'[c].step = run[c].step
    BY <1>3, <2>2 DEF Run
  <2>4. SameLengths
    <3>1. CASE UNCHANGED storeVars
      BY <3>1, SameAttemptLengths DEF storeVars
    <3>2. CASE HeartbeatAttempt(target[c], ProcOf[c], InHand(c), run[c].n)
      <4>1. attempts' = [attempts EXCEPT ![target[c]][InHand(c)][run[c].n].live = TRUE]
        BY <3>2 DEF HeartbeatAttempt
      <4> QED  BY <1>3, <4>1, EndedLengths DEF SameLengths
    <3> QED  BY <1>9, <3>1, <3>2 DEF Heartbeat
  <2>5. pc[c] = "tool"
    BY <1>9 DEF Heartbeat, At
  <2> QED  BY <1>6, <2>2, <2>3, <2>4, <2>5
<1>10. ASSUME NEW o \in Outcomes, ToolReturns(c, o)
       PROVE  CarriesOn(c)
  <2>1. pc'[c] \in {"failThrown", "markPaused", "complete", "fail"} /\ run'[c] = run[c]
        /\ target'[c] = target[c] /\ UNCHANGED attempts /\ pc[c] = "tool"
    BY <1>10, GroundTypes DEF ToolReturns, At, Go, GoWith, Carry, storeVars
  <2> QED  BY <1>5, <1>6, <2>1, SameAttemptLengths
<1>11. CASE Complete(c)
  <2>1. CASE CompleteExecutionAttempt(target[c], InHand(c), run[c].n) /\ Go(c, "markCompleted")
    <3>1. SameLengths
      BY <1>7, <2>1 DEF CompleteExecutionAttempt
    <3>2. pc'[c] = "markCompleted" /\ run'[c] = run[c] /\ target'[c] = target[c] /\ pc[c] = "complete"
      BY <1>11, <2>1, GroundTypes DEF Complete, At, Go, GoWith, Carry
    <3> QED  BY <1>6, <3>1, <3>2
  <2> QED  BY <1>8, <1>11, <2>1 DEF Complete
<1>12. CASE FailReported(c) \/ FailThrown(c)
  <2>1. PICK k \in {"markFailed", "markThrown"} :
          \/ FailExecutionAttempt(target[c], InHand(c), run[c].n) /\ Go(c, k)
          \/ GiveUp(c, run[c])
    BY <1>12 DEF FailReported, FailThrown, Fail
  <2>2. CASE FailExecutionAttempt(target[c], InHand(c), run[c].n) /\ Go(c, k)
    <3>1. SameLengths
      BY <1>7, <2>2 DEF FailExecutionAttempt
    <3>2. pc'[c] = k /\ target'[c] = target[c]
      BY <2>2, GroundTypes DEF Go, GoWith, Carry
    <3> QED  BY <1>5, <3>1, <3>2
  <2> QED  BY <1>8, <2>1, <2>2
<1>13. CASE Pause(c)
  <2>1. CASE \E w : PauseExecutionAttemptForReview(target[c], InHand(c), run[c].n, w) /\ End(c, "paused")
    <3>1. SameLengths
      BY <1>7, <2>1 DEF PauseExecutionAttemptForReview
    <3>2. pc'[c] = "done" /\ target'[c] = target[c]
      BY <2>1, GroundTypes DEF End
    <3> QED  BY <1>5, <3>1, <3>2
  <2> QED  BY <1>8, <1>13, <2>1 DEF Pause
<1> QED  BY <1>9, <1>10, <1>11, <1>12, <1>13

(* The end of a plan, and a pause before a step.                           *)
LEMMA CloseCarriesOn ==
  ASSUME Grounds, NEW c \in Calls,
         PauseBefore(c) \/ Finalize(c) \/ FinalizeFailed(c) \/ Release(c)
  PROVE  CarriesOn(c)
<1>1. CASE PauseBefore(c) \/ Finalize(c) \/ FinalizeFailed(c)
  <2>1. pc[c] \in Laps
    BY <1>1 DEF PauseBefore, Finalize, FinalizeFailed, Finalized, At, Laps, Driving
  <2>2. UNCHANGED attempts
    BY <1>1 DEF PauseBefore, PauseBeforeExecutionForReview, Finalize, FinalizeFailed, Finalized,
                FinalizeExecution, GiveUp, storeVars
  <2>3. pc'[c] \in {"release", "done"} /\ target'[c] = target[c]
    BY <1>1, GroundTypes DEF PauseBefore, Finalize, FinalizeFailed, Finalized, GiveUp, End, Go,
                             GoWith, Carry
  <2>4. ToBegin(pc'[c], run'[c], ckpt'.last) = {}
    BY <2>3, NothingToBegin
  <2> QED  BY <2>1, <2>2, <2>3, <2>4, SameAttemptLengths, LapGoesOn
<1>2. CASE Release(c)
  <2>1. UNCHANGED <<ckpt, attempts>> /\ pc'[c] = "done" /\ target'[c] = target[c]
    BY <1>2, GroundTypes DEF Release, ReleaseExecutionLock, End, storeVars
  <2>2. pc'[c] \in PointsOf(c) \cap Resting /\ ~Working(c)'
    BY <2>1, GroundTypes DEF PointsOf, Points, Resting, Working, Awake, Laps, Staging, Driving
  <2> QED  BY <2>1, <2>2, SameAttemptLengths, Rests DEF LetsBe, Taking
<1> QED  BY <1>1, <1>2

(* An execute, up to the loop: it records the plan where nobody had.       *)
LEMMA ExecuteCarriesOn ==
  ASSUME Grounds, NEW c \in Calls,
         ExecuteAcquire(c) \/ Start(c) \/ Stage(c) \/ Created(c) \/ Launch(c) \/ Started(c)
  PROVE  CarriesOn(c)
<1>1. CASE ExecuteAcquire(c)
  <2>1. /\ UNCHANGED <<ckpt, attempts>> /\ pc'[c] \in {"validate", "done"} /\ target'[c] = target[c]
        /\ Op[c] = "execute"
    BY <1>1, GroundTypes DEF ExecuteAcquire, AcquireExecutionLock, AcquireConflict, Go, GoWith, Carry, End
  <2>2. pc'[c] \in PointsOf(c) \cap Resting /\ ~Working(c)'
    BY <2>1 DEF PointsOf, Resting, Working, Laps, Staging, Driving
  <2> QED  BY <2>1, <2>2, SameAttemptLengths, Rests DEF LetsBe
<1>2. CASE Start(c)
  <2>1. pc[c] = "start" /\ Op[c] = "execute"
    BY <1>2, GroundTypes DEF Start, At, PointsOf
  <2>2. CASE StartExecutionState /\ Go(c, "stage")
    <3>1. /\ UNCHANGED attempts /\ pc'[c] = "stage" /\ target'[c] = target[c]
          /\ ckpt.status = "none" /\ ckpt'.status = "pending"
      BY <2>2, GroundTypes DEF StartExecutionState, NoCheckpoint, Go, GoWith, Carry
    <3>2. Untried(attempts', target[c], ToBegin(pc'[c], run'[c], ckpt'.last))
      BY <3>1, ToBeginIsSteps, GroundTypes DEF Grounds, AttemptInv, Standing, Untried
    <3>3. pc'[c] \in PointsOf(c)
      BY <2>1, <3>1 DEF PointsOf, Laps, Staging
    <3> QED  BY <2>1, <3>1, <3>2, <3>3, SameAttemptLengths DEF CarriesOn, LetsBe
  <2>3. CASE UNCHANGED storeVars /\ Go(c, "release")
    <3>1. UNCHANGED <<ckpt, attempts>> /\ pc'[c] = "release" /\ target'[c] = target[c]
      BY <2>3, GroundTypes DEF Go, GoWith, Carry, storeVars
    <3>2. pc'[c] \in PointsOf(c) \cap Resting /\ ~Working(c)'
      BY <2>1, <3>1 DEF PointsOf, Resting, Working, Laps, Staging, Driving
    <3> QED  BY <2>1, <3>1, <3>2, SameAttemptLengths, Rests DEF LetsBe
  <2> QED  BY <1>2, <2>2, <2>3 DEF Start
<1>3. CASE Stage(c) \/ Created(c) \/ Launch(c) \/ Started(c)
  <2>1. pc[c] \in Staging /\ pc[c] \in Laps
    BY <1>3 DEF Stage, Created, Launch, Started, At, Staging, Laps
  <2>2. UNCHANGED attempts /\ target'[c] = target[c]
    <3>1. CASE \E m, l, k : PersistOrEnd(c, m, l) \/ PersistOrCatch(c, m, l, k)
      BY <3>1, WriteLeads
    <3>2. CASE \E kind, l : Emits(c, kind, l)
      BY <3>2, EmitLeads
    <3>3. CASE \E w : PauseExecutionForReview(target[c], w) /\ End(c, "paused")
      BY <3>3 DEF PauseExecutionForReview, End
    <3>4. CASE (UNCHANGED storeVars \/ \E m : Saves(c, m)) /\ End(c, "refused")
      BY <3>4 DEF Saves, PersistExecutionSnapshot, End, storeVars
    <3> QED  BY <1>3, <3>1, <3>2, <3>3, <3>4 DEF Stage, Created, Launch, Started
  <2>3. pc'[c] \in {"created", "launch", "started", "stageRun", "done"}
    BY <1>3, GroundTypes DEF Stage, Created, Launch, Started, PersistOrEnd, Persists, Emits, Go, GoWith,
                             Carry, End
  <2>4. pc'[c] = "done" \/ pc'[c] \in Driving \/ pc'[c] \in Staging
    BY <2>3 DEF Driving, Staging
  <2>5. ToBegin(pc'[c], run'[c], ckpt'.last) \subseteq ToBegin(pc[c], run[c], ckpt.last)
    BY <2>1, AtStaging, ToBeginIsSteps
  <2> QED  BY <2>1, <2>2, <2>4, <2>5, SameAttemptLengths, LapGoesOn
<1> QED  BY <1>1, <1>2, <1>3

(* A failed check: nobody goes on from there.                              *)
LEMMA DistrustLeads ==
  ASSUME Grounds, NEW c \in Calls, DistrustHolder(c)
  PROVE  pc'[c] \in {"release", "corrupt"} /\ target'[c] = target[c]
BY GroundTypes DEF DistrustHolder, Distrust, GoWith, Carry

LEMMA DistrustCarriesOn ==
  ASSUME Grounds, NEW c \in Calls,
         Corrupt(c) \/ CorruptLog(c) \/ Doubt(c) \/ DoubtLog(c) \/ Validate(c)
  PROVE  CarriesOn(c)
<1>1. /\ \/ pc[c] \in {"corrupt", "corruptLog"} /\ pc'[c] \in {"release", "corruptLog"}
         \/ pc[c] \in {"doubt", "doubtLog"} /\ pc'[c] \in {"doubtLog", "done"}
         \/ pc[c] = "validate" /\ pc'[c] \in {"reconcile", "release", "corrupt"} /\ UNCHANGED ckpt
      /\ target'[c] = target[c]
  <2>1. CASE Corrupt(c) \/ CorruptLog(c)
    BY <2>1, GroundTypes DEF Corrupt, CorruptLog, At, Go, GoWith, Carry
  <2>2. CASE Doubt(c) \/ DoubtLog(c)
    BY <2>2, GroundTypes DEF Doubt, DoubtLog, At, Go, GoWith, Carry, End
  <2>3. CASE Validate(c)
    BY <2>3, GroundTypes, DistrustLeads DEF Validate, IntegrityHolds, IntegrityFails, At, Go, GoWith, Carry
  <2> QED  BY <2>1, <2>2, <2>3
<1>2. UNCHANGED attempts /\ (UNCHANGED ckpt \/ SetCheckpointStatus("corrupted"))
  BY DEF Corrupt, CorruptLog, Doubt, DoubtLog, Validate, IntegrityHolds, IntegrityFails,
         AppendLedgerEvent, SetCheckpointStatus
<1>3. ckpt'.last = ckpt.last /\ (ckpt'.status = "awaiting_review" => ckpt.status = "awaiting_review")
  BY <1>2, MarkKeeps, GroundTypes DEF SetCheckpointStatus
<1>4. /\ pc'[c] \in PointsOf(c) \cap Resting
      /\ Op[c] = "recover" => Working(c)
      /\ Op[c] # "recover" => ~Working(c)'
      /\ pc'[c] \in Taking => pc[c] \in Taking
  BY <1>1, GroundTypes DEF PointsOf, Points, Resting, Working, Awake, Laps, Staging, Driving, Taking
<1>5. Op[c] = "recover" /\ pc'[c] \in Taking => ckpt'.status # "awaiting_review"
  BY <1>3, <1>4 DEF Grounds, AttemptInv, WorksOn
<1> QED  BY <1>1, <1>2, <1>3, <1>4, <1>5, SameAttemptLengths, Rests DEF LetsBe

(* A recovery is allowed when everybody else is gone.                      *)
LEMMA PreflightCarriesOn ==
  ASSUME Grounds, NEW c \in Calls, Preflight(c) \/ Reuse(c)
  PROVE  CarriesOn(c)
<1>1. CASE Preflight(c)
  <2>1. Op[c] = "recover" /\ pc[c] = "idle" /\ WorkersGone(c)
    BY <1>1 DEF Preflight, At, Grounds, Careful
  <2>2. UNCHANGED <<ckpt, attempts>>
    BY <1>1 DEF Preflight, PreflightAllows, PreflightFails, PreflightRefuses, IntegrityHolds,
                IntegrityFails, storeVars
  <2>3. /\ pc'[c] \in {"reuse", "doubt", "done"}
        /\ pc'[c] # "done" => ckpt.status # "none"
        /\ pc'[c] = "reuse" => ckpt.status # "awaiting_review"
    BY <1>1, GroundTypes DEF Preflight, PreflightAllows, PreflightFails, NeedsOperator, Distrust,
                             GoWith, Carry, End
  <2>4. ToBegin(pc'[c], run'[c], ckpt'.last) = {}
    BY <2>3 DEF ToBegin, Staging, Looking, Trying
  <2>5. pc'[c] \in PointsOf(c) /\ (pc'[c] \in Taking => pc'[c] = "reuse")
    BY <2>1, <2>3 DEF PointsOf, Points, Staging, Taking
  <2>6. Working(c)' => pc'[c] # "done"
    BY <2>1 DEF Working, Awake
  <2> QED  BY <2>1, <2>2, <2>3, <2>4, <2>5, <2>6, SameAttemptLengths DEF CarriesOn, LetsBe, Untried
<1>2. CASE Reuse(c)
  <2>1. pc[c] = "reuse" /\ Op[c] \in {"recover", "reject"}
    BY <1>2, GroundTypes DEF Reuse, At, PointsOf, Laps, Staging, Driving
  <2>2. UNCHANGED <<ckpt, attempts>> /\ target'[c] = target[c]
        /\ pc'[c] \in {IF Op[c] = "recover" THEN "validate" ELSE "decide", "done"}
    BY <1>2, GroundTypes DEF Reuse, AcquireOrReuseExecutionLock, AcquireOrReuseConflict,
                             AcquireConflict, Go, GoWith, Carry, End
  <2>3. /\ pc'[c] \in PointsOf(c) \cap Resting
        /\ Op[c] = "recover" => Working(c)
        /\ Op[c] # "recover" => ~Working(c)'
        /\ pc[c] \in Taking
    BY <2>1, <2>2 DEF PointsOf, Points, Resting, Working, Awake, Laps, Staging, Driving, Taking
  <2>4. Op[c] = "recover" => ckpt.status # "awaiting_review"
    BY <2>3 DEF Grounds, AttemptInv, WorksOn
  <2> QED  BY <2>2, <2>3, <2>4, SameAttemptLengths, Rests DEF LetsBe
<1> QED  BY <1>1, <1>2

(* A rejection begins nothing.                                             *)
LEMMA RejectCarriesOn ==
  ASSUME Grounds, NEW c \in Calls,
         Resume(c) \/ Approve(c) \/ Reject(c) \/ RejectLog(c) \/ RejectFailed(c)
  PROVE  CarriesOn(c)
<1>1. ~Approve(c) /\ (Resume(c) => Op[c] = "reject")
  BY DEF Approve, Resume, Grounds, Careful
<1>2. Op[c] = "reject"
  BY <1>1, GroundTypes DEF Reject, RejectLog, RejectFailed, At, PointsOf, Laps, Staging, Driving
<1>3. UNCHANGED <<ckpt, attempts>> /\ target'[c] = target[c]
      /\ pc'[c] \in {"reuse", "rejectLog", "rejectFailed", "done"}
  BY <1>1, GroundTypes DEF Resume, Reject, RejectLog, RejectFailed, PersistOrEnd, Persists, Saves,
       Throws, PersistExecutionSnapshot, AppendLedgerEvent, Emits, Go, GoWith, Carry, End, storeVars
<1>4. pc'[c] \in PointsOf(c) \cap Resting /\ ~Working(c)'
  BY <1>2, <1>3 DEF PointsOf, Resting, Working, Laps, Staging, Driving
<1> QED  BY <1>2, <1>3, <1>4, SameAttemptLengths, Rests DEF LetsBe

(* What a recovery that may resume has before it: the lock names the       *)
(* execution it works for, and no step behind the checkpoint's is tried.   *)
LEMMA OneNamed ==
  ASSUME Grounds, NEW d \in NamedByCalls, NEW e \in NamedByCalls
  PROVE  d = e
BY DEF NamedByCalls, Grounds, Careful, OneId

LEMMA ResumeFinds ==
  ASSUME Grounds, NEW c \in Calls, Op[c] = "recover", pc[c] = "reconcile", ReconcileResume
  PROVE  Untried(attempts, target[c], {s \in Steps : s > ckpt.last})
<1>1. ckpt.status \notin {"none", "awaiting_review", "paused"}
  BY DEF Grounds, AttemptInv, WorksOn, Standing, Taking, Working, Awake
<1>2. CASE ckpt.status = "pending"
  BY <1>2, GroundTypes DEF Grounds, AttemptInv, Standing, Untried
<1>3. CASE ckpt.status = "running" /\ ~StartedEvidence(lock.exec, ckpt.cur)
  <2>1. lock.exec = target[c]
    <3>1. lock.held /\ lock.exec \in Execs
      BY DEF ReconcileResume, CanReconcile, Grounds, EngineInv, LockNamed
    <3>2. target[c] \in NamedByCalls /\ lock.exec \in NamedByCalls
      BY <3>1, NullAssumption DEF Grounds, OnlyNamed
    <3> QED  BY <3>2, OneNamed
  <2>2. attempts[target[c]][ckpt.cur] = << >> /\ ckpt.cur = ckpt.last + 1
    BY <1>3, <2>1 DEF StartedEvidence, HasAttempts, Grounds, AttemptInv, Standing
  <2> SUFFICES ASSUME NEW s \in Steps, s > ckpt.last, attempts[target[c]][s] # << >> PROVE FALSE
    BY DEF Untried
  <2>3. ckpt.last + 1 \in Steps /\ ckpt.last + 1 \in 1..s - 1
    BY <2>2, GroundTypes, StepsAssumption DEF Steps, Checkpoint
  <2>4. Done(attempts, target[c], ckpt.last + 1)
    BY <2>3, GroundTypes DEF Grounds, OrderInv, StoreOrder, Sequential
  <2> QED  BY <2>2, <2>4 DEF Done
<1> QED  BY <1>1, <1>2, <1>3 DEF ReconcileResume

LEMMA ReconcileCarriesOn ==
  ASSUME Grounds, NEW c \in Calls, Reconcile(c)
  PROVE  CarriesOn(c)
<1>1. pc[c] = "reconcile" /\ Op[c] \in {"execute", "recover"}
  BY GroundTypes DEF Reconcile, At, PointsOf
<1>2. Op[c] = "recover" => Working(c)
  BY <1>1 DEF Working, Awake
<1>3. ASSUME UNCHANGED attempts, target'[c] = target[c], ckpt'.last = ckpt.last,
             ckpt'.status = "awaiting_review" => ckpt.status = "awaiting_review",
             \/ pc'[c] \in {"release", "corrupt"}
             \/ pc'[c] = "start" /\ Op[c] = "execute"
             \/ pc'[c] = "done"
      PROVE  CarriesOn(c)
  <2>1. pc'[c] \in PointsOf(c) \cap Resting /\ pc'[c] \notin Taking
    BY <1>1, <1>3 DEF PointsOf, Points, Resting, Taking, Staging
  <2>2. Op[c] = "execute" => ~Working(c)'
    BY <1>3 DEF Working, Laps, Staging, Driving
  <2> QED  BY <1>1, <1>2, <1>3, <2>1, <2>2, SameAttemptLengths, Rests DEF LetsBe
<1>4. CASE ReconcileResume /\ Go(c, IF Op[c] = "execute" THEN "start" ELSE "recoverState")
  <2>1. UNCHANGED <<ckpt, attempts>> /\ target'[c] = target[c] /\ run'[c] = run[c]
        /\ pc'[c] = IF Op[c] = "execute" THEN "start" ELSE "recoverState"
    BY <1>4, GroundTypes DEF ReconcileResume, Go, GoWith, Carry, storeVars
  <2>2. CASE Op[c] = "execute"
    BY <1>3, <2>1, <2>2
  <2>3. CASE Op[c] = "recover"
    <3>1. Untried(attempts, target[c], {s \in Steps : s > ckpt.last})
      BY <1>1, <1>4, <2>3, ResumeFinds
    <3>2. ToBegin(pc'[c], run'[c], ckpt'.last) = {s \in Steps : s > ckpt.last}
      BY <2>1, <2>3 DEF ToBegin, Staging, Looking, Trying
    <3>3. pc'[c] \in PointsOf(c) /\ pc'[c] \notin Taking
      BY <2>1, <2>3 DEF PointsOf, Points, Staging, Taking
    <3> QED  BY <1>2, <2>1, <2>3, <3>1, <3>2, <3>3, SameAttemptLengths DEF CarriesOn, LetsBe
  <2> QED  BY <1>1, <2>2, <2>3
<1>5. CASE /\ ReconcileToOperator \/ ReconcileNoop \/ Abandon
           /\ IF Op[c] = "execute" THEN Go(c, "start") ELSE End(c, "refused")
  <2>1. target'[c] = target[c] /\ ((pc'[c] = "start" /\ Op[c] = "execute") \/ pc'[c] = "done")
    BY <1>5, GroundTypes DEF Go, GoWith, Carry, End
  <2>2. /\ UNCHANGED attempts
        /\ \/ UNCHANGED ckpt
           \/ \E st : st # "awaiting_review" /\ ckpt' = [ckpt EXCEPT !.status = st]
    BY <1>5 DEF ReconcileToOperator, ReconcileNoop, Abandon, QueueRecoveryReview,
                FinalizeExecutionTransition, storeVars
  <2>3. ckpt'.last = ckpt.last /\ (ckpt'.status = "awaiting_review" => ckpt.status = "awaiting_review")
    BY <2>2, MarkKeeps, GroundTypes
  <2> QED  BY <1>3, <2>1, <2>2, <2>3
<1>6. CASE \/ ReconcileUnlocked /\ Go(c, "release")
           \/ ReconcileFails /\ DistrustHolder(c)
  <2>1. UNCHANGED <<ckpt, attempts>>
    BY <1>6 DEF ReconcileUnlocked, ReconcileFails, IntegrityFails
  <2>2. target'[c] = target[c] /\ pc'[c] \in {"release", "corrupt"}
    BY <1>6, GroundTypes, DistrustLeads DEF Go, GoWith, Carry
  <2> QED  BY <1>3, <2>1, <2>2
<1> QED  BY <1>4, <1>5, <1>6 DEF Reconcile

(* A recovery that goes on from the checkpoint.                            *)
LEMMA RecoverCarriesOn ==
  ASSUME Grounds, NEW c \in Calls, RecoverState(c) \/ Restage(c) \/ Rehydrate(c)
  PROVE  CarriesOn(c)
<1>1. pc[c] \in {"recoverState", "restage", "rehydrate"} /\ Op[c] = "recover" /\ Working(c)
      /\ run[c] \in Run
  <2>1. pc[c] \in {"recoverState", "restage", "rehydrate"}
    BY DEF RecoverState, Restage, Rehydrate, At
  <2> QED  BY <2>1, GroundTypes DEF PointsOf, Laps, Staging, Driving, Working, Awake
<1>2. ASSUME UNCHANGED attempts, target'[c] = target[c], pc'[c] \in {"release", "done"}
      PROVE  CarriesOn(c)
  <2>1. pc'[c] \in PointsOf(c) \cap Resting /\ pc'[c] \notin Taking
    BY <1>1, <1>2 DEF PointsOf, Points, Resting, Staging, Taking
  <2> QED  BY <1>1, <1>2, <2>1, SameAttemptLengths, Rests DEF LetsBe
<1>3. ASSUME UNCHANGED attempts, target'[c] = target[c], pc'[c] \in {"restage", "rehydrate", "stageRun"},
             ToBegin(pc'[c], run'[c], ckpt'.last) \subseteq ToBegin(pc[c], run[c], ckpt.last)
      PROVE  CarriesOn(c)
  <2>1. pc'[c] \in PointsOf(c) /\ pc'[c] \notin Taking
    BY <1>1, <1>3 DEF PointsOf, Points, Staging, Taking
  <2> QED  BY <1>1, <1>3, <2>1, SameAttemptLengths, GoesOn DEF LetsBe
<1>4. CASE RecoverState(c)
  <2>1. pc[c] = "recoverState" /\ UNCHANGED attempts
    <3>1. pc[c] = "recoverState"
      BY <1>4 DEF RecoverState, At
    <3>2. CompleteCheckpoint \/ SetCheckpointStatus("awaiting_review") \/ UNCHANGED storeVars
      BY <1>4 DEF RecoverState
    <3> QED  BY <3>1, <3>2 DEF CompleteCheckpoint, SetCheckpointStatus, storeVars
  <2>2. CASE Go(c, "release")
    BY <1>2, <2>1, <2>2, GroundTypes DEF Go, GoWith, Carry
  <2>3. CASE GoWith(c, "restage", [run[c] EXCEPT !.from = ckpt])
    <3>1. pc'[c] = "restage" /\ target'[c] = target[c] /\ run'[c].from = ckpt
      BY <1>1, <2>3, GroundTypes DEF GoWith, Carry, Run
    <3>2. ToBegin(pc'[c], run'[c], ckpt'.last) = {s \in Steps : s > ckpt.last}
      BY <3>1 DEF ToBegin, Staging, Looking, Trying
    <3>3. ToBegin(pc[c], run[c], ckpt.last) = {s \in Steps : s > ckpt.last}
      BY <2>1 DEF ToBegin, Staging, Looking, Trying
    <3> QED  BY <1>3, <2>1, <3>1, <3>2, <3>3
  <2> QED  BY <1>4, <2>2, <2>3 DEF RecoverState
<1>5. CASE Restage(c)
  <2> DEFINE m == [run[c] EXCEPT !.gs = "paused", !.owner = NoProc, !.live = FALSE]
  <2>1. pc[c] = "restage"
        /\ ((Saves(c, m) /\ Go(c, "rehydrate")) \/ (UNCHANGED storeVars /\ End(c, "thrown")))
    BY <1>5 DEF Restage, At, Throws
  <2> HIDE DEF m
  <2>2. UNCHANGED attempts
    BY <2>1 DEF Saves, PersistExecutionSnapshot, storeVars
  <2>3. CASE Go(c, "rehydrate")
    <3>1. pc'[c] = "rehydrate" /\ target'[c] = target[c] /\ run'[c] = run[c]
      BY <2>3, GroundTypes DEF Go, GoWith, Carry
    <3>2. ToBegin(pc'[c], run'[c], ckpt'.last) = ToBegin(pc[c], run[c], ckpt.last)
      BY <2>1, <3>1 DEF ToBegin, Staging, Looking, Trying
    <3> QED  BY <1>3, <2>2, <3>1, <3>2
  <2>4. CASE End(c, "thrown")
    BY <1>2, <2>2, <2>4, GroundTypes DEF End
  <2> QED  BY <2>1, <2>3, <2>4
<1>6. CASE Rehydrate(c)
  <2> DEFINE m == CheckpointedRun(run[c])
             rv == IF run[c].from.status = "awaiting_review" THEN "pending" ELSE "approved"
             k == [m EXCEPT !.gs = "paused", !.rv = rv]
  <2>1. pc[c] = "rehydrate"
        /\ ((Saves(c, m) /\ GoWith(c, "stageRun", k)) \/ (UNCHANGED storeVars /\ End(c, "thrown")))
    BY <1>6 DEF Rehydrate, At, Throws
  <2>2. m \in Run
        /\ m.steps = [s \in Steps |-> IF s <= run[c].from.last THEN "completed" ELSE "pending"]
    BY <1>1, CheckpointedType DEF CheckpointedRun, Run
  <2>3. k.steps = m.steps
    <3> HIDE DEF m
    <3> QED  BY <2>2 DEF Run
  <2> HIDE DEF m, k
  <2>4. UNCHANGED attempts
    BY <2>1 DEF Saves, PersistExecutionSnapshot, storeVars
  <2>5. CASE GoWith(c, "stageRun", k)
    <3>1. pc'[c] = "stageRun" /\ target'[c] = target[c] /\ run'[c] = k
      BY <2>5, GroundTypes DEF GoWith, Carry
    <3>2. ToBegin(pc'[c], run'[c], ckpt'.last) = Pending(m)
      BY <2>3, <3>1, AtLooking, SamePending DEF Looking
    <3>3. ToBegin(pc[c], run[c], ckpt.last) = {s \in Steps : s > run[c].from.last}
      BY <2>1 DEF ToBegin, Staging, Looking, Trying
    <3>4. run[c].from.last \in Int
      BY <1>1 DEF Run, Checkpoint
    <3>5. Pending(m) \subseteq {s \in Steps : s > run[c].from.last}
      BY <2>2, <3>4, StepsAssumption DEF Pending, Steps
    <3> QED  BY <1>3, <2>4, <3>1, <3>2, <3>3, <3>5
  <2>6. CASE End(c, "thrown")
    BY <1>2, <2>4, <2>6, GroundTypes DEF End
  <2> QED  BY <2>1, <2>5, <2>6
<1> QED  BY <1>4, <1>5, <1>6

LEMMA CallCarriesOn ==
  ASSUME Grounds, NEW c \in Calls, CallStep(c) \/ Heartbeat(c)
  PROVE  CarriesOn(c)
BY ExecuteCarriesOn, DistrustCarriesOn, PreflightCarriesOn, RejectCarriesOn, ReconcileCarriesOn,
   RecoverCarriesOn, LoopCarriesOn, BeginCarriesOn, TryCarriesOn, CloseCarriesOn
   DEF CallStep, Opening, Looping, Closing

(* What a transaction of the engine's does to the checkpoint while it      *)
(* begins no attempt.                                                      *)
KeepsStanding ==
    /\ ckpt'.status = "paused" => ckpt.status = "paused"
    /\ SameLengths =>
         /\ ckpt'.status \in {"none", "pending"} => ckpt.status \in {"none", "pending"}
         /\ ckpt'.status = "running" =>
              \/ ckpt'.cur = ckpt'.last + 1
              \/ ckpt.status = "running" /\ ckpt'.cur = ckpt.cur /\ ckpt'.last = ckpt.last

LEMMA MarkStanding ==
  ASSUME ckpt'.status \notin {"none", "pending", "paused", "running"}
  PROVE  KeepsStanding
BY DEF KeepsStanding

LEMMA CheckpointStepStanding ==
  ASSUME TypeOK, NEW e \in Execs, CheckpointStep(e, EngineMarks, Kinds)
  PROVE  KeepsStanding
<1>1. CASE \E st \in EngineMarks : ckpt' = [ckpt EXCEPT !.status = st]
  BY <1>1, MarkStanding DEF EngineMarks, TypeOK, Checkpoint
<1>2. CASE StartExecutionState
  BY <1>2 DEF StartExecutionState, NoCheckpoint, KeepsStanding
<1>3. CASE CompleteCheckpoint
  BY <1>3, MarkStanding DEF CompleteCheckpoint, TypeOK, Checkpoint
<1>4. CASE UNCHANGED ckpt
  BY <1>4 DEF KeepsStanding
<1> QED  BY <1>1, <1>2, <1>3, <1>4
         DEF CheckpointStep, SetCheckpointStatus, AppendLedgerEvent, FinalizeExecutionTransition,
             ExecutionLeaseLapses

LEMMA RunStanding ==
  ASSUME TypeOK, NEW e \in Execs, EngineRun(e)
  PROVE  KeepsStanding
<1>1. PICK w \in EngineWrite :
        \/ \E p \in Procs \cup {NoProc}, live \in BOOLEAN : PersistExecutionSnapshot(e, w, p, live)
        \/ \E s \in Steps : PauseBeforeExecutionForReview(e, s, w)
        \/ \E st \in {"completed", "failed"} : FinalizeExecution(e, w, st)
        \/ PauseExecutionForReview(e, w)
  BY DEF EngineRun
<1>2. CASE \E p \in Procs \cup {NoProc}, live \in BOOLEAN : PersistExecutionSnapshot(e, w, p, live)
  BY <1>2 DEF PersistExecutionSnapshot, KeepsStanding
<1>3. CASE \E s \in Steps : PauseBeforeExecutionForReview(e, s, w)
  BY <1>3, MarkStanding
     DEF PauseBeforeExecutionForReview, PausedForReview, CheckpointReview, TypeOK, Checkpoint
<1>4. CASE \E st \in {"completed", "failed"} : FinalizeExecution(e, w, st)
  BY <1>4, MarkStanding DEF FinalizeExecution, TypeOK, Checkpoint
<1>5. CASE PauseExecutionForReview(e, w)
  BY <1>5, MarkStanding DEF PauseExecutionForReview, TypeOK, Checkpoint
<1> QED  BY <1>1, <1>2, <1>3, <1>4, <1>5

LEMMA AttemptStepStanding ==
  ASSUME TypeOK, NEW e \in Execs, NEW p \in Procs, NEW s \in Steps, AttemptStep(e, p, s, EngineWrite)
  PROVE  KeepsStanding
<1>1. CASE BeginExecutionAttempt(e, p, s)
  <2>1. attempts'[e][s] = Append(attempts[e][s], [status |-> "running", live |-> TRUE, proc |-> p])
        /\ attempts[e][s] \in Seq(Attempt)
    BY <1>1 DEF BeginExecutionAttempt, TypeOK
  <2>2. Len(attempts'[e][s]) # Len(attempts[e][s])
    BY <2>1 DEF Attempt, AttemptStatuses
  <2>3. ckpt'.status = "running"
    BY <1>1 DEF BeginExecutionAttempt, CheckpointBefore, TypeOK, Checkpoint
  <2> QED  BY <2>2, <2>3 DEF KeepsStanding, SameLengths
<1>2. ASSUME NEW n \in DOMAIN attempts[e][s], CompleteExecutionAttempt(e, s, n)
      PROVE  KeepsStanding
  <2>1. ckpt' = CheckpointAfter(s)
    BY <1>2 DEF CompleteExecutionAttempt
  <2> QED  BY <2>1 DEF CheckpointAfter, KeepsStanding
<1>3. ASSUME NEW n \in DOMAIN attempts[e][s], FailExecutionAttempt(e, s, n)
      PROVE  KeepsStanding
  BY <1>3, MarkStanding DEF FailExecutionAttempt, CheckpointFailed, TypeOK, Checkpoint
<1>4. ASSUME NEW n \in DOMAIN attempts[e][s], HeartbeatAttempt(e, p, s, n) \/ AttemptLeaseLapses(e, s, n)
      PROVE  KeepsStanding
  BY <1>4 DEF HeartbeatAttempt, AttemptLeaseLapses, KeepsStanding
<1>5. ASSUME NEW n \in DOMAIN attempts[e][s], NEW w \in EngineWrite,
             PauseExecutionAttemptForReview(e, s, n, w)
      PROVE  KeepsStanding
  BY <1>5, MarkStanding
     DEF PauseExecutionAttemptForReview, PausedForReview, CheckpointReview, TypeOK, Checkpoint
<1> QED  BY <1>1, <1>2, <1>3, <1>4, <1>5 DEF AttemptStep

LEMMA EngineStanding ==
  ASSUME TypeOK, Simulates
  PROVE  KeepsStanding
<1>1. CASE QueueStep \/ UNCHANGED storeVars
  BY <1>1 DEF QueueStep, ExpireRecoveryItems, RecoveryItemDue, storeVars, KeepsStanding
<1>2. ASSUME NEW e \in Execs, NEW p \in Procs, LockStep(e, p)
      PROVE  KeepsStanding
  BY <1>2 DEF LockStep, AcquireExecutionLock, AcquireConflict, AcquireOrReuseExecutionLock,
              ReleaseExecutionLock, KeepsStanding
<1> QED  BY <1>1, <1>2, CheckpointStepStanding, RunStanding, AttemptStepStanding
         DEF Simulates, EngineStore

(* A step that has completed is behind the checkpoint: the transaction     *)
(* that completes it moves the checkpoint there, and none moves it back.   *)
LEMMA DoneIsBehind ==
  ASSUME TypeOK, TypeOK', CompletionInv, Standing, [StoreNext]_storeVars, ckpt'.last >= ckpt.last
  PROVE  \A e \in Execs, s \in Steps : Done(attempts', e, s) => s <= ckpt'.last
<1> SUFFICES ASSUME NEW e \in Execs, NEW s \in Steps, Done(attempts', e, s) PROVE s <= ckpt'.last
  OBVIOUS
<1>1. ckpt.last \in Int /\ ckpt'.last \in Int /\ s \in Int
  BY StepsAssumption DEF TypeOK, Checkpoint, Steps
<1>2. Done(attempts, e, s) => s <= ckpt'.last
  BY <1>1 DEF Standing
<1>3. CASE UNCHANGED storeVars
  BY <1>2, <1>3 DEF storeVars
<1>4. CASE NoNewCompletion
  BY <1>2, <1>4 DEF NoNewCompletion, CompletedAttempts, Done
<1>5. ASSUME NEW d \in Execs, NEW t \in Steps, NEW n \in Nat, OneNewCompletion(d, t, n)
      PROVE  s <= ckpt'.last
  <2>1. CASE e = d /\ s = t
    BY <1>1, <1>5, <2>1 DEF OneNewCompletion
  <2>2. CASE e # d \/ s # t
    BY <1>2, <1>5, <2>2 DEF OneNewCompletion, Done
  <2> QED  BY <2>1, <2>2
<1> QED  BY <1>3, <1>4, <1>5, StoreNextCompletions

-----------------------------------------------------------------------------
(* A step of the engine keeps the invariant. *)

(* A call that is not at work has no step before it.                       *)
LEMMA IdleBegins ==
  ASSUME NEW c \in Calls, Op[c] \in {"execute", "recover", "reject"}, pc[c] \in PointsOf(c), ~Working(c)
  PROVE  /\ \A m, last : ToBegin(pc[c], m, last) = {}
         /\ ~(Op[c] = "recover" /\ pc[c] \in Taking)
<1>1. CASE Op[c] = "recover"
  BY <1>1 DEF Working, Awake, ToBegin, Taking, Staging, Looking, Trying
<1>2. CASE Op[c] # "recover"
  <2>1. pc[c] \notin Laps /\ pc[c] \notin {"recoverState", "restage", "rehydrate"}
    BY <1>2 DEF Working, PointsOf, Laps, Staging, Driving
  <2>2. Looking \subseteq Laps /\ Trying \subseteq Laps /\ Staging \subseteq Laps
    BY DEF Looking, Trying, Laps, Driving
  <2>3. pc[c] \notin Looking /\ pc[c] \notin Trying /\ pc[c] \notin Staging
    BY <2>1, <2>2
  <2> QED  BY <1>2, <2>1, <2>3 DEF ToBegin
<1> QED  BY <1>1, <1>2

(* Where nothing is begun, the checkpoint stands where it stood.           *)
LEMMA StandsStill ==
  ASSUME TypeOK, TypeOK', CompletionInv, Standing, Simulates, [StoreNext]_storeVars,
         ckpt'.last >= ckpt.last, SameLengths
  PROVE  Standing'
<1>1. KeepsStanding
  BY EngineStanding
<1>2. ckpt'.status # "paused"
  BY <1>1 DEF KeepsStanding, Standing
<1>3. ASSUME ckpt'.status \in {"none", "pending"}, NEW e \in Execs
      PROVE  Untried(attempts', e, Steps)
  BY <1>1, <1>3, UntriedStays DEF KeepsStanding, Standing
<1>4. ckpt'.status = "running" => ckpt'.cur = ckpt'.last + 1
  BY <1>1 DEF KeepsStanding, Standing
<1>5. \A e \in Execs, s \in Steps : Done(attempts', e, s) => s <= ckpt'.last
  BY DoneIsBehind
<1> QED  BY <1>2, <1>3, <1>4, <1>5 DEF Standing

(* A step that is begun comes right behind the checkpoint, which moves to  *)
(* it, and has no attempt before this one.                                 *)
LEMMA BeginsNext ==
  ASSUME Grounds, NEW c \in Calls, BeginsOwn(c), [StoreNext]_storeVars, ckpt'.last >= ckpt.last
  PROVE  Standing' /\ AttemptedOnce'
<1>1. TypeOK /\ TypeOK' /\ target[c] \in Execs /\ ckpt \in Checkpoint /\ CompletionInv /\ Standing
      /\ AttemptedOnce
  BY GroundTypes DEF Grounds, AttemptInv
<1>2. PICK s \in Pending(run[c]) : BeginExecutionAttempt(target[c], ProcOf[c], s)
  BY DEF BeginsOwn
<1>3. s \in Steps /\ pc[c] = "step"
  BY DEF BeginsOwn, Pending
<1>4. attempts[target[c]][s] = << >>
  <2>1. ToBegin(pc[c], run[c], ckpt.last) = Pending(run[c])
    BY <1>3, AtLooking DEF Looking
  <2> QED  BY <2>1, <1>2 DEF Grounds, AttemptInv, WorksOn, Untried
<1> DEFINE a == [status |-> "running", live |-> TRUE, proc |-> ProcOf[c]]
<1>5. /\ attempts' = [attempts EXCEPT ![target[c]][s] = Append(@, a)]
      /\ ckpt' = [ckpt EXCEPT !.status = "running", !.cur = s]
      /\ StepIsOpen(target[c], s)
  BY <1>2 DEF BeginExecutionAttempt, CheckpointBefore, MayBegin
<1> HIDE DEF a
<1>6. attempts'[target[c]][s] = << a >>
      /\ \A e \in Execs, t \in Steps : e # target[c] \/ t # s => attempts'[e][t] = attempts[e][t]
  BY <1>1, <1>3, <1>4, <1>5 DEF TypeOK
<1>7. AttemptedOnce'
  <2> SUFFICES ASSUME NEW e \in Execs, NEW t \in Steps PROVE Len(attempts'[e][t]) <= 1
    BY DEF AttemptedOnce
  <2>1. CASE e = target[c] /\ t = s
    <3>1. Len(<< a >>) = 1
      OBVIOUS
    <3>2. attempts'[e][t] = << a >>
      BY <1>6, <2>1
    <3>3. Len(attempts'[e][t]) = 1
      BY <3>1, <3>2, Zenon
    <3> QED  BY <3>3
  <2>2. CASE e # target[c] \/ t # s
    BY <1>1, <1>6, <2>2 DEF AttemptedOnce
  <2> QED  BY <2>1, <2>2
<1>8. ckpt'.status = "running" /\ ckpt'.cur = s /\ ckpt'.last = ckpt.last /\ ckpt.last \in Int /\ s \in Int
      /\ ckpt.last >= 0
  BY <1>1, <1>3, <1>5, StepsAssumption DEF Checkpoint, Steps
<1>9. \A e \in Execs, t \in Steps : Done(attempts', e, t) => t <= ckpt'.last
  BY <1>1, DoneIsBehind
<1>10. s > ckpt.last
  <2> SUFFICES ASSUME s \in 1..ckpt.last PROVE FALSE
    BY <1>3, <1>8 DEF Steps
  <2>1. snap[target[c]].status # "none"
    BY <1>5 DEF StepIsOpen
  <2>2. Done(attempts, target[c], s)
    BY <1>1, <2>1 DEF Grounds, OrderInv, StoreOrder, CheckpointTrue
  <2> QED  BY <1>4, <2>2 DEF Done
<1>11. s <= ckpt.last + 1
  <2>1. CASE s = 1
    BY <1>8, <2>1
  <2>2. CASE s # 1
    <3>1. s - 1 \in 1..s - 1 /\ s - 1 \in Steps
      BY <1>3, <2>2, StepsAssumption DEF Steps
    <3>2. attempts'[target[c]][s] # << >>
      BY <1>6
    <3>3. Done(attempts', target[c], s - 1)
      BY <1>1, <1>3, <3>1, <3>2 DEF Grounds, OrderInv, StoreOrder, Sequential
    <3> QED  BY <1>1, <1>8, <1>9, <3>1, <3>3
  <2> QED  BY <2>1, <2>2
<1>12. Standing'
  BY <1>8, <1>9, <1>10, <1>11 DEF Standing
<1> QED  BY <1>7, <1>12

(* What a call leaves of the others, and of itself.                        *)
LEMMA OthersWorkOn ==
  ASSUME Grounds, NEW c \in Calls, NEW d \in Calls, c # d, CarriesOn(c), Footprint(c),
         pc'[d] = pc[d], target'[d] = target[d], run'[d] = run[d]
  PROVE  WorksOn(d)'
<1>1. /\ Op[d] \in {"execute", "recover", "reject"} /\ pc[d] \in PointsOf(d) /\ target[d] \in Execs
      /\ TypeOK /\ TypeOK'
  BY GroundTypes
<1>2. WorksOn(d) /\ OneWorks
  BY DEF Grounds, AttemptInv
<1>3. Working(d)' => ckpt'.status # "none"
  BY <1>2 DEF Working, Awake, WorksOn, Footprint
<1>4. CASE ~Working(d)
  <2>1. ToBegin(pc[d], run[d], ckpt'.last) = {} /\ ~(Op[d] = "recover" /\ pc[d] \in Taking)
    BY <1>1, <1>4, IdleBegins
  <2>2. Untried(attempts', target[d], {})
    BY DEF Untried
  <2> QED  BY <1>1, <1>3, <2>1, <2>2 DEF WorksOn, PointsOf
<1>5. CASE Working(d)
  <2>1. ~Working(c) /\ ckpt.status # "none"
    BY <1>2, <1>5 DEF OneWorks, WorksOn
  <2>2. pc[c] # "step"
    BY <2>1, LapsWork DEF Laps, Driving
  <2>3. SameLengths
    BY <2>2 DEF CarriesOn, BeginsOwn
  <2>4. ckpt'.last = ckpt.last /\ (ckpt'.status = "awaiting_review" => ckpt.status = "awaiting_review")
    BY <2>1 DEF CarriesOn, LetsBe
  <2>5. Untried(attempts, target[d], ToBegin(pc[d], run[d], ckpt.last))
    BY <1>2 DEF WorksOn
  <2>6. Untried(attempts', target[d], ToBegin(pc[d], run[d], ckpt.last))
    BY <1>1, <2>3, <2>5, UntriedStays, ToBeginIsSteps
  <2> QED  BY <1>1, <1>2, <1>3, <2>4, <2>6 DEF WorksOn, PointsOf
<1> QED  BY <1>4, <1>5

LEMMA CallKeepsAttempts ==
  ASSUME Grounds, NEW c \in Calls, CallStep(c) \/ Heartbeat(c), Simulates, [StoreNext]_storeVars,
         ckpt'.last >= ckpt.last
  PROVE  AttemptInv'
<1>1. CarriesOn(c) /\ Footprint(c)
  BY CallCarriesOn, CallFootprint DEF Grounds
<1>2. \A d \in Calls \ {c} : pc'[d] = pc[d] /\ target'[d] = target[d] /\ run'[d] = run[d]
  BY Targets DEF Grounds
<1>3. TypeOK /\ TypeOK' /\ CompletionInv /\ AttemptInv
  BY GroundTypes DEF Grounds
<1>4. Standing' /\ AttemptedOnce'
  <2>1. CASE SameLengths
    BY <1>3, <2>1, StandsStill DEF AttemptInv, AttemptedOnce, SameLengths
  <2> QED  BY <1>1, <2>1, BeginsNext DEF CarriesOn
<1>5. ASSUME NEW d \in Calls PROVE WorksOn(d)'
  <2>1. CASE d = c
    BY <1>1, <1>3, <2>1 DEF CarriesOn, Footprint, WorksOn, AttemptInv, PointsOf
  <2>2. CASE d # c
    BY <1>1, <1>2, <2>2, OthersWorkOn
  <2> QED  BY <2>1, <2>2
<1>6. OneWorks'
  <2>1. \A d \in Calls \ {c} : Working(d)' => Working(d)
    BY <1>2 DEF Working, Awake
  <2>2. ASSUME NEW d \in Calls \ {c}, Working(c)', Working(d)
        PROVE  FALSE
    <3>1. ~Working(c) /\ ckpt.status # "none"
      BY <1>3, <2>2 DEF AttemptInv, OneWorks, WorksOn
    <3>2. WorkersGone(c)
      BY <1>1, <2>2, <3>1 DEF CarriesOn, LetsBe
    <3>3. pc[d] \in {"idle", "done", "dead"}
      BY <3>2 DEF WorkersGone
    <3> QED  BY <2>2, <3>3 DEF Working, Awake, Laps, Staging, Driving
  <2> SUFFICES ASSUME NEW a \in Calls, NEW b \in Calls, Working(a)', Working(b)' PROVE a = b
    BY DEF OneWorks
  <2>3. CASE a # c /\ b # c
    BY <1>3, <2>1, <2>3 DEF AttemptInv, OneWorks
  <2>4. CASE a = c \/ b = c
    BY <2>1, <2>2, <2>4
  <2> QED  BY <2>3, <2>4
<1> QED  BY <1>4, <1>5, <1>6 DEF AttemptInv

(* Crashes and the passing of time begin nothing and end only work.        *)
LEMMA TimeLengths ==
  ASSUME TypeOK, (\E p \in Procs : Crash(p)) \/ LeaseLapse \/ ItemDue \/ UNCHANGED vars
  PROVE  SameLengths
<1>1. CASE AttemptLapse
  BY <1>1, EndedLengths DEF AttemptLapse, AttemptLeaseLapses, SameLengths
<1>2. CASE ~AttemptLapse
  <2>1. UNCHANGED attempts
    BY <1>2 DEF Crash, LeaseLapse, RowLapse, ExecutionLeaseLapses, CarriedLapse, ItemDue,
                RecoveryItemDue, vars, storeVars
  <2> QED  BY <2>1, SameAttemptLengths
<1> QED  BY <1>1, <1>2

LEMMA TimeKeepsAttempts ==
  ASSUME Grounds, (\E p \in Procs : Crash(p)) \/ LeaseLapse \/ ItemDue \/ UNCHANGED vars,
         Simulates, [StoreNext]_storeVars, ckpt'.last >= ckpt.last
  PROVE  AttemptInv'
<1>1. /\ UNCHANGED <<ckpt, target>>
      /\ \A c \in Calls :
           \/ pc'[c] = "dead"
           \/ pc'[c] = pc[c] /\ run'[c] \in {run[c], [run[c] EXCEPT !.live = FALSE]}
  BY TimeFootprint DEF Grounds
<1>2. TypeOK /\ TypeOK' /\ CompletionInv /\ AttemptInv
  BY DEF Grounds, EngineInv
<1>3. SameLengths
  BY <1>2, TimeLengths
<1>4. Standing' /\ AttemptedOnce'
  BY <1>2, <1>3, StandsStill DEF AttemptInv, AttemptedOnce, SameLengths
<1>5. ASSUME NEW c \in Calls PROVE WorksOn(c)' /\ (Working(c)' => Working(c))
  <2>0. /\ run[c] \in Run /\ target[c] \in Execs /\ pc[c] \in PointsOf(c) /\ WorksOn(c)
        /\ Op[c] \in {"execute", "recover", "reject"}
    BY <1>2, <1>5, GroundTypes DEF AttemptInv
  <2>1. CASE pc'[c] = "dead"
    <3>1. ToBegin(pc'[c], run'[c], ckpt'.last) = {} /\ ~Working(c)' /\ pc'[c] \notin Taking
      BY <2>1 DEF ToBegin, Staging, Looking, Trying, Working, Awake, Laps, Driving, Taking
    <3>2. Untried(attempts', target'[c], {})
      BY DEF Untried
    <3>3. pc'[c] \in PointsOf(c)
      BY <2>0, <2>1 DEF PointsOf, Points, Staging
    <3> QED  BY <3>1, <3>2, <3>3 DEF WorksOn, PointsOf
  <2>2. CASE pc'[c] = pc[c] /\ run'[c] \in {run[c], [run[c] EXCEPT !.live = FALSE]}
    <3>1. run'[c].steps = run[c].steps /\ run'[c].step = run[c].step /\ run'[c].from = run[c].from
      BY <2>0, <2>2 DEF Run
    <3>2. Pending(run'[c]) = Pending(run[c])
      BY <3>1, SamePending
    <3>3. ToBegin(pc'[c], run'[c], ckpt'.last) = ToBegin(pc[c], run[c], ckpt.last)
      BY <1>1, <2>2, <3>1, <3>2 DEF ToBegin
    <3>4. Untried(attempts, target[c], ToBegin(pc[c], run[c], ckpt.last))
      BY <2>0 DEF WorksOn
    <3>5. Untried(attempts', target[c], ToBegin(pc[c], run[c], ckpt.last))
      BY <1>2, <1>3, <2>0, <3>4, UntriedStays, ToBeginIsSteps
    <3>6. Working(c)' <=> Working(c)
      BY <2>2 DEF Working, Awake
    <3> QED  BY <1>1, <2>0, <2>2, <3>3, <3>5, <3>6 DEF WorksOn, PointsOf
  <2> QED  BY <1>1, <2>1, <2>2
<1>6. OneWorks'
  BY <1>2, <1>5 DEF AttemptInv, OneWorks
<1> QED  BY <1>4, <1>5, <1>6 DEF AttemptInv

LEMMA AttemptInit == EngineInit /\ Careful => AttemptInv
<1> SUFFICES ASSUME EngineInit, Careful PROVE AttemptInv
  OBVIOUS
<1>1. /\ ckpt = NoCheckpoint /\ \A c \in Calls : pc[c] = "idle"
      /\ \A e \in Execs, s \in Steps : attempts[e][s] = << >>
  BY DEF EngineInit, StoreInit
<1>2. Standing /\ AttemptedOnce
  BY <1>1 DEF Standing, AttemptedOnce, NoCheckpoint, Untried, Done
<1>3. ASSUME NEW c \in Calls PROVE WorksOn(c) /\ ~Working(c)
  <2>1. Op[c] \in {"execute", "recover", "reject"} /\ pc[c] = "idle"
    BY <1>1, CallsAssumption DEF Careful
  <2>2. ~Working(c) /\ pc[c] \in PointsOf(c) /\ pc[c] \notin Taking
    BY <2>1 DEF Working, Awake, Laps, Staging, Driving, PointsOf, Points, Taking
  <2>3. Untried(attempts, target[c], {})
    BY DEF Untried
  <2>4. ToBegin(pc[c], run[c], ckpt.last) = {}
    BY <2>1, <2>2, IdleBegins
  <2> QED  BY <2>2, <2>3, <2>4 DEF WorksOn
<1>4. OneWorks
  BY <1>3 DEF OneWorks
<1> QED  BY <1>2, <1>3, <1>4 DEF AttemptInv

LEMMA AttemptStepKeeps ==
  ASSUME Careful, EngineInv, OnlyNamed, CompletionInv, OrderInv, AtMostOneExecution,
         AtMostOneExecution', AttemptInv, [EngineNext]_vars
  PROVE  AttemptInv'
<1>1. EngineInv' /\ Simulates /\ [StoreNext]_storeVars
  BY EngineStep
<1>2. OnlyNamed'
  BY NamedStep
<1>3. OrderInv' /\ ckpt'.last >= ckpt.last
  BY OrderStep
<1>4. Grounds
  BY <1>1, <1>2, <1>3 DEF Grounds
<1> QED  BY <1>1, <1>3, <1>4, CallKeepsAttempts, TimeKeepsAttempts DEF EngineNext

LEMMA AttemptInvariant == EngineSpec /\ Careful => []AttemptInv
<1>1. ASSUME Careful PROVE EngineSpec => []AttemptInv
  <2>1. EngineInit => OnlyNamed
    BY DEF EngineInit, StoreInit, OnlyNamed, NamedByCalls, NoRow
  <2>2. EngineInv /\ OnlyNamed /\ [EngineNext]_vars => OnlyNamed'
    BY NamedStep
  <2>3. EngineSpec => []AtMostOneExecution
    BY <1>1, OneExecutionHasRows DEF Careful
  <2>4. EngineSpec => []CompletionInv
    BY EngineImplementsStore, CompletionInvariant, PTL
  <2>5. EngineSpec => []OrderInv
    BY <2>3, OrderInvariant, PTL
  <2>6. EngineInit => AttemptInv
    BY <1>1, AttemptInit
  <2>7. EngineInv /\ OnlyNamed /\ CompletionInv /\ OrderInv /\ AtMostOneExecution
        /\ AtMostOneExecution' /\ AttemptInv /\ [EngineNext]_vars => AttemptInv'
    BY <1>1, AttemptStepKeeps
  <2> QED  BY <2>1, <2>2, <2>3, <2>4, <2>5, <2>6, <2>7, EngineInvariant, PTL DEF EngineSpec
<1> QED  BY <1>1

(* Whatever crashes and stalls, executions, recoveries that wait for the   *)
(* workers to be gone and rejections begin no step a second time: what a   *)
(* recovery cannot tell untried it gives to the operator                   *)
(* (reconcileExecutionState's recovery_ambiguous).                         *)
THEOREM BegunAtMostOnce == EngineSpec /\ Careful => []AttemptedOnce
<1>1. AttemptInv => AttemptedOnce
  BY DEF AttemptInv
<1> QED  BY <1>1, AttemptInvariant, PTL

(* No two of these calls, crashed workers, recoveries and rejections       *)
(* included, drive the plan's steps at once: a recovery comes to the plan  *)
(* when nobody is left at work.                                            *)
THEOREM OneCarefulDrives == EngineSpec /\ Careful => []OneDriver
<1>1. OneWorks => OneDriver
  <2> SUFFICES ASSUME OneWorks PROVE OneDriver
    OBVIOUS
  <2> DEFINE D == {c \in Calls : pc[c] \in Driving}
  <2>1. \A c \in D : Working(c)
    BY DEF Working, Awake, Laps, Driving
  <2>2. \A c, d \in D : c = d
    BY <2>1 DEF OneWorks
  <2>3. Cardinality(D) <= 1
    <3>1. CASE D = {}
      BY <3>1, FS_EmptySet
    <3>2. CASE D # {}
      <4>1. PICK c \in D : TRUE
        BY <3>2
      <4>2. D = {c}
        BY <2>2, <4>1
      <4> QED  BY <4>2, FS_Singleton
    <3> QED  BY <3>1, <3>2
  <2> QED  BY <2>3 DEF OneDriver
<1>2. AttemptInv => OneWorks
  BY DEF AttemptInv
<1> QED  BY <1>1, <1>2, AttemptInvariant, PTL

-----------------------------------------------------------------------------
(* A plan that is over is settled: under the hypothesis on which no lock   *)
(* is left behind, nothing refuses the end of an attempt, the close of an  *)
(* execution, or the start of a plan by the client that holds its lock.    *)

(* Points at which an execute has the lock and has recorded nothing.       *)
Beginning == {"validate", "reconcile", "start"}

(* Before the plan has a checkpoint nothing has been done for it, and the  *)
(* client who holds the lock is about to begin.                            *)
Untouched ==
    \A e \in Execs :
        /\ \A k \in Kinds \ {"lease"} : ledger[e][k] = 0
        /\ \A s \in Steps : attempts[e][s] = << >>
Newborn ==
    ckpt.status = "none" =>
        /\ Untouched
        /\ \A c \in Calls : pc[c] \in {"idle", "done"} \cup Beginning
        /\ (\E c \in Calls : pc[c] \in Beginning) \/ \A c \in Calls : pc[c] = "idle"

(* A plan that is not settled then has a call in its laps to carry it, a   *)
(* carrier; one that closes an execution as failed has a failed step.      *)
Carried ==
    /\ ckpt.status # "paused"
    /\ ckpt.status \in {"pending", "running"} => \E c \in Calls : pc[c] \in Laps
Failing(c) ==
    pc[c] \in {"stageFailed", "stageFailedLog", "finalizeFailed"} =>
        \E s \in Steps : run[c].steps[s] = "failed"

SettlingInv == Newborn /\ Carried /\ \A c \in Calls : Failing(c)

(* What a step of a call does: it takes the checkpoint to where the plan   *)
(* is settled, or leaves it, or is a carrier then; a carrier goes on or    *)
(* settles the plan.                                                       *)
Carries(c) ==
    /\ UNCHANGED ckpt \/ ckpt'.status \in Settled \/ pc'[c] \in Laps
    /\ pc[c] \in Laps => pc'[c] \in Laps \/ ckpt'.status \in Settled
    /\ ckpt'.status = "paused" => ckpt.status = "paused"
    /\ Failing(c)'
SureFooting(c) ==
    /\ Footing(c) /\ Tidy(c) /\ Failing(c)
    /\ Op[c] \notin {"recover", "reject"} /\ Admission \subseteq {"runs", "held"}

LEMMA CarrierHolds ==
  ASSUME NEW c \in Calls, SureFooting(c), pc[c] \in Laps
  PROVE  /\ LockedFor(c) /\ lock.held /\ lock.exec = target[c]
         /\ UNCHANGED lock => pc'[c] # "done"
<1>1. pc[c] \in Holders /\ pc[c] \in Keepers /\ "done" \notin Keepers
  BY DEF Laps, Staging, Holders, Keepers, Driving
<1> QED  BY <1>1 DEF SureFooting, Footing, Custody, Tidy, Gives, LockedFor, HoldsLock

(* A call that goes on without touching the checkpoint.                    *)
LEMMA SettlesGo ==
  ASSUME NEW c \in Calls, SureFooting(c), UNCHANGED ckpt,
         pc[c] \in Laps => pc'[c] \in Laps,
         Failing(c)'
  PROVE  Carries(c)
BY DEF Carries

LEMMA FailsNot ==
  ASSUME NEW c \in Calls, pc'[c] \notin {"stageFailed", "stageFailedLog", "finalizeFailed"}
  PROVE  Failing(c)'
BY DEF Failing

(* A write that a carrier makes of its run.                                *)
LEMMA SettlesWrite ==
  ASSUME NEW c \in Calls, SureFooting(c), pc[c] \in Laps, NEW m, NEW l \in Laps,
         PersistOrEnd(c, m, l) \/ PersistOrCatch(c, m, l, "failThrown"),
         l \in {"stageFailed", "stageFailedLog", "finalizeFailed"} => \E s \in Steps : m.steps[s] = "failed"
  PROVE  Carries(c)
<1>1. UNCHANGED <<lock, ckpt>>
  BY DEF PersistOrEnd, PersistOrCatch, Persists, Saves, Throws, PersistExecutionSnapshot, storeVars
<1>2. pc'[c] # "done"
  BY <1>1, CarrierHolds
<1>3. \/ pc'[c] = l /\ run'[c] = m
      \/ pc'[c] = "failThrown"
  <2>1. ASSUME NEW x, Persists(c, m, x) PROVE pc'[c] = x /\ run'[c] = m
    BY <2>1, GoneWith DEF Persists, SureFooting
  <2>2. ASSUME NEW x, Go(c, x) PROVE pc'[c] = x
    BY <2>2, GoneWith DEF Go, SureFooting
  <2>3. ~End(c, "thrown")
    BY <1>2, FootingTypes DEF End, SureFooting
  <2> QED  BY <2>1, <2>2, <2>3 DEF PersistOrEnd, PersistOrCatch
<1>4. Failing(c)'
  BY <1>3 DEF Failing
<1>5. "failThrown" \in Laps
  BY DEF Laps, Driving
<1> QED  BY <1>1, <1>3, <1>4, <1>5, SettlesGo

LEMMA StageSettles ==
  ASSUME NEW c \in Calls, SureFooting(c),
         Stage(c) \/ StageRun(c) \/ StageDone(c) \/ StagePaused(c) \/ StageFailed(c)
  PROVE  Carries(c)
<1>1. run[c] \in Run
  BY FootingTypes DEF SureFooting
<1>2. {"created", "stageLog", "stageDoneLog", "pause", "stageFailedLog"} \subseteq Laps
  BY DEF Laps, Staging, Driving
<1>3. CASE Stage(c)
  <2>1. PersistOrEnd(c, StagedRun, "created") /\ pc[c] \in Laps
    BY <1>3 DEF Stage, At, Laps, Staging
  <2> QED  BY <1>2, <2>1, SettlesWrite
<1>4. ASSUME NEW st, NEW l \in {"stageLog", "stageDoneLog", "pause"}, pc[c] \in Laps,
             PersistOrEnd(c, [run[c] EXCEPT !.stage = st], l)
      PROVE  Carries(c)
  BY <1>2, <1>4, SettlesWrite
<1>5. CASE StageRun(c) \/ StageDone(c) \/ StagePaused(c)
  <2>1. pc[c] \in Laps
    BY <1>5 DEF StageRun, StageDone, StagePaused, At, Laps, Staging, Driving
  <2> QED  BY <1>4, <1>5, <2>1 DEF StageRun, StageDone, StagePaused
<1>6. CASE StageFailed(c)
  <2> DEFINE m == [run[c] EXCEPT !.stage = "failed"]
  <2>1. pc[c] = "stageFailed" /\ pc[c] \in Laps /\ PersistOrEnd(c, m, "stageFailedLog")
    BY <1>6 DEF StageFailed, At, Laps, Staging, Driving
  <2>2. m.steps = run[c].steps
    BY <1>1 DEF Run
  <2> HIDE DEF m
  <2>3. \E s \in Steps : m.steps[s] = "failed"
    BY <2>1, <2>2 DEF SureFooting, Failing
  <2> QED  BY <1>2, <2>1, <2>3, SettlesWrite
<1> QED  BY <1>3, <1>5, <1>6

LEMMA HandSettles ==
  ASSUME NEW c \in Calls, SureFooting(c),
         \/ RefusedBegin(c) \/ MarkRunning(c) \/ MarkCompleted(c) \/ MarkFailed(c)
         \/ MarkThrown(c) \/ MarkPaused(c) \/ BlockStep(c)
  PROVE  Carries(c)
<1>1. run[c] \in Run /\ run[c].steps \in [Steps -> StepStatuses]
  BY FootingTypes DEF SureFooting, Run
<1>2. {"stageFailed", "tool", "step", "stagePaused", "failThrown"} \subseteq Laps
  BY DEF Laps, Staging, Driving
<1>3. pc[c] \in Laps
  BY DEF RefusedBegin, MarkRunning, MarkCompleted, MarkFailed, MarkThrown, MarkPaused, BlockStep, At,
         Laps, Staging, Driving
<1>4. ASSUME NEW s, NEW st, NEW l \in {"tool", "step", "stagePaused"},
             \/ PersistOrEnd(c, Marked(run[c], s, st), l)
             \/ PersistOrCatch(c, Marked(run[c], s, st), l, "failThrown")
      PROVE  Carries(c)
  <2> DEFINE m == Marked(run[c], s, st)
  <2>1. PersistOrEnd(c, m, l) \/ PersistOrCatch(c, m, l, "failThrown")
    BY <1>4
  <2>2. l \in Laps /\ l \notin {"stageFailed", "stageFailedLog", "finalizeFailed"}
    BY <1>2, <1>4
  <2> HIDE DEF m
  <2> QED  BY <1>3, <2>1, <2>2, SettlesWrite
<1>5. ASSUME NEW s \in Steps,
             \/ PersistOrEnd(c, Marked(run[c], s, "failed"), "stageFailed")
             \/ PersistOrCatch(c, Marked(run[c], s, "failed"), "stageFailed", "failThrown")
      PROVE  Carries(c)
  <2>1. Marked(run[c], s, "failed").steps = [run[c].steps EXCEPT ![s] = "failed"]
    BY <1>1 DEF Marked, Run
  <2>2. Marked(run[c], s, "failed").steps[s] = "failed"
    BY <1>1, <2>1
  <2>3. \E t \in Steps : Marked(run[c], s, "failed").steps[t] = "failed"
    BY <2>2
  <2> QED  BY <1>2, <1>3, <1>5, <2>3, SettlesWrite
<1>6. CASE MarkRunning(c) \/ MarkCompleted(c) \/ MarkPaused(c)
  BY <1>4, <1>6 DEF MarkRunning, MarkCompleted, MarkPaused, MarkedInHand
<1>7. CASE RefusedBegin(c) \/ MarkFailed(c) \/ MarkThrown(c)
  <2>1. InHand(c) \in Steps
    BY <1>7, HandSound DEF RefusedBegin, MarkFailed, MarkThrown, At, SureFooting, Footing, EngineInv,
                           InHandPoints, InHand
  <2> QED  BY <1>5, <1>7, <2>1 DEF RefusedBegin, MarkFailed, MarkThrown, MarkedInHand
<1>8. CASE BlockStep(c)
  BY <1>5, <1>8 DEF BlockStep
<1> QED  BY <1>6, <1>7, <1>8

(* Events, the tool and the heartbeat.                                     *)
LEMMA LogSettles ==
  ASSUME NEW c \in Calls, SureFooting(c),
         \/ Created(c) \/ Started(c) \/ StageLog(c) \/ StageFailedLog(c) \/ StageDoneLog(c)
         \/ (\E o \in Outcomes : ToolReturns(c, o)) \/ Heartbeat(c)
  PROVE  Carries(c)
<1>1. UNCHANGED ckpt
  BY DEF Created, Started, StageLog, StageFailedLog, StageDoneLog, ToolReturns, Heartbeat,
         HeartbeatAttempt, Emits, AppendLedgerEvent, storeVars
<1>2. ASSUME NEW l \in {"launch", "stageRun", "step", "finalize", "failThrown", "markPaused",
                        "complete", "fail", "tool"},
             NEW m, GoWith(c, l, m)
      PROVE  Carries(c)
  <2>1. pc'[c] = l /\ l \in Laps
    BY <1>2, GoneWith DEF SureFooting, Laps, Staging, Driving
  <2> QED  BY <1>1, <1>2, <2>1, FailsNot, SettlesGo
<1>3. CASE StageFailedLog(c)
  <2>1. pc[c] = "stageFailedLog" /\ GoWith(c, "finalizeFailed", run[c])
    BY <1>3 DEF StageFailedLog, Emits, Go, At
  <2>2. pc'[c] = "finalizeFailed" /\ run'[c] = run[c] /\ "finalizeFailed" \in Laps
    BY <2>1, GoneWith DEF SureFooting, Laps, Staging, Driving
  <2>3. Failing(c)'
    BY <2>1, <2>2 DEF SureFooting, Failing
  <2> QED  BY <1>1, <2>2, <2>3, SettlesGo
<1>4. CASE Created(c) \/ Started(c) \/ StageLog(c) \/ StageDoneLog(c)
  BY <1>2, <1>4 DEF Created, Started, StageLog, StageDoneLog, Emits, Go
<1>5. CASE Heartbeat(c)
  <2>1. \E m : GoWith(c, "tool", m)
    BY <1>5 DEF Heartbeat
  <2> QED  BY <1>2, <2>1
<1>6. ASSUME NEW o \in Outcomes, ToolReturns(c, o)
      PROVE  Carries(c)
  BY <1>2, <1>6 DEF ToolReturns, Go
<1> QED  BY <1>3, <1>4, <1>5, <1>6

(* A step that begins, and the end of its attempt, which nothing refuses.  *)
LEMMA BeginSettles ==
  ASSUME NEW c \in Calls, SureFooting(c), Begin(c)
  PROVE  Carries(c)
<1>1. PICK s \in Steps :
        \/ BeginExecutionAttempt(target[c], ProcOf[c], s) /\ \E m : GoWith(c, "markRunning", m)
        \/ UNCHANGED storeVars /\ \E m : GoWith(c, "refusedBegin", m)
  BY DEF Begin
<1>2. {"markRunning", "refusedBegin"} \subseteq Laps
  BY DEF Laps, Driving
<1>3. CASE BeginExecutionAttempt(target[c], ProcOf[c], s) /\ \E m : GoWith(c, "markRunning", m)
  <2>1. ckpt'.status = "running"
    BY <1>3, FootingTypes DEF SureFooting, BeginExecutionAttempt, CheckpointBefore, TypeOK, Checkpoint
  <2>2. pc'[c] = "markRunning"
    BY <1>3, GoneWith DEF SureFooting
  <2> QED  BY <1>2, <2>1, <2>2, FailsNot DEF Carries
<1>4. CASE UNCHANGED storeVars /\ \E m : GoWith(c, "refusedBegin", m)
  <2>1. pc'[c] = "refusedBegin" /\ UNCHANGED ckpt
    BY <1>4, GoneWith DEF SureFooting, storeVars
  <2> QED  BY <1>2, <2>1, FailsNot, SettlesGo
<1> QED  BY <1>1, <1>3, <1>4

LEMMA EndsAttempt ==
  ASSUME NEW c \in Calls, SureFooting(c), pc[c] \in {"complete", "fail", "failThrown"},
         NEW st \in {"completed", "failed"}
  PROVE  MayEndAttempt(target[c], InHand(c), run[c].n, st)
<1>1. pc[c] \in (Driving \cap AtWork \cap InStage \cap InHandPoints) \ Ahead
  BY DEF Driving, AtWork, InStage, InHandPoints, Ahead
<1>2. Footing(c) /\ TypeOK /\ target[c] \in Execs
  BY FootingTypes DEF SureFooting
<1>3. /\ run[c].step \in Steps /\ InHand(c) = run[c].step
      /\ HasRow(target[c]) /\ snap[target[c]].status = "running" /\ ckpt.status # "none"
      /\ snap[target[c]].steps = run[c].steps
      /\ run[c].steps[run[c].step] = "running" /\ run[c].n \in DOMAIN attempts[target[c]][run[c].step]
  BY <1>1, <1>2, AtLoop, HandSound DEF Footing, EngineInv, HandFits, InHand
<1>4. \A t \in Steps : LegalChange(snap[target[c]].steps[t],
                                   [snap[target[c]].steps EXCEPT ![run[c].step] = st][t])
  BY <1>2, <1>3, StepMayChange DEF Open
<1>5. MayPersist(target[c], TerminalSnapshot(target[c], InHand(c), st))
  BY <1>3, <1>4 DEF MayPersist, TerminalSnapshot, LegalChange
<1> QED  BY <1>3, <1>5 DEF MayEndAttempt, StepIsOpen, TerminalExecution, TerminalStep

LEMMA EndAttemptSettles ==
  ASSUME NEW c \in Calls, SureFooting(c), Complete(c) \/ FailReported(c) \/ FailThrown(c)
  PROVE  Carries(c)
<1>1. {"markCompleted", "markFailed", "markThrown"} \subseteq Laps
  BY DEF Laps, Driving
<1>2. PICK l \in {"markCompleted", "markFailed", "markThrown"} :
        /\ Go(c, l)
        /\ \/ CompleteExecutionAttempt(target[c], InHand(c), run[c].n)
           \/ FailExecutionAttempt(target[c], InHand(c), run[c].n)
  BY EndsAttempt DEF Complete, FailReported, FailThrown, Fail, At
<1>3. pc'[c] = l
  BY <1>2, GoneWith DEF SureFooting, Go
<1>4. ckpt'.status \in {"completed", "running", "failed"}
  <2>1. CASE CompleteExecutionAttempt(target[c], InHand(c), run[c].n)
    <3>1. ckpt' = CheckpointAfter(InHand(c))
      BY <2>1 DEF CompleteExecutionAttempt
    <3> QED  BY <3>1 DEF CheckpointAfter
  <2>2. CASE FailExecutionAttempt(target[c], InHand(c), run[c].n)
    <3>1. ckpt' = CheckpointFailed(InHand(c)) /\ ckpt \in Checkpoint
      BY <2>2, FootingTypes DEF SureFooting, FailExecutionAttempt, TypeOK
    <3> QED  BY <3>1 DEF CheckpointFailed, Checkpoint
  <2> QED  BY <1>2, <2>1, <2>2
<1> QED  BY <1>1, <1>3, <1>4, FailsNot DEF Carries

(* A carrier that ends or gives up with the lock as it was, does not.      *)
LEMMA SettlesEnd ==
  ASSUME NEW c \in Calls, NEW r, SureFooting(c), End(c, r), ckpt'.status \in Settled
  PROVE  Carries(c)
<1>1. pc'[c] = "done"
  BY FootingTypes DEF SureFooting, End
<1>2. ckpt'.status # "paused"
  BY DEF Settled, TerminalCheckpoint
<1> QED  BY <1>1, <1>2, FailsNot DEF Carries

LEMMA NoQuietEnd ==
  ASSUME NEW c \in Calls, NEW r, SureFooting(c), pc[c] \in Laps, UNCHANGED storeVars
  PROVE  ~End(c, r)
<1>1. pc'[c] # "done"
  BY CarrierHolds DEF storeVars
<1> QED  BY <1>1, FootingTypes DEF SureFooting, End

LEMMA PauseSettles ==
  ASSUME NEW c \in Calls, SureFooting(c), PauseBefore(c) \/ Pause(c)
  PROVE  Carries(c)
<1>1. pc[c] \in Laps
  BY DEF PauseBefore, Pause, At, Laps, Driving
<1>2. Held(run[c]).rv = "pending"
  BY FootingTypes DEF SureFooting, Held, Run
<1>3. \A r : UNCHANGED storeVars => ~End(c, r)
  BY <1>1, NoQuietEnd
<1>4. PICK s : End(c, "paused") /\ \E w : PausedForReview(target[c], s, w)
  BY <1>2, <1>3 DEF PauseBefore, Pause, GiveUp, PauseBeforeExecutionForReview,
                    PauseExecutionAttemptForReview
<1>5. ckpt'.status = "awaiting_review"
  BY <1>4, FootingTypes DEF SureFooting, PausedForReview, CheckpointReview, TypeOK, Checkpoint
<1> QED  BY <1>4, <1>5, SettlesEnd DEF Settled

LEMMA LaunchSettles ==
  ASSUME NEW c \in Calls, SureFooting(c), Launch(c)
  PROVE  Carries(c)
<1>1. pc[c] \in Laps /\ "started" \in Laps
  BY DEF Launch, At, Laps, Staging
<1>2. \/ PersistOrEnd(c, [run[c] EXCEPT !.gs = "running"], "started")
      \/ PauseExecutionForReview(target[c], WriteOf(Held(run[c]))) /\ End(c, "paused")
  BY DEF Launch, SureFooting
<1>3. CASE PersistOrEnd(c, [run[c] EXCEPT !.gs = "running"], "started")
  BY <1>1, <1>3, SettlesWrite
<1>4. CASE PauseExecutionForReview(target[c], WriteOf(Held(run[c]))) /\ End(c, "paused")
  <2>1. ckpt'.status = "awaiting_review"
    BY <1>4, FootingTypes DEF SureFooting, PauseExecutionForReview, TypeOK, Checkpoint
  <2> QED  BY <1>4, <2>1, SettlesEnd DEF Settled
<1> QED  BY <1>2, <1>3, <1>4

(* Closing an execution is not refused: a run that failed says so.         *)
LEMMA FinalizeSettles ==
  ASSUME NEW c \in Calls, SureFooting(c), Finalize(c) \/ FinalizeFailed(c)
  PROVE  Carries(c)
<1>1. Footing(c) /\ run[c] \in Run
  BY FootingTypes DEF SureFooting
<1>2. pc[c] \in {"finalize", "finalizeFailed"} /\ pc[c] \in Driving \ Ahead
  BY DEF Finalize, FinalizeFailed, Finalized, At, Driving, Ahead
<1>3. PICK m, st :
        /\ \/ FinalizeExecution(target[c], WriteOf(m), st) /\ End(c, st)
           \/ ~MayFinalize(target[c], WriteOf(m), st)
        /\ \/ pc[c] = "finalize" /\ m = [run[c] EXCEPT !.gs = "idle", !.rv = "approved"] /\ st = "completed"
           \/ pc[c] = "finalizeFailed" /\ m = [run[c] EXCEPT !.gs = "error"] /\ st = "failed"
  BY DEF Finalize, FinalizeFailed, Finalized, At
<1>4. m.gs # "running" /\ m.stage = run[c].stage /\ m.steps = run[c].steps
  BY <1>1, <1>3 DEF Run
<1>5. StatusOf(m) # "pending"
  <2>1. CASE pc[c] = "finalize"
    <3>1. \A s \in Steps : m.steps[s] = "completed"
      BY <1>1, <1>4, <2>1 DEF Footing, FitPoint, FinishedAt, Finished
    <3> QED  BY <3>1 DEF StatusOf
  <2>2. CASE pc[c] = "finalizeFailed"
    <3>1. \E s \in Steps : m.steps[s] = "failed"
      BY <1>4, <2>2 DEF SureFooting, Failing
    <3> QED  BY <1>4, <3>1 DEF StatusOf
  <2> QED  BY <1>2, <2>1, <2>2
<1>6. /\ HasRow(target[c]) /\ snap[target[c]].status = "running" /\ ckpt.status # "none"
      /\ lock.exec = target[c]
      /\ snap[target[c]].stage = run[c].stage /\ snap[target[c]].steps = run[c].steps
  BY <1>1, <1>2, AtLoop
<1>7. MayPersist(target[c], WriteOf(m))
  BY <1>4, <1>5, <1>6 DEF MayPersist, WriteOf, LegalChange
<1>8. MayFinalize(target[c], WriteOf(m), st)
  BY <1>6, <1>7 DEF MayFinalize, TerminalExecution, MayRelease
<1>9. FinalizeExecution(target[c], WriteOf(m), st) /\ End(c, st) /\ st \in {"completed", "failed"}
  BY <1>3, <1>8
<1>10. ckpt'.status \in Settled
  BY <1>1, <1>9, FootingTypes DEF FinalizeExecution, TypeOK, Checkpoint, Settled, TerminalCheckpoint
<1> QED  BY <1>9, <1>10, SettlesEnd

(* A call that is no carrier.                                              *)
LEMMA SettlesAside ==
  ASSUME NEW c \in Calls, SureFooting(c), pc[c] \notin Laps,
         (\E l, m : GoWith(c, l, m) /\ l \notin {"stageFailed", "stageFailedLog", "finalizeFailed"})
         \/ \E r : End(c, r),
         UNCHANGED ckpt \/ ckpt'.status \in Settled
  PROVE  Carries(c)
<1>1. pc'[c] \notin {"stageFailed", "stageFailedLog", "finalizeFailed"}
  BY GoneWith, FootingTypes DEF SureFooting, End
<1>2. "paused" \notin Settled
  BY DEF Settled, TerminalCheckpoint
<1> QED  BY <1>1, <1>2, FailsNot DEF Carries

LEMMA OpeningSettles ==
  ASSUME NEW c \in Calls, SureFooting(c),
         \/ ExecuteAcquire(c) \/ Corrupt(c) \/ CorruptLog(c) \/ Doubt(c) \/ DoubtLog(c) \/ Validate(c)
         \/ Reconcile(c) \/ Start(c) \/ Reuse(c) \/ Resume(c) \/ Approve(c) \/ RejectLog(c)
         \/ RejectFailed(c) \/ Release(c)
  PROVE  Carries(c)
<1>1. pc[c] \notin Laps
  BY DEF ExecuteAcquire, Corrupt, CorruptLog, Doubt, DoubtLog, Validate, Reconcile, Start, Reuse, Resume,
         Approve, RejectLog, RejectFailed, Release, At, Laps, Staging, Driving
<1>2. Footing(c) /\ TypeOK
  BY FootingTypes DEF SureFooting
<1>3. CASE Corrupt(c) \/ Doubt(c)
  <2>1. ckpt'.status = "corrupted"
    BY <1>2, <1>3 DEF Corrupt, Doubt, SetCheckpointStatus, TypeOK, Checkpoint
  <2>2. ckpt'.status \in Settled
    BY <2>1 DEF Settled, TerminalCheckpoint
  <2>3. (\E l, m : GoWith(c, l, m) /\ l \notin {"stageFailed", "stageFailedLog", "finalizeFailed"})
        \/ \E r : End(c, r)
    BY <1>3 DEF Corrupt, Doubt, Go
  <2> QED  BY <1>1, <2>2, <2>3, SettlesAside
<1>4. CASE ExecuteAcquire(c) \/ CorruptLog(c) \/ DoubtLog(c) \/ Validate(c) \/ Reuse(c) \/ Resume(c)
           \/ RejectLog(c) \/ RejectFailed(c) \/ Release(c)
  <2>1. UNCHANGED ckpt
    BY <1>4 DEF ExecuteAcquire, CorruptLog, DoubtLog, Validate, Reuse, Resume, RejectLog, RejectFailed,
                Release, AcquireExecutionLock, AcquireConflict, AppendLedgerEvent, IntegrityHolds,
                IntegrityFails, AcquireOrReuseExecutionLock, AcquireOrReuseConflict, Emits,
                ReleaseExecutionLock, storeVars
  <2>2. (\E l, m : GoWith(c, l, m) /\ l \notin {"stageFailed", "stageFailedLog", "finalizeFailed"})
        \/ \E r : End(c, r)
    BY <1>4 DEF ExecuteAcquire, CorruptLog, DoubtLog, Validate, Reuse, Resume, RejectLog, RejectFailed,
                Release, Emits, Go, DistrustHolder, Distrust
  <2> QED  BY <1>1, <2>1, <2>2, SettlesAside
<1>5. CASE Reconcile(c)
  <2>1. UNCHANGED ckpt \/ ckpt'.status \in {"pause_for_operator_recovery", "execution_abandoned"}
    BY <1>2, <1>5 DEF Reconcile, ReconcileResume, ReconcileToOperator, ReconcileNoop, Abandon,
                      ReconcileUnlocked, ReconcileFails, IntegrityFails, QueueRecoveryReview,
                      FinalizeExecutionTransition, storeVars, TypeOK, Checkpoint
  <2>2. UNCHANGED ckpt \/ ckpt'.status \in Settled
    BY <2>1 DEF Settled, TerminalCheckpoint
  <2>3. (\E l, m : GoWith(c, l, m) /\ l \notin {"stageFailed", "stageFailedLog", "finalizeFailed"})
        \/ \E r : End(c, r)
    BY <1>5 DEF Reconcile, Go, DistrustHolder, Distrust
  <2> QED  BY <1>1, <2>2, <2>3, SettlesAside
<1>6. CASE Start(c)
  <2>1. CASE StartExecutionState /\ Go(c, "stage")
    <3>1. ckpt'.status = "pending" /\ pc'[c] = "stage"
      BY <1>2, <2>1, GoneWith DEF StartExecutionState, Go, NoCheckpoint
    <3> QED  BY <1>1, <3>1, FailsNot DEF Carries, Laps, Staging
  <2>2. CASE UNCHANGED storeVars /\ Go(c, "release")
    BY <1>1, <2>2, SettlesAside DEF storeVars, Go
  <2> QED  BY <1>6, <2>1, <2>2 DEF Start
<1>7. CASE Approve(c)
  <2>1. PICK m : PersistOrEnd(c, m, "stageRun")
    BY <1>7 DEF Approve
  <2>2. UNCHANGED ckpt
    BY <2>1 DEF PersistOrEnd, Persists, Saves, Throws, PersistExecutionSnapshot, storeVars
  <2>3. GoWith(c, "stageRun", m) \/ End(c, "thrown")
    BY <2>1 DEF PersistOrEnd, Persists
  <2> QED  BY <1>1, <2>2, <2>3, SettlesAside
<1> QED  BY <1>3, <1>4, <1>5, <1>6, <1>7

LEMMA CallSettles ==
  ASSUME NEW c \in Calls, SureFooting(c), CallStep(c) \/ Heartbeat(c)
  PROVE  Carries(c)
<1>1. CASE Opening(c)
  <2>1. ~(Preflight(c) \/ RecoverState(c) \/ Restage(c) \/ Rehydrate(c) \/ Reject(c))
    BY DEF Preflight, RecoverState, Restage, Rehydrate, Reject, At, SureFooting, Footing, Founded
  <2> QED  BY <1>1, <2>1, OpeningSettles, StageSettles, LogSettles, LaunchSettles DEF Opening
<1>2. CASE Looping(c)
  BY <1>2, StageSettles, HandSettles, LogSettles, BeginSettles, EndAttemptSettles, PauseSettles DEF Looping
<1>3. CASE Closing(c)
  BY <1>3, StageSettles, LogSettles, FinalizeSettles, OpeningSettles DEF Closing
<1> QED  BY <1>1, <1>2, <1>3, LogSettles DEF CallStep

(* Before the plan has a checkpoint, only the client that holds the lock   *)
(* goes on, and nothing that it finds holds it up.                         *)
LEMMA NothingAmiss ==
  ASSUME ckpt.status = "none", NoRows, Untouched, NEW q
  PROVE  ~IntegrityIssue(q)
<1>1. ~CheckpointIssue /\ ~LockIssue /\ ~RecoveryIssue(q)
  BY DEF CheckpointIssue, LockIssue, RecoveryIssue, TerminalCheckpoint
<1>2. \A e \in Execs : ~SnapshotIssue(e)
  BY DEF SnapshotIssue, HasRow, NoRows
<1>3. ASSUME NEW e \in Execs PROVE ~LedgerIssue(e)
  <2>1. \A k \in Kinds \ {"lease"} : Count(e, k) = 0
    BY DEF Count, Untouched
  <2>2. TerminalKinds \cup {"created", "started", "stageEnded", "stagePaused"} \subseteq Kinds \ {"lease"}
    BY DEF TerminalKinds, Kinds
  <2>3. \A K \in SUBSET (Kinds \ {"lease"}) : ~SomeOf(e, K) /\ ~SeveralOf(e, K)
    BY <2>1 DEF SomeOf, SeveralOf
  <2>4. Count(e, "created") = 0 /\ Count(e, "started") = 0 /\ Count(e, "stageEnded") = 0
    BY <2>1, <2>2
  <2>5. ~SomeOf(e, TerminalKinds \cup {"started"}) /\ ~SomeOf(e, TerminalKinds)
        /\ ~SomeOf(e, {"stageEnded", "stagePaused"}) /\ ~SeveralOf(e, TerminalKinds)
    BY <2>2, <2>3
  <2>6. ckpt.status \notin TerminalCheckpoint
    BY DEF TerminalCheckpoint
  <2> QED  BY <2>4, <2>5, <2>6 DEF LedgerIssue
<1>4. ~AttemptIssue
  <2>1. \A e \in Execs, s \in Steps : RunningAttempts(e, s) = {}
    BY DEF Untouched, RunningAttempts
  <2> QED  BY <2>1, FS_EmptySet DEF AttemptIssue
<1> QED  BY <1>1, <1>2, <1>3, <1>4 DEF IntegrityIssue

LEMMA LeaseUntouched ==
  ASSUME EngineInv, NEW e, Untouched,
         ledger' = Logged(ledger, e, {"lease"}) \/ UNCHANGED ledger, UNCHANGED attempts
  PROVE  Untouched'
<1>1. ASSUME NEW f \in Execs, NEW k \in Kinds \ {"lease"}
      PROVE  ledger'[f][k] = ledger[f][k]
  <2>1. CASE ledger' = Logged(ledger, e, {"lease"}) /\ f = e
    <3>1. ledger'[f] = [j \in Kinds |-> IF j \in {"lease"} /\ ledger[e][j] < CountCap(j)
                                       THEN ledger[e][j] + 1 ELSE ledger[e][j]]
      BY <2>1 DEF Logged, EngineInv, TypeOK
    <3> QED  BY <2>1, <3>1
  <2>2. CASE ledger' = Logged(ledger, e, {"lease"}) /\ f # e
    BY <2>2 DEF Logged, EngineInv, TypeOK
  <2> QED  BY <2>1, <2>2
<1> QED  BY <1>1 DEF Untouched

(* The actions of a call that has the plan still to begin.                 *)
LEMMA OnlyBegins ==
  ASSUME NEW c \in Calls, SureFooting(c), ckpt.status = "none", NoRows,
         pc[c] \in {"idle", "done"} \cup Beginning,
         CallStep(c) \/ Heartbeat(c)
  PROVE  ExecuteAcquire(c) \/ Validate(c) \/ Reconcile(c) \/ Start(c)
<1>1. ~Looping(c) /\ ~Closing(c) /\ ~Heartbeat(c)
  BY DEF Looping, Closing, Heartbeat, StageRun, StageLog, StageDone, PauseBefore, BlockStep, Begin,
         RefusedBegin, MarkRunning, ToolReturns, Complete, MarkCompleted, FailReported, FailThrown, Fail,
         MarkFailed, MarkThrown, MarkPaused, StagePaused, Pause, StageFailed, StageFailedLog,
         StageDoneLog, Finalize, FinalizeFailed, Finalized, Release, At, Beginning
<1>2. ~(Corrupt(c) \/ CorruptLog(c) \/ Doubt(c) \/ DoubtLog(c) \/ Stage(c) \/ Created(c) \/ Launch(c)
        \/ Started(c) \/ Reuse(c) \/ RecoverState(c) \/ Restage(c) \/ Rehydrate(c) \/ Approve(c)
        \/ Reject(c) \/ RejectLog(c) \/ RejectFailed(c))
  BY DEF Corrupt, CorruptLog, Doubt, DoubtLog, Stage, Created, Launch, Started, Reuse, RecoverState,
         Restage, Rehydrate, Approve, Reject, RejectLog, RejectFailed, At, Beginning
<1>3. ~Preflight(c) /\ ~Resume(c)
  BY FootingTypes DEF SureFooting, Preflight, Resume, MayResume, NoRows
<1> QED  BY <1>1, <1>2, <1>3 DEF CallStep, Opening

LEMMA BeginsOn ==
  ASSUME NEW c \in Calls, SureFooting(c), ckpt.status = "none", ckpt'.status = "none", NoRows, Untouched,
         pc[c] \in {"idle", "done"} \cup Beginning,
         CallStep(c) \/ Heartbeat(c)
  PROVE  /\ Untouched'
         /\ pc'[c] \in Beginning \/ (pc[c] = "idle" /\ pc'[c] = "done" /\ lock.held)
<1>1. Footing(c) /\ EngineInv
  BY DEF SureFooting, Footing
<1>2. ~IntegrityFails /\ ~Start(c)
  BY NothingAmiss DEF IntegrityFails, Start, StartExecutionState, NoCheckpoint
<1>3. CASE ExecuteAcquire(c)
  <2>1. CASE AcquireExecutionLock(target[c], ProcOf[c]) /\ Go(c, "validate")
    <3>1. pc'[c] = "validate"
      BY <1>1, <2>1, GoneWith DEF Go
    <3>2. Untouched'
      BY <1>1, <2>1, LeaseUntouched DEF AcquireExecutionLock
    <3> QED  BY <3>1, <3>2 DEF Beginning
  <2>2. CASE AcquireConflict(target[c]) /\ End(c, "refused")
    <3>1. pc[c] = "idle" /\ pc'[c] = "done" /\ lock.held
      BY <1>1, <1>3, <2>2, FootingTypes DEF ExecuteAcquire, At, End, AcquireConflict
    <3>2. Untouched'
      BY <1>1, <2>2, LeaseUntouched DEF AcquireConflict
    <3> QED  BY <3>1, <3>2
  <2> QED  BY <1>3, <2>1, <2>2 DEF ExecuteAcquire
<1>4. CASE Validate(c)
  <2>1. IntegrityHolds /\ Go(c, "reconcile")
    BY <1>2, <1>4 DEF Validate
  <2>2. Untouched'
    BY <1>1, <2>1, LeaseUntouched DEF IntegrityHolds
  <2>3. pc'[c] = "reconcile"
    BY <1>1, <2>1, GoneWith DEF Go
  <2> QED  BY <2>2, <2>3 DEF Beginning
<1>5. CASE Reconcile(c)
  <2>1. Op[c] = "execute" /\ lock.held
    BY <1>1, <1>5 DEF Reconcile, At, Footing, Founded, Custody, Holders, LockedFor, HoldsLock
  <2>2. ~ReconcileToOperator /\ ~ReconcileNoop /\ ~Abandon /\ ~ReconcileUnlocked /\ ~ReconcileFails
    BY <1>2, <2>1 DEF ReconcileToOperator, ReconcileNoop, Abandon, ReconcileUnlocked, ReconcileFails,
                      QueueRecoveryReview, FinalizeExecutionTransition
  <2>3. ReconcileResume /\ Go(c, "start")
    BY <1>5, <2>1, <2>2 DEF Reconcile
  <2>4. Untouched'
    BY <1>1, <2>3, LeaseUntouched DEF ReconcileResume, storeVars
  <2>5. pc'[c] = "start"
    BY <1>1, <2>3, GoneWith DEF Go
  <2> QED  BY <2>4, <2>5 DEF Beginning
<1> QED  BY <1>2, <1>3, <1>4, <1>5, OnlyBegins

LEMMA NewbornKept ==
  ASSUME EngineInv, LockKept, Newborn, NEW c \in Calls, SureFooting(c), CallStep(c) \/ Heartbeat(c)
  PROVE  Newborn'
<1> SUFFICES ASSUME ckpt'.status = "none"
             PROVE  /\ Untouched'
                    /\ \A d \in Calls : pc'[d] \in {"idle", "done"} \cup Beginning
                    /\ \E d \in Calls : pc'[d] \in Beginning
  BY DEF Newborn
<1>1. \A d \in Calls \ {c} : pc'[d] = pc[d]
  BY Targets
<1>2. ckpt.status = "none" /\ NoRows
  BY CallFootprint DEF Footprint, SureFooting, Footing
<1>3. Untouched /\ \A d \in Calls : pc[d] \in {"idle", "done"} \cup Beginning
  BY <1>2 DEF Newborn
<1>4. Untouched' /\ (pc'[c] \in Beginning \/ (pc[c] = "idle" /\ pc'[c] = "done" /\ lock.held))
  BY <1>2, <1>3, BeginsOn
<1>5. \E d \in Calls : pc'[d] \in Beginning
  <2>1. CASE pc'[c] \in Beginning
    BY <2>1
  <2>2. CASE pc[c] = "idle" /\ lock.held
    <3>1. PICK d \in Calls : pc[d] \in Keepers
      BY <2>2 DEF LockKept
    <3>2. pc[d] \in Beginning /\ d # c
      BY <1>3, <2>2, <3>1 DEF Keepers, Holders, Driving
    <3> QED  BY <1>1, <3>2
  <2> QED  BY <1>4, <2>1, <2>2
<1> QED  BY <1>1, <1>3, <1>4, <1>5

LEMMA CallKeepsSettling ==
  ASSUME EngineInv, Orderly, OneFounder, CustodyInv, OrderInv, OrderlyInv, SettlingInv,
         NEW c \in Calls, CallStep(c) \/ Heartbeat(c)
  PROVE  SettlingInv'
<1>1. Footing(c)
  BY DEF Footing, OneFounder, CustodyInv, OrderInv, Fits, OrderlyInv
<1>2. Tidy(c)
  BY <1>1, CallTidy DEF Orderly, Singles, NoRecovery
<1>3. SureFooting(c)
  BY <1>1, <1>2 DEF SureFooting, SettlingInv, Orderly, Singles, NoRecovery
<1>4. Carries(c)
  BY <1>3, CallSettles
<1>5. \A d \in Calls \ {c} : pc'[d] = pc[d] /\ run'[d] = run[d]
  BY Targets
<1>6. Newborn'
  BY <1>3, NewbornKept DEF OrderlyInv, SettlingInv
<1>7. Carried'
  <2>1. "paused" \notin Settled /\ Settled \cap {"pending", "running"} = {}
    BY DEF Settled, TerminalCheckpoint
  <2>2. ckpt'.status # "paused"
    BY <1>4 DEF Carries, SettlingInv, Carried
  <2>3. ASSUME ckpt'.status \in {"pending", "running"}
        PROVE  \E d \in Calls : pc'[d] \in Laps
    <3>1. CASE pc'[c] \in Laps
      BY <3>1
    <3>2. CASE pc'[c] \notin Laps
      <4>1. UNCHANGED ckpt /\ pc[c] \notin Laps
        BY <1>4, <2>1, <2>3, <3>2 DEF Carries
      <4>2. PICK d \in Calls : pc[d] \in Laps
        BY <2>3, <4>1 DEF SettlingInv, Carried
      <4> QED  BY <1>5, <4>1, <4>2
    <3> QED  BY <3>1, <3>2
  <2> QED  BY <2>2, <2>3 DEF Carried
<1>8. \A d \in Calls : Failing(d)'
  BY <1>4, <1>5 DEF Carries, Failing, SettlingInv
<1> QED  BY <1>6, <1>7, <1>8 DEF SettlingInv

LEMMA TimeKeepsSettling ==
  ASSUME EngineInv, SettlingInv, LeaseLapse \/ ItemDue \/ UNCHANGED vars
  PROVE  SettlingInv'
<1>1. /\ UNCHANGED ckpt
      /\ \A c \in Calls : pc'[c] = "dead"
                          \/ (pc'[c] = pc[c] /\ run'[c] \in {run[c], [run[c] EXCEPT !.live = FALSE]})
  BY TimeFootprint
<1>2. UNCHANGED pc
  BY DEF LeaseLapse, AttemptLapse, RowLapse, CarriedLapse, ItemDue, vars, callVars
<1>3. Untouched => Untouched'
  <2>1. UNCHANGED ledger
    BY DEF LeaseLapse, AttemptLapse, AttemptLeaseLapses, RowLapse, ExecutionLeaseLapses, CarriedLapse,
           ItemDue, RecoveryItemDue, vars, storeVars
  <2>2. Untouched => UNCHANGED attempts
    BY DEF LeaseLapse, AttemptLapse, AttemptLeaseLapses, RowLapse, ExecutionLeaseLapses, CarriedLapse,
           ItemDue, RecoveryItemDue, vars, storeVars, Untouched
  <2> QED  BY <2>1, <2>2 DEF Untouched
<1>4. Newborn' /\ Carried'
  BY <1>1, <1>2, <1>3 DEF SettlingInv, Newborn, Carried
<1>5. ASSUME NEW c \in Calls PROVE Failing(c)'
  <2>1. run[c] \in Run
    BY DEF EngineInv, EngineTypeOK
  <2>2. pc[c] = "dead" \/ run'[c].steps = run[c].steps
    BY <1>1, <1>2, <2>1 DEF Run
  <2> QED  BY <1>2, <2>2 DEF SettlingInv, Failing
<1> QED  BY <1>4, <1>5 DEF SettlingInv

LEMMA SettlingInit == EngineInit => SettlingInv
<1> SUFFICES ASSUME EngineInit PROVE SettlingInv
  OBVIOUS
<1>1. ckpt.status = "none" /\ \A c \in Calls : pc[c] = "idle"
  BY DEF EngineInit, StoreInit, NoCheckpoint
<1>2. Untouched
  BY DEF EngineInit, StoreInit, Untouched
<1> QED  BY <1>1, <1>2 DEF SettlingInv, Newborn, Carried, Failing

LEMMA SettlingStep ==
  ASSUME EngineInv, Orderly, OneFounder, CustodyInv, OrderInv, OrderlyInv, SettlingInv, [EngineNext]_vars
  PROVE  SettlingInv'
<1>1. ~\E p \in Procs : Crash(p)
  BY DEF Orderly, Crash
<1> QED  BY <1>1, CallKeepsSettling, TimeKeepsSettling DEF EngineNext

LEMMA SettlingInvariant == EngineSpec /\ Orderly => []SettlingInv
<1>1. ASSUME Orderly PROVE EngineSpec => []SettlingInv
  <2>1. /\ EngineInv /\ OneFounder /\ CustodyInv /\ OrderInv /\ OrderlyInv /\ SettlingInv
        /\ [EngineNext]_vars
        => SettlingInv'
    BY <1>1, SettlingStep
  <2>2. EngineSpec => []OneFounder /\ []CustodyInv /\ []OrderInv
    BY <1>1, OrderlyBase
  <2>3. EngineSpec => []OrderlyInv
    BY <1>1, OrderlyInvariant
  <2> QED  BY <2>1, <2>2, <2>3, SettlingInit, EngineInvariant, PTL DEF EngineSpec
<1> QED  BY <1>1

(* When every call is over, whatever failed, was refused, lost its lease   *)
(* or was paused on the way, the plan is terminal, paused for review, with *)
(* the operator, or corrupted: no execute leaves it half-way, and no       *)
(* decision of the operator does.                                          *)
THEOREM PlanEndsSettled == EngineSpec /\ Orderly /\ Calls # {} => []EndsSettled
<1>1. ASSUME Calls # {}, EngineInv, SettlingInv PROVE EndsSettled
  <2> SUFFICES ASSUME \A c \in Calls : Over(c) PROVE ckpt.status \in Settled
    BY DEF EndsSettled
  <2>1. \A c \in Calls : pc[c] \notin Laps \cup Beginning \cup {"idle"}
    BY DEF Over, Laps, Staging, Driving, Beginning
  <2>2. ckpt.status \notin {"none", "paused", "pending", "running"}
    BY <1>1, <2>1 DEF SettlingInv, Newborn, Carried
  <2>3. ckpt.status \in CheckpointStatuses \cup {"none"}
    BY <1>1 DEF EngineInv, TypeOK, Checkpoint
  <2> QED  BY <2>2, <2>3 DEF CheckpointStatuses, Settled, TerminalCheckpoint
<1>2. ASSUME Calls # {} PROVE EngineInv /\ SettlingInv => EndsSettled
  BY <1>1, <1>2
<1>3. ASSUME Orderly, Calls # {} PROVE EngineSpec => []EndsSettled
  <2>1. EngineInv /\ SettlingInv => EndsSettled
    BY <1>2, <1>3
  <2>2. EngineSpec => []SettlingInv
    BY <1>3, SettlingInvariant
  <2> QED  BY <2>1, <2>2, EngineInvariant, PTL
<1> QED  BY <1>3

-----------------------------------------------------------------------------
(* The plan is served: every step of the engine's is a step of             *)
(* PlanExecution, or nothing that whoever asked for the plan could tell.   *)

(* Attempts belong to an execution that has rows.                          *)
TriedInRows == \A e \in Execs, s \in Steps : attempts[e][s] # << >> => HasRow(e)

(* What a transaction does to the progress of the plan: begin a step, end  *)
(* one as completed, or neither, and then it may log the end of the plan.  *)
BeginsStep(e, s) ==
    /\ StepIsOpen(e, s) /\ NoNewCompletion /\ UNCHANGED ledger
    /\ Len(attempts'[e][s]) = Len(attempts[e][s]) + 1
    /\ \A d \in Execs, t \in Steps : d # e \/ t # s => Len(attempts'[d][t]) = Len(attempts[d][t])
EndsStep(e, s) ==
    /\ StepIsOpen(e, s) /\ (\E n \in Nat : OneNewCompletion(e, s, n)) /\ UNCHANGED ledger
    /\ attempts[e][s] # << >> /\ SameLengths
LogsOnly == UNCHANGED ledger \/ \E e \in Execs, K \in SUBSET Kinds : ledger' = Logged(ledger, e, K)
Progresses ==
    \/ \E e \in Execs, s \in Steps : BeginsStep(e, s) \/ EndsStep(e, s)
    \/ NoNewCompletion /\ SameLengths /\ LogsOnly

LEMMA LockStepProgresses ==
  ASSUME TypeOK, NEW e \in Execs, NEW p \in Procs, LockStep(e, p)
  PROVE  Progresses
<1>1. UNCHANGED attempts /\ ledger' = Logged(ledger, e, {"lease"})
  BY DEF LockStep, AcquireExecutionLock, AcquireConflict, AcquireOrReuseExecutionLock,
         ReleaseExecutionLock
<1>2. {"lease"} \subseteq Kinds
  BY DEF Kinds
<1> QED  BY <1>1, <1>2, LockStepCompletions, SameAttemptLengths DEF Progresses, LogsOnly

LEMMA CheckpointStepProgresses ==
  ASSUME TypeOK, NEW e \in Execs, CheckpointStep(e, CheckpointStatuses, Kinds)
  PROVE  Progresses
<1>1. UNCHANGED attempts
  BY DEF CheckpointStep, StartExecutionState, SetCheckpointStatus, CompleteCheckpoint,
         AppendLedgerEvent, FinalizeExecutionTransition, ExecutionLeaseLapses
<1>2. \/ UNCHANGED ledger
      \/ \E k \in Kinds : ledger' = Logged(ledger, e, {k})
      \/ \E k \in Kinds : ledger' = Logged(ledger, e, {k} \cup {"lease"})
  BY DEF CheckpointStep, StartExecutionState, SetCheckpointStatus, CompleteCheckpoint,
         AppendLedgerEvent, FinalizeExecutionTransition, ExecutionLeaseLapses
<1>3. "lease" \in Kinds
  BY DEF Kinds
<1>4. LogsOnly
  BY <1>2, <1>3 DEF LogsOnly
<1> QED  BY <1>1, <1>4, CheckpointStepCompletions, SameAttemptLengths DEF Progresses

LEMMA RunStepProgresses ==
  ASSUME TypeOK, NEW e \in Execs, RunStep(e, Write, {"completed", "failed"})
  PROVE  Progresses
<1>1. PICK w \in Write :
        \/ \E p \in Procs \cup {NoProc}, live \in BOOLEAN : PersistExecutionSnapshot(e, w, p, live)
        \/ \E s \in Steps : PauseBeforeExecutionForReview(e, s, w)
        \/ \E st \in {"completed", "failed"} : FinalizeExecution(e, w, st)
        \/ PauseExecutionForReview(e, w)
  BY DEF RunStep
<1>2. UNCHANGED attempts
  BY <1>1 DEF PersistExecutionSnapshot, PauseBeforeExecutionForReview, FinalizeExecution,
              PauseExecutionForReview
<1>3. UNCHANGED ledger \/ \E K \in SUBSET Kinds : ledger' = Logged(ledger, e, K)
  <2>1. {"stagePaused", "lease", "completed", "failed"} \subseteq Kinds
    BY DEF Kinds
  <2>2. ASSUME NEW st \in {"completed", "failed"}, FinalizeExecution(e, w, st)
        PROVE  ledger' = Logged(ledger, e, {st, "lease"})
    BY <2>2 DEF FinalizeExecution
  <2>3. ASSUME NEW s \in Steps, PauseBeforeExecutionForReview(e, s, w)
        PROVE  \/ ledger' = Logged(ledger, e, {"stagePaused", "lease"})
               \/ ledger' = Logged(ledger, e, {"stagePaused"})
    BY <2>3 DEF PauseBeforeExecutionForReview, PausedForReview
  <2>4. CASE PauseExecutionForReview(e, w)
    BY <2>1, <2>4 DEF PauseExecutionForReview
  <2>5. CASE \E p \in Procs \cup {NoProc}, live \in BOOLEAN : PersistExecutionSnapshot(e, w, p, live)
    BY <2>5 DEF PersistExecutionSnapshot
  <2> QED  BY <1>1, <2>1, <2>2, <2>3, <2>4, <2>5
<1> QED  BY <1>2, <1>3, RunStepCompletions, SameAttemptLengths DEF Progresses, LogsOnly

LEMMA AttemptStepProgresses ==
  ASSUME TypeOK, CompletionInv, NEW e \in Execs, NEW p \in Procs, NEW s \in Steps,
         AttemptStep(e, p, s, Write)
  PROVE  Progresses
<1>0. attempts \in [Execs -> [Steps -> Seq(Attempt)]]
  BY DEF TypeOK
<1>1. CASE BeginExecutionAttempt(e, p, s)
  <2> DEFINE a == [status |-> "running", live |-> TRUE, proc |-> p]
  <2>1. /\ attempts' = [attempts EXCEPT ![e][s] = Append(@, a)]
        /\ StepIsOpen(e, s) /\ UNCHANGED ledger
    BY <1>1 DEF BeginExecutionAttempt, MayBegin
  <2>2. attempts'[e][s] = Append(attempts[e][s], a)
    BY <1>0, <2>1
  <2>3. Len(attempts'[e][s]) = Len(attempts[e][s]) + 1
    BY <1>0, <2>2
  <2>4. \A d \in Execs, t \in Steps : d # e \/ t # s => attempts'[d][t] = attempts[d][t]
    BY <1>0, <2>1
  <2>5. NoNewCompletion
    BY <1>1, BeginCompletions
  <2> QED  BY <2>1, <2>3, <2>4, <2>5 DEF Progresses, BeginsStep
<1>2. ASSUME NEW n \in DOMAIN attempts[e][s], CompleteExecutionAttempt(e, s, n)
      PROVE  Progresses
  <2>1. n \in Nat
    BY <1>0
  <2>2. OneNewCompletion(e, s, n)
    BY <1>2, <2>1, CompleteCompletions
  <2>3. SameLengths
    BY <1>2, EndedLengths DEF CompleteExecutionAttempt, SameLengths
  <2>4. StepIsOpen(e, s) /\ UNCHANGED ledger /\ attempts[e][s] # << >>
    BY <1>2 DEF CompleteExecutionAttempt, MayEndAttempt
  <2> QED  BY <2>1, <2>2, <2>3, <2>4 DEF Progresses, EndsStep
<1>3. ASSUME NEW n \in DOMAIN attempts[e][s],
             \/ HeartbeatAttempt(e, p, s, n) \/ AttemptLeaseLapses(e, s, n)
             \/ FailExecutionAttempt(e, s, n)
             \/ \E w \in Write : PauseExecutionAttemptForReview(e, s, n, w)
      PROVE  Progresses
  <2>1. \/ \E b : attempts' = [attempts EXCEPT ![e][s][n].live = b]
        \/ \E st \in {"failed", "cancelled"} : attempts' = AttemptEnded(e, s, n, st)
    BY <1>3 DEF HeartbeatAttempt, AttemptLeaseLapses, FailExecutionAttempt,
                PauseExecutionAttemptForReview
  <2>2. SameLengths
    BY <2>1, EndedLengths DEF SameLengths
  <2>3. LogsOnly
    <3>1. {"stagePaused", "lease"} \subseteq Kinds
      BY DEF Kinds
    <3>2. \/ UNCHANGED ledger
          \/ ledger' = Logged(ledger, e, {"lease"})
          \/ ledger' = Logged(ledger, e, {"stagePaused", "lease"})
          \/ ledger' = Logged(ledger, e, {"stagePaused"})
      BY <1>3 DEF HeartbeatAttempt, AttemptLeaseLapses, FailExecutionAttempt,
                  PauseExecutionAttemptForReview, PausedForReview
    <3> QED  BY <3>1, <3>2 DEF LogsOnly
  <2>4. attempts[e][s][n].status # "completed"
    <3>1. CASE StepIsOpen(e, s)
      BY <3>1, OpenIsNotCompleted DEF IsCompleted, CompletedAttempts
    <3> QED  BY <1>3, <3>1 DEF HeartbeatAttempt, AttemptLeaseLapses, FailExecutionAttempt,
                               MayEndAttempt, PauseExecutionAttemptForReview, MayPauseAttempt
  <2>5. ckpt' \in {ckpt, CheckpointFailed(s), CheckpointReview(s)}
    BY <1>3 DEF HeartbeatAttempt, AttemptLeaseLapses, FailExecutionAttempt,
                PauseExecutionAttemptForReview, PausedForReview
  <2>6. ckpt'.last = ckpt.last
    BY <2>5, LastKept
  <2>7. NoNewCompletion
    BY <2>1, <2>4, <2>6, RewrittenAttempt
  <2> QED  BY <2>2, <2>3, <2>7 DEF Progresses
<1> QED  BY <1>1, <1>2, <1>3 DEF AttemptStep

LEMMA TransactionProgresses ==
  ASSUME TypeOK, CompletionInv, [StoreNext]_storeVars
  PROVE  Progresses
<1>1. CASE UNCHANGED storeVars \/ QueueStep
  <2>1. UNCHANGED <<ckpt, attempts, ledger>>
    BY <1>1 DEF storeVars, QueueStep, ExpireRecoveryItems, RecoveryItemDue
  <2> QED  BY <2>1, SameAttempts, SameAttemptLengths DEF Progresses, LogsOnly
<1> QED  BY <1>1, LockStepProgresses, CheckpointStepProgresses, RunStepProgresses,
            AttemptStepProgresses DEF StoreNext, StoreStep

(* An execution that may begin or complete a step has the plan to itself,  *)
(* and exactly the steps before that one behind it.                        *)
LEMMA TurnOf ==
  ASSUME TypeOK, CompletionInv, StepsInOrder, AtMostOneExecution, TriedInRows,
         NEW e \in Execs, NEW s \in Steps, StepIsOpen(e, s), \A t \in 1..s - 1 : IsCompleted(e, t)
  PROVE  Progress!HasTurn(e, s)
<1>1. \A d \in Execs \ {e}, t \in Steps : Len(attempts[d][t]) = 0
  <2>1. HasRow(e)
    BY DEF StepIsOpen, HasRow
  <2> QED  BY <2>1 DEF AtMostOneExecution, TriedInRows
<1>2. {t \in Steps : IsCompleted(e, t)} = 1..s - 1
  <2>1. 1..s - 1 \subseteq Steps
    BY StepsAssumption DEF Steps
  <2>2. ASSUME NEW t \in Steps, IsCompleted(e, t) PROVE t \in 1..s - 1
    <3>1. ~IsCompleted(e, s)
      BY OpenIsNotCompleted
    <3>2. attempts[e][t] # << >>
      BY <2>2 DEF IsCompleted, CompletedAttempts
    <3>3. s \notin 1..t - 1
      BY <3>1, <3>2 DEF StepsInOrder
    <3>4. t # s
      BY <2>2, <3>1
    <3> QED  BY <3>3, <3>4, StepsAssumption DEF Steps
  <2> QED  BY <2>1, <2>2
<1> QED  BY <1>1, <1>2 DEF Progress!HasTurn, Progress!Untouched, Progress!PlanSteps, Steps

LEMMA TriedStays ==
  ASSUME TypeOK, TypeOK', TriedInRows, Progresses, \A e \in Execs : HasRow(e) => HasRow(e)'
  PROVE  TriedInRows'
<1> SUFFICES ASSUME NEW e \in Execs, NEW s \in Steps, attempts'[e][s] # << >>
             PROVE  HasRow(e)
  BY DEF TriedInRows
<1>1. attempts[e][s] \in Seq(Attempt) /\ attempts'[e][s] \in Seq(Attempt)
  BY DEF TypeOK
<1>2. CASE BeginsStep(e, s)
  BY <1>2 DEF BeginsStep, StepIsOpen, HasRow
<1>3. CASE ~BeginsStep(e, s)
  <2>1. Len(attempts'[e][s]) = Len(attempts[e][s])
    BY <1>3 DEF Progresses, BeginsStep, EndsStep, SameLengths
  <2>2. attempts[e][s] # << >>
    BY <1>1, <2>1
  <2> QED  BY <2>2 DEF TriedInRows
<1> QED  BY <1>2, <1>3

(* So every step is a step of PlanExecution.                               *)
LEMMA PlanStep ==
  ASSUME TypeOK, TypeOK', CompletionInv, StepsInOrder, AtMostOneExecution, TriedInRows, Progresses,
         StepsInOrder', CompletionIsWhole', ckpt'.last >= ckpt.last
  PROVE  [Progress!PlanNext]_(Progress!planVars)
<1> DEFINE tries  == [e \in Execs |-> [s \in Steps |-> Len(attempts[e][s])]]
           done   == [e \in Execs |-> {s \in Steps : IsCompleted(e, s)}]
           closed == {e \in Execs : ledger[e]["completed"] > 0}
<1>1. ckpt.last \in Nat /\ ckpt'.last \in Nat
  BY StepsAssumption DEF TypeOK, Checkpoint
<1>2. ASSUME NoNewCompletion
      PROVE  /\ \A d \in Execs, t \in Steps : IsCompleted(d, t)' <=> IsCompleted(d, t)
             /\ done' = done /\ ckpt'.last = ckpt.last
  <2>1. \A d \in Execs, t \in Steps : IsCompleted(d, t)' <=> IsCompleted(d, t)
    BY <1>2 DEF NoNewCompletion, IsCompleted
  <2> QED  BY <1>1, <1>2, <2>1 DEF NoNewCompletion
<1>3. ASSUME SameLengths PROVE tries' = tries
  BY <1>3 DEF SameLengths
<1>4. Steps = Progress!PlanSteps
  BY DEF Steps, Progress!PlanSteps
<1>5. ASSUME NEW e \in Execs, NEW s \in Steps, BeginsStep(e, s)
      PROVE  Progress!Try(e, s)
  <2>1. \A t \in 1..s - 1 : IsCompleted(e, t)
    <3>1. attempts'[e][s] # << >>
      BY <1>5 DEF BeginsStep, TypeOK
    <3>2. 1..s - 1 \subseteq Steps
      BY StepsAssumption DEF Steps
    <3> QED  BY <1>2, <1>5, <3>1, <3>2 DEF BeginsStep, StepsInOrder
  <2>2. Progress!HasTurn(e, s)
    BY <1>5, <2>1, TurnOf DEF BeginsStep
  <2>3. tries' = [tries EXCEPT ![e][s] = @ + 1]
    BY <1>5 DEF BeginsStep
  <2>4. done' = done /\ ckpt'.last = ckpt.last /\ closed' = closed
    BY <1>2, <1>5 DEF BeginsStep
  <2> QED  BY <2>2, <2>3, <2>4 DEF Progress!Try
<1>6. ASSUME NEW e \in Execs, NEW s \in Steps, EndsStep(e, s)
      PROVE  Progress!Complete(e, s)
  <2>1. PICK n \in Nat : OneNewCompletion(e, s, n)
    BY <1>6 DEF EndsStep
  <2>2. Progress!HasTurn(e, s)
    <3>1. \A t \in 1..s - 1 : IsCompleted(e, t)
      BY <1>6 DEF EndsStep, StepsInOrder
    <3> QED  BY <1>6, <3>1, TurnOf DEF EndsStep
  <2>3. tries[e][s] > 0
    BY <1>6 DEF EndsStep, TypeOK
  <2>4. done' = [done EXCEPT ![e] = @ \cup {s}]
    <3>1. \A d \in Execs, t \in Steps : IsCompleted(d, t)' <=> IsCompleted(d, t) \/ (d = e /\ t = s)
      BY <2>1 DEF OneNewCompletion, IsCompleted, CompletedAttempts
    <3> QED  BY <3>1
  <2>5. tries' = tries /\ ckpt'.last = s /\ closed' = closed
    BY <1>3, <1>6, <2>1 DEF EndsStep, OneNewCompletion
  <2> QED  BY <2>2, <2>3, <2>4, <2>5 DEF Progress!Complete
<1>7. ASSUME NoNewCompletion, SameLengths, LogsOnly
      PROVE  [Progress!PlanNext]_(Progress!planVars)
  <2>1. tries' = tries /\ done' = done /\ ckpt'.last = ckpt.last
    BY <1>2, <1>3, <1>7
  <2>2. CASE closed' = closed
    BY <2>1, <2>2 DEF Progress!planVars
  <2>3. CASE closed' # closed
    <3>1. PICK e \in Execs, K \in SUBSET Kinds : ledger' = Logged(ledger, e, K)
      BY <1>7, <2>3 DEF LogsOnly
    <3>2. ledger \in [Execs -> [Kinds -> 0..2]] /\ "completed" \in Kinds
      BY DEF TypeOK, Kinds
    <3>3. \A d \in Execs \ {e} : ledger'[d] = ledger[d]
      BY <3>1, <3>2 DEF Logged
    <3>4. ledger[e]["completed"] > 0 => ledger'[e]["completed"] > 0
      BY <3>1, <3>2 DEF Logged
    <3>5. e \in closed' /\ closed' = closed \cup {e}
      BY <2>3, <3>3, <3>4
    <3>6. \A s \in Steps : IsCompleted(e, s)'
      BY <3>5 DEF CompletionIsWhole
    <3>7. done[e] = Progress!PlanSteps
      BY <1>2, <1>4, <1>7, <3>6
    <3>8. Progress!Close(e)
      BY <2>1, <3>5, <3>7 DEF Progress!Close
    <3> QED  BY <3>8 DEF Progress!PlanNext
  <2> QED  BY <2>2, <2>3
<1>8. ASSUME NEW e \in Execs, NEW s \in Steps, Progress!Try(e, s) \/ Progress!Complete(e, s)
      PROVE  Progress!PlanNext
  BY <1>4, <1>8 DEF Progress!PlanNext
<1> HIDE DEF tries, done, closed
<1> QED  BY <1>5, <1>6, <1>7, <1>8 DEF Progresses

LEMMA PlanInitially ==
  ASSUME StoreInit
  PROVE  Progress!PlanInit /\ TriedInRows
<1>1. /\ \A e \in Execs, s \in Steps : attempts[e][s] = << >>
      /\ ckpt.last = 0 /\ \A e \in Execs : ledger[e]["completed"] = 0
  BY DEF StoreInit, NoCheckpoint, Kinds
<1>2. \A e \in Execs, s \in Steps : ~IsCompleted(e, s)
  BY <1>1 DEF IsCompleted, CompletedAttempts
<1> QED  BY <1>1, <1>2 DEF Progress!PlanInit, Progress!PlanSteps, Steps, TriedInRows

(* However many calls, crashes, stale workers and recoveries take part,    *)
(* the plan is served as PlanExecution has it: one execution takes its     *)
(* steps in order, completes each once and together with the checkpoint,   *)
(* and is closed when all are behind it.                                   *)
THEOREM EngineServesPlan == EngineSpec /\ []AtMostOneExecution => PlanIsServed
<1>1. EngineInit => Progress!PlanInit /\ TriedInRows
  BY PlanInitially DEF EngineInit
<1>2. /\ EngineInv /\ CompletionInv /\ OrderInv /\ AtMostOneExecution /\ AtMostOneExecution'
      /\ TriedInRows /\ [EngineNext]_vars
      => Progresses /\ TriedInRows'
  <2> SUFFICES ASSUME EngineInv, CompletionInv, OrderInv, AtMostOneExecution, AtMostOneExecution',
                      TriedInRows, [EngineNext]_vars
               PROVE  Progresses /\ TriedInRows'
    OBVIOUS
  <2>1. TypeOK /\ TypeOK' /\ [StoreNext]_storeVars
    BY EngineStep DEF EngineInv
  <2>2. \A e \in Execs : HasRow(e) => HasRow(e)'
    BY OrderStep
  <2> QED  BY <2>1, <2>2, TransactionProgresses, TriedStays
<1>3. /\ EngineInv /\ EngineInv' /\ CompletionInv /\ OrderInv /\ AtMostOneExecution /\ AtMostOneExecution'
      /\ TriedInRows /\ Progresses /\ StepsInOrder /\ StepsInOrder' /\ CompletionIsWhole'
      /\ [EngineNext]_vars
      => [Progress!PlanNext]_(Progress!planVars)
  BY OrderStep, PlanStep DEF EngineInv
<1>4. EngineSpec => []CompletionInv
  BY EngineImplementsStore, CompletionInvariant, PTL
<1>5. EngineSpec /\ []AtMostOneExecution => []TriedInRows
  BY <1>1, <1>2, <1>4, EngineInvariant, OrderInvariant, PTL DEF EngineSpec
<1> QED  BY <1>1, <1>2, <1>3, <1>4, <1>5, EngineInvariant, OrderInvariant, StepsTakenInOrder,
            ClosedIsWhole, PTL DEF EngineSpec, PlanIsServed, Progress!PlanSpec

(* Two calls that name one execution id, or no recovery, are enough.       *)
THEOREM PlanServed == EngineSpec /\ (OneId \/ NoRecovery) => PlanIsServed
BY EngineServesPlan, OneExecutionHasRows, PTL

=============================================================================
