------------------------- MODULE ExecutionProperties -------------------------
(***************************************************************************)
(* What the execution engine is meant to guarantee, over the calls of      *)
(* ExecutionEngine and the rows of ExecutionStore.                         *)
(***************************************************************************)
EXTENDS ExecutionEngine

(* Points at which a call works through the plan's steps.                  *)
Driving == {"stageRun", "stageLog", "step", "refusedBegin", "markRunning", "tool", "complete",
            "markCompleted", "fail", "markFailed", "failThrown", "markThrown", "markPaused",
            "stagePaused", "pause", "stageFailed", "stageFailedLog", "finalizeFailed",
            "stageDoneLog", "finalize"}

Over(c) == pc[c] \in {"done", "dead"}
Quiet   == \A c \in Calls : pc[c] = "idle" \/ Over(c)

(* Outcomes in which the engine may leave a plan.                          *)
Settled == TerminalCheckpoint \cup {"awaiting_review", "pause_for_operator_recovery"}

-----------------------------------------------------------------------------
(* Safety *)

(* However many callers execute the same plan, under whatever execution    *)
(* ids, only one execution of it ever gets rows: startExecutionState       *)
(* refuses the others after the lock has been released, the lock before.   *)
AtMostOneExecution == \A d, e \in Execs : HasRow(d) /\ HasRow(e) => d = e

(* Only one call drives the plan's steps at a time.                        *)
OneDriver == Cardinality({c \in Calls : pc[c] \in Driving}) <= 1

(* Whoever drives the plan holds its lock, from the first stage event to   *)
(* the transaction that releases it.                                       *)
DriverHoldsLock == \A c \in Calls : pc[c] \in Driving => HoldsLock(target[c], ProcOf[c])

(* No step is attempted before every earlier step of the same execution    *)
(* has completed, whether the call started, recovered or resumed the plan  *)
(* and whichever rows it was hydrated from.                                *)
StepsInOrder ==
    \A e \in Execs, s \in Steps :
      attempts[e][s] # << >> => \A t \in 1..s - 1 : IsCompleted(e, t)

(* Every step the checkpoint has behind it has a completed attempt, so a   *)
(* recovery that starts from the checkpoint skips nothing.                 *)
CheckpointIsTrue == \A s \in 1..ckpt.last : \E e \in Execs : IsCompleted(e, s)

(* An execution whose row or ledger says completed has completed every     *)
(* step, even when a stale worker or a second driver closes it.            *)
CompletionIsWhole ==
    \A e \in Execs :
      snap[e].status = "completed" \/ ledger[e]["completed"] > 0 => \A s \in Steps : IsCompleted(e, s)

(* When no call is left at work, none has left the plan's lock behind.     *)
EndsUnlocked == Quiet => ~lock.held

(* When every call is over, the plan is terminal, paused for review, with  *)
(* the operator, or corrupted.                                             *)
EndsSettled == (\A c \in Calls : Over(c)) => ckpt.status \in Settled

(* A step is begun at most once by recoveries that wait for the workers to *)
(* be gone: a step with any trace of an attempt goes to the operator, even *)
(* an idempotent one (reconcileExecutionState's recovery_ambiguous).       *)
AttemptedOnce == \A e \in Execs, s \in Steps : Len(attempts[e][s]) <= 1

(* A step that is not idempotent is never at work in two places            *)
(* (docs/phase-3.4D-2-closeout.md: "No step with side effects may execute  *)
(* twice unsafely").                                                       *)
SideEffectOnce ==
    \A c, d \in Calls :
      /\ pc[c] = "tool" /\ pc[d] = "tool"
      /\ run[c].step = run[d].step /\ run[c].step \notin Idempotent
      => c = d

-----------------------------------------------------------------------------
(* Steps *)

(* The checkpoint never goes back to a step that it has completed.         *)
CheckpointAdvances == [][ckpt'.last >= ckpt.last]_vars

(* To whoever asked for the plan, all of this amounts to one execution     *)
(* that takes the steps one after the other, completes each of them once   *)
(* together with the checkpoint behind it, and is closed when all are done *)
(* (PlanExecution), however many calls, crashes, stale workers and         *)
(* recoveries took part.                                                   *)
Progress == INSTANCE PlanExecution WITH
    tries  <- [e \in Execs |-> [s \in Steps |-> Len(attempts[e][s])]],
    done   <- [e \in Execs |-> {s \in Steps : IsCompleted(e, s)}],
    saved  <- ckpt.last,
    closed <- {e \in Execs : ledger[e]["completed"] > 0}

PlanIsServed == Progress!PlanSpec

-----------------------------------------------------------------------------
(* Liveness *)

(* Node runs a call that is not waiting for its turn until it awaits, and  *)
(* a tool that does not answer is timed out by the engine (withTimeout),   *)
(* so a call that has begun keeps taking steps.  Nobody has to begin one.  *)
Begun(c) == pc[c] # "idle"
FairSpec == EngineSpec /\ \A c \in Calls : WF_vars(Begun(c) /\ CallStep(c))

(* Every call that begins is over some day, unless its process crashed:    *)
(* no retry, refusal or lease loss keeps it in the loop.                   *)
CallsEnd == \A c \in Calls : Begun(c) ~> Over(c)

=============================================================================
