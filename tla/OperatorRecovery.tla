-------------------------- MODULE OperatorRecovery --------------------------
(***************************************************************************)
(* services/operatorRecovery.js: what an operator may do to a plan, over   *)
(* the calls of ExecutionEngine, with the transaction behind it,           *)
(* applyOperatorRecoveryAction of services/executionStateStore.js.         *)
(*                                                                         *)
(* An operator's call looks its idempotency key up, checks that the action *)
(* is safe, acts and stores its answer under the key.  Approvals and       *)
(* rejections act through resumeExecution, a retry through its transaction *)
(* and then recoverExecution; up to the engine's first await everything    *)
(* runs on the stack of the process.                                       *)
(***************************************************************************)
EXTENDS ExecutionProperties

CONSTANTS
    Action,  \* [Calls -> Actions]: "none" for a call made of the engine itself
    Key,     \* [Calls -> the idempotency key of the call]
    Named    \* steps an operator may name in a retry

Actions == {"none", "approve", "reject", "retry", "cancel"}

ASSUME OperatorAssumption ==
    /\ Action \in [Calls -> Actions]
    /\ Named \subseteq Steps
    /\ \A c \in Calls : /\ Action[c] \in {"approve", "reject"} => Op[c] = Action[c]
                        /\ Action[c] \in {"retry", "cancel"} => Op[c] = "recover"
    /\ DOMAIN Key = Calls

VARIABLES
    place,  \* how far each operator call is; "engine" from the start for others
    keys,   \* operator_action_idempotency: keys with a stored answer
    acted   \* calls that have decided, retried or cancelled (history)

opVars == <<place, keys, acted>>
allVars == <<vars, opVars>>

OperatorInit ==
    /\ EngineInit
    /\ place = [c \in Calls |-> IF Action[c] = "none" THEN "engine" ELSE "new"]
    /\ keys = {}
    /\ acted = {}

-----------------------------------------------------------------------------
(* Whose turn it is: an operator's call leaves the stack of its process    *)
(* where the engine that it called awaits, and when it is answered.        *)

OnStack(c) ==
    /\ Action[c] # "none"
    /\ \/ place[c] \in {"lock", "act", "store"}
       \/ place[c] = "engine" /\ pc[c] = "idle"

HasTurn(c) ==
    /\ ProcOf[c] \notin crashed
    /\ \A d \in Calls \ {c} : ProcOf[d] = ProcOf[c] => pc[d] \in Away /\ ~OnStack(d)

Goes(c, from, to) == place[c] = from /\ HasTurn(c) /\ place' = [place EXCEPT ![c] = to]

-----------------------------------------------------------------------------
(* The request *)

(* buildSafeActions, of the statuses read for the surface.                 *)
Safe(action, status) ==
    \/ action \in {"approve", "reject"}
       /\ (status \in {"paused", "paused_for_review"} \/ ckpt.status = "paused")
    \/ action = "retry"
       /\ (status = "failed" \/ ckpt.status \in {"failed", "awaiting_review",
                                    "pause_for_operator_recovery", "execution_abandoned"})
    \/ action = "cancel" /\ {status, ckpt.status} \cap {"completed", "cancelled"} = {}

(* A key with an answer is answered again; an action that is not safe, or  *)
(* a plan without rows, is refused, and the refusal is not stored.         *)
Ask(c) ==
    /\ UNCHANGED <<storeVars, pc, run, out, crashed, keys, acted>>
    /\ \/ /\ Key[c] \in keys \/ ~\E e \in Execs : HasRow(e) /\ Safe(Action[c], snap[e].status)
          /\ Goes(c, "new", "answered")
          /\ UNCHANGED target
       \/ /\ Key[c] \notin keys
          /\ \E e \in Execs : /\ HasRow(e) /\ Safe(Action[c], snap[e].status)
                              /\ target' = [target EXCEPT ![c] = e]
          /\ Goes(c, "new", IF Action[c] \in {"retry", "cancel"} THEN "lock" ELSE "engine")

(* A retry or a cancellation takes the lock, from whoever works under it,  *)
(* before its transaction looks at the rows.                               *)
TakeLock(c) ==
    /\ \/ AcquireOrReuseExecutionLock(target[c], ProcOf[c]) /\ Goes(c, "lock", "act")
       \/ AcquireOrReuseConflict(target[c]) /\ Goes(c, "lock", "store")
    /\ UNCHANGED <<callVars, keys, acted>>

-----------------------------------------------------------------------------
(* applyOperatorRecoveryAction of the store *)

InReview(e) ==
    \/ ckpt.status \in {"awaiting_review", "pause_for_operator_recovery"}
    \/ snap[e].status = "paused_for_review"

IsOver(e) == ckpt.status \in TerminalCheckpoint \/ snap[e].status \in TerminalExecution

MayCancel(e) == InReview(e) /\ ~IsOver(e)
MayRetry(e)  == MayCancel(e) \/ "failed" \in {ckpt.status, snap[e].status}

Cancelled(st) == IF st \in TerminalStep THEN st ELSE "cancelled"

(* Checkpoint, rows, ledger and lock move together.                        *)
CancelExecution(e) ==
    /\ MayCancel(e) /\ MayRelease(e)
    /\ ckpt' = [ckpt EXCEPT !.status = "cancelled"]
    /\ snap' = Unleased(e, [status |-> "cancelled", stage |-> Cancelled(snap[e].stage),
                            steps |-> [s \in Steps |-> Cancelled(snap[e].steps[s])]])
    /\ ledger' = Logged(ledger, e, {"cancelled", "lease"})
    /\ lock' = Released(e)
    /\ UNCHANGED <<attempts, queue>>

StepsAt(e, status) == {s \in Steps : snap[e].steps[s] = status}

(* Mistaken variant: a retry goes back to the beginning.                   *)
RetryTargetFirst(e) == {1}

(* The step that the operator names; else the first failed step, the first *)
(* one paused for review, or the one the checkpoint stands at.             *)
RetryTarget(e) ==
    LET by(status) == {s \in StepsAt(e, status) : \A t \in StepsAt(e, status) : s <= t}
        found == IF by("failed") # {} THEN by("failed")
                 ELSE IF by("paused_for_review") # {} THEN by("paused_for_review")
                 ELSE {ckpt.cur} \cap Steps
    IN  Named \cup found

(* The retried step is pending again whatever it was, and so is every      *)
(* later one that has not completed; the transition table is not asked.    *)
(* operator.retry_requested counts as little as the lease events do.       *)
RetryStep(e, s) ==
    /\ MayRetry(e)
    /\ ckpt' = [status |-> "paused", cur |-> s, last |-> IF ckpt.last < s THEN ckpt.last ELSE s - 1]
    /\ snap' = Merged(e, [status |-> "paused", stage |-> "pending",
                 steps |-> [t \in Steps |-> IF t = s \/ (t > s /\ snap[e].steps[t] # "completed")
                                            THEN "pending" ELSE snap[e].steps[t]]])
    /\ ledger' = Logged(ledger, e, {"lease"})
    /\ UNCHANGED <<lock, attempts, queue>>

Cancel(c) ==
    /\ Action[c] = "cancel" /\ CancelExecution(target[c]) /\ Goes(c, "act", "store")
    /\ acted' = acted \cup {c} /\ UNCHANGED <<callVars, keys>>

(* recoverExecution follows, on the stack.                                 *)
Retry(c) ==
    /\ Action[c] = "retry" /\ (\E s \in RetryTarget(target[c]) : RetryStep(target[c], s))
    /\ Goes(c, "act", "engine")
    /\ acted' = acted \cup {c} /\ UNCHANGED <<callVars, keys>>

(* A refusal leaves the lock where TakeLock has put it.                    *)
Refuse(c) ==
    /\ \/ Action[c] = "cancel" /\ ~(MayCancel(target[c]) /\ MayRelease(target[c]))
       \/ Action[c] = "retry" /\ ~(MayRetry(target[c]) /\ RetryTarget(target[c]) # {})
    /\ Goes(c, "act", "store")
    /\ UNCHANGED <<vars, keys, acted>>

-----------------------------------------------------------------------------
(* The engine's part, and the answer *)

Engine(c) ==
    /\ place[c] = "engine" /\ HasTurn(c)
    /\ CallStep(c) \/ Heartbeat(c)
    /\ acted' = IF pc[c] = "decide" /\ pc'[c] # "done" THEN acted \cup {c} ELSE acted
    /\ UNCHANGED <<place, keys>>

(* resumeExecution refuses a run that is no longer paused.                 *)
EngineRefuses(c) ==
    /\ Action[c] \in {"approve", "reject"} /\ pc[c] = "idle" /\ ~MayResume(c)
    /\ Goes(c, "engine", "store")
    /\ UNCHANGED <<vars, keys, acted>>

(* The key is stored when the action is over, in a transaction of its own. *)
StoreKey(c) ==
    /\ Action[c] # "none"
    /\ \/ Goes(c, "store", "answered")
       \/ pc[c] = "done" /\ Goes(c, "engine", "answered")
    /\ keys' = keys \cup {Key[c]}
    /\ UNCHANGED <<vars, acted>>

OperatorStep(c) ==
    Ask(c) \/ TakeLock(c) \/ Cancel(c) \/ Retry(c) \/ Refuse(c) \/ EngineRefuses(c) \/ StoreKey(c)

Environment == (\E p \in Procs : Crash(p)) \/ LeaseLapse \/ ItemDue

OperatorNext ==
    \/ \E c \in Calls : Engine(c) \/ OperatorStep(c)
    \/ Environment /\ UNCHANGED opVars

OperatorSpec == OperatorInit /\ [][OperatorNext]_allVars

-----------------------------------------------------------------------------
(* Properties *)

(* Once an operator has cancelled an execution, it stays cancelled and no  *)
(* step of it begins or changes, although an approval or a worker that     *)
(* read its rows before may still be at work in another process.           *)
CancelHolds ==
    [][\A e \in Execs : snap[e].status = "cancelled" =>
         /\ snap'[e].status = "cancelled" /\ snap'[e].steps = snap[e].steps
         /\ \A s \in Steps : Len(attempts'[e][s]) = Len(attempts[e][s])]_allVars

(* An idempotency key acts at most once                                    *)
(* (docs/phase-3.4D-3-closeout.md: "operator recovery action support with  *)
(* persisted idempotency"): a request that is sent again gets the answer   *)
(* of the first.                                                           *)
KeyActsOnce == \A c, d \in acted : Key[c] = Key[d] => c = d

=============================================================================
