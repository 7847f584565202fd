---------------------------- MODULE PlanExecution ----------------------------
(***************************************************************************)
(* What the execution engine promises of a plan, whatever calls, crashes,  *)
(* leases and operators do to it: one execution takes the plan's steps one *)
(* after the other, may try each of them several times, completes each of  *)
(* them once, and is closed when all are behind it.  Locks, rows, queues   *)
(* and workers are not part of the promise.                                *)
(***************************************************************************)
EXTENDS Naturals

CONSTANTS
    Execs,      \* execution ids that may run the plan
    NumSteps    \* number of steps of the plan

VARIABLES
    tries,      \* how often each execution has begun each step
    done,       \* the steps that each execution has completed
    saved,      \* the step from which a recovery would go on is the next one
    closed      \* the executions that are reported as completed

planVars == <<tries, done, saved, closed>>

PlanSteps == 1..NumSteps

PlanInit ==
    /\ tries = [e \in Execs |-> [s \in PlanSteps |-> 0]]
    /\ done = [e \in Execs |-> {}]
    /\ saved = 0
    /\ closed = {}

(* Steps are taken in order, by an execution that has the plan for itself. *)
Untouched(e) == \A s \in PlanSteps : tries[e][s] = 0
HasTurn(e, s) ==
    /\ done[e] = 1..s - 1
    /\ \A d \in Execs \ {e} : Untouched(d)

(* beginExecutionAttemptAtomic                                             *)
Try(e, s) ==
    /\ HasTurn(e, s)
    /\ tries' = [tries EXCEPT ![e][s] = @ + 1]
    /\ UNCHANGED <<done, saved, closed>>

(* finalizeExecutionAttemptAtomic, of an attempt that succeeded: the step  *)
(* and the checkpoint behind it are recorded in one.                       *)
Complete(e, s) ==
    /\ HasTurn(e, s)
    /\ tries[e][s] > 0
    /\ done' = [done EXCEPT ![e] = @ \cup {s}]
    /\ saved' = s
    /\ UNCHANGED <<tries, closed>>

(* execution.completed                                                     *)
Close(e) ==
    /\ done[e] = PlanSteps
    /\ closed' = closed \cup {e}
    /\ UNCHANGED <<tries, done, saved>>

PlanNext ==
    \E e \in Execs :
      \/ Close(e)
      \/ \E s \in PlanSteps : Try(e, s) \/ Complete(e, s)

PlanSpec == PlanInit /\ [][PlanNext]_planVars

=============================================================================
