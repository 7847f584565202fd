--------------------------- MODULE MCExecutionStore ---------------------------
(* An instance of ExecutionStore for TLC: any transaction, any time, by    *)
(* callers that write one of two runs and end an execution as completed.   *)
EXTENDS ExecutionStore

CONSTANTS e1, p1

(* A paused run, and a run that a caller believes to be over.              *)
SomeWrites ==
    {[status |-> "paused_for_review", stage |-> "paused_for_review",
      steps |-> [s \in Steps |-> "pending"]],
     [status |-> "completed", stage |-> "completed", steps |-> [s \in Steps |-> "completed"]]}

SomeStep == StoreStep(SomeWrites, {"awaiting_review"}, {"lease"}, {"completed"})
SomeSpec == StoreInit /\ [][SomeStep]_storeVars
=============================================================================
