-------------------------- MODULE MCExecutionEngine --------------------------
(***************************************************************************)
(* Instances of ExecutionEngine for TLC: who calls what, from which        *)
(* process and under which execution id, and what the steps may do.        *)
(***************************************************************************)
EXTENDS ExecutionProperties

CONSTANTS e1, e2, p1, p2, p3, c1, c2, c3, c4

(* Two clients execute the plan and a third call recovers it, or approves  *)
(* a step of the first client's execution.                                 *)
ExecuteAndRecover == [c \in Calls |-> IF c = c3 THEN "recover" ELSE "execute"]
ExecuteAndApprove == [c \in Calls |-> IF c = c3 THEN "approve" ELSE "execute"]
TwoIds            == [c \in Calls |-> IF c = c2 THEN e2 ELSE e1]

(* One call executes the plan; the others recover it, and a fourth rejects *)
(* a step of it.                                                           *)
ThenRecover == [c \in Calls |-> IF c = c1 THEN "execute" ELSE IF c = c4 THEN "reject" ELSE "recover"]
SameId      == [c \in Calls |-> e1]

OwnProcesses == [c \in Calls |-> IF c = c1 THEN p1 ELSE IF c = c2 THEN p2 ELSE p3]

(* Steps that may end in every way, or only succeed, and a last step that  *)
(* must be reviewed first or that may be blocked.                          *)
AnyOutcome       == [s \in Steps |-> Outcomes]
AlwaysOk         == [s \in Steps |-> {"ok"}]
BlockedLast      == [s \in Steps |-> IF s = NumSteps THEN Outcomes \cup {"blocked"} ELSE Outcomes]
ReviewedLast     == [s \in Steps |-> IF s = NumSteps THEN Outcomes \cup {"reviewed"} ELSE Outcomes]

=============================================================================
