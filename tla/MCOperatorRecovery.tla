-------------------------- MODULE MCOperatorRecovery --------------------------
(***************************************************************************)
(* Instances of OperatorRecovery for TLC: a client executes the plan and   *)
(* operators decide on it, with one key per call or one for two approvals. *)
(***************************************************************************)
EXTENDS OperatorRecovery, TLC

CONSTANTS e1, p1, p2, c1, c2, c3, c4, c5, k1, k2, k3, k4

ByOperators == (c1 :> "none") @@ (c2 :> "approve") @@ (c3 :> "reject")
                 @@ (c4 :> "retry") @@ (c5 :> "cancel")
ByTheEngine == (c1 :> "execute") @@ (c2 :> "approve") @@ (c3 :> "reject")
                 @@ (c4 :> "recover") @@ (c5 :> "recover")

(* The cancellation and the rejection come to another process.             *)
TwoProcesses == [c \in Calls |-> IF c \in {c3, c5} THEN p2 ELSE p1]
SameId       == [c \in Calls |-> e1]
Keys         == (c1 :> k1) @@ (c2 :> k1) @@ (c3 :> k2) @@ (c4 :> k3) @@ (c5 :> k4)

(* One approval is sent twice, to one process each time.                   *)
OneKey        == [c \in Calls |-> k1]
AllApprove    == [c \in Calls |-> IF c = c1 THEN "none" ELSE "approve"]
ThenApprove   == [c \in Calls |-> IF c = c1 THEN "execute" ELSE "approve"]
OtherProcess  == [c \in Calls |-> IF c = c3 THEN p2 ELSE p1]

(* The first step may fail, the second may ask for a review, and the third *)
(* is blocked.                                                             *)
ThenBlocked == [s \in Steps |-> IF s = 1 THEN {"ok", "error"}
                                ELSE IF s = 2 THEN {"ok", "asks"} ELSE {"blocked"}]

=============================================================================
